----------------------------- MODULE IngestProofs -----------------------------
(***************************************************************************)
(* The bytes of an upload (UploadBody) and the rows of a transfer          *)
(* (RowStreams): what is promised of each, proved for bodies and relations *)
(* of any size, cut up in any way.                                         *)
(*                                                                         *)
(* What a recursive function computes is proved by climbing a range of     *)
(* numbers (Foundations).                                                     *)
(***************************************************************************)
EXTENDS UploadBody, RowStreams, Foundations

-----------------------------------------------------------------------------
(***************************************************************************)
(* The sizes of messages.                                                  *)
(***************************************************************************)

\* The function inside SumOfSizes: how much the first k messages hold.
Total(sizes) ==
    CHOOSE f : f = [k \in 0..Len(sizes) |-> IF k = 0 THEN 0 ELSE f[k - 1] + sizes[k]]

LEMMA TotalExists ==
    ASSUME NEW sizes \in Seq(Nat)
    PROVE  \E f \in [0..Len(sizes) -> Nat] :
              f = [k \in 0..Len(sizes) |-> IF k = 0 THEN 0 ELSE f[k - 1] + sizes[k]]
<1> DEFINE Sums(f, n) ==
             f \in [0..n -> Nat] /\ f[0] = 0 /\ \A k \in 1..n : f[k] = f[k - 1] + sizes[k]
           S == {n \in Nat : \E f : Sums(f, n)}
<1>1. 0 \in S
  <2>1. Sums([k \in 0..0 |-> 0], 0)
    OBVIOUS
  <2> QED
    BY <2>1
<1>2. ASSUME NEW n \in 0..(Len(sizes) - 1), n \in S PROVE n + 1 \in S
  <2>1. PICK f : Sums(f, n)
    BY <1>2
  <2> DEFINE g == [k \in 0..(n + 1) |-> IF k = n + 1 THEN f[n] + sizes[n + 1] ELSE f[k]]
  <2>2. n \in Nat /\ n + 1 \in 1..Len(sizes) /\ sizes[n + 1] \in Nat
    OBVIOUS
  <2>3. f \in [0..n -> Nat] /\ f[0] = 0 /\ \A k \in 1..n : f[k] = f[k - 1] + sizes[k]
    BY <2>1
  <2>4. f[n] \in Nat
    BY <2>2, <2>3
  <2>5. g \in [0..(n + 1) -> Nat]
    BY <2>2, <2>3, <2>4
  <2>6. g[0] = 0
    BY <2>2, <2>3
  <2>7. ASSUME NEW k \in 1..(n + 1) PROVE g[k] = g[k - 1] + sizes[k]
    <3>1. CASE k = n + 1
      BY <2>2, <3>1
    <3>2. CASE k # n + 1
      <4>1. k \in 1..n /\ k - 1 \in 0..n /\ k \in 0..(n + 1) /\ k - 1 \in 0..(n + 1)
        BY <2>2, <3>2
      <4>2. g[k] = f[k] /\ g[k - 1] = f[k - 1]
        BY <2>2, <3>2, <4>1
      <4> QED
        BY <2>3, <4>1, <4>2
    <3> QED
      BY <3>1, <3>2
  <2> HIDE DEF g
  <2>8. Sums(g, n + 1)
    BY <2>5, <2>6, <2>7
  <2> HIDE DEF Sums
  <2>9. \E h : Sums(h, n + 1)
    BY <2>8
  <2> QED
    BY <2>2, <2>9
<1>3. Len(sizes) \in Nat
  OBVIOUS
<1> HIDE DEF S
<1>4. Len(sizes) \in S
  <2>1. \A k \in 0..Len(sizes) : k \in S
    BY <1>1, <1>2, <1>3, Climb
  <2> QED
    BY <1>3, <2>1
<1>5. PICK f : Sums(f, Len(sizes))
  BY <1>4 DEF S
<1>6. f = [k \in 0..Len(sizes) |-> IF k = 0 THEN 0 ELSE f[k - 1] + sizes[k]]
  BY <1>3, <1>5
<1> QED
  BY <1>5, <1>6

LEMMA TotalIs ==
    ASSUME NEW sizes \in Seq(Nat)
    PROVE  /\ Total(sizes) \in [0..Len(sizes) -> Nat] /\ Total(sizes)[0] = 0
           /\ \A k \in 1..Len(sizes) : Total(sizes)[k] = Total(sizes)[k - 1] + sizes[k]
           /\ SumOfSizes(sizes) = Total(sizes)[Len(sizes)]
<1> DEFINE t == Total(sizes)
<1>1. t = [k \in 0..Len(sizes) |-> IF k = 0 THEN 0 ELSE t[k - 1] + sizes[k]]
  BY TotalExists, Zenon DEF Total
<1>2. Len(sizes) \in Nat
  OBVIOUS
<1>3. SumOfSizes(sizes) = t[Len(sizes)]
  BY DEF SumOfSizes, Total
<1> HIDE DEF t
<1>4. t[0] = 0 /\ \A k \in 1..Len(sizes) : t[k] = t[k - 1] + sizes[k]
  BY <1>1, <1>2
<1>5. DOMAIN t = 0..Len(sizes)
  BY <1>1
<1> DEFINE S == {k \in Nat : t[k] \in Nat}
<1>6. \A k \in 0..Len(sizes) : k \in S
  <2>1. 0 \in S
    BY <1>4
  <2>2. ASSUME NEW k \in 0..(Len(sizes) - 1), k \in S PROVE k + 1 \in S
    <3>1. k + 1 \in 1..Len(sizes) /\ sizes[k + 1] \in Nat /\ t[k] \in Nat
      BY <2>2
    <3>2. t[k + 1] = t[k] + sizes[k + 1]
      BY <1>4, <3>1
    <3> QED
      BY <3>1, <3>2
  <2> HIDE DEF S
  <2> QED
    BY <1>2, <2>1, <2>2, Climb
<1>7. t \in [0..Len(sizes) -> Nat]
  BY <1>1, <1>5, <1>6
<1> QED
  BY <1>3, <1>4, <1>7 DEF t

-----------------------------------------------------------------------------
(***************************************************************************)
(* The body of an upload.                                                  *)
(***************************************************************************)

\* The request is one that a client sends, and what was heard of it adds up.
Heard ==
    /\ wire = "idle" => upload = {} /\ heard = 0 /\ received = 0
    /\ wire # "idle" =>
         \E u \in Uploads :
            /\ upload = {u}
            /\ heard \in 0..Len(u.messages)
            /\ received = Total(u.messages)[heard]

\* The limit of the middleware stands between what came and what was handed on.
Metered ==
    /\ handed \in Nat /\ received \in Nat /\ size \in Nat
    /\ handed <= MaxUpload /\ handed <= received

\* A form is parsed to its end before its route is called; what a route stores of a raw
\* body is what came.
Streamed ==
    /\ wire \in {"idle", "parse", "route", "begin"} => size = 0
    /\ wire = "store" => size <= Limit /\ (Sent.route = "raw" => size = received)
    /\ wire \in {"route", "begin", "store"} /\ Sent.route = "form" => ~Sent.breaksOff
    /\ wire = "parse" => Sent.route = "form"
    /\ wire \in {"route", "begin"} /\ Sent.route = "raw" => received = 0

\* Where a request is before storage has its object.
Streaming == {"idle", "parse", "route", "begin", "store"}

\* One answer, and 201 exactly for a row that stays STORED.
Replied ==
    /\ wire \in Streaming \cup {"commit", "finalise", "unlink", "drop", "done"}
    /\ wire # "done" => replies = <<>>
    /\ wire = "done" => \E status \in Nat :
          /\ replies = <<status>>
          /\ status = 201 => row \in {"stored", "gone"}
          /\ row = "stored" => status = 201

\* What the row and the delete beside the upload may say of where the upload is.
Recorded ==
    /\ wire \in {"idle", "parse", "route"} => row = "none" /\ deleter = "none"
    /\ wire \in {"begin", "store", "commit"} => row \notin {"none", "stored"}
    /\ wire \in {"finalise", "unlink", "drop"} => row \in {"stored", "gone"}
    /\ deleter = "unlink" =>
         wire \in {"finalise", "unlink", "drop", "done"} /\ row \in {"stored", "gone"}

\* A STORED row has its object until a delete comes to it; a request that has ended
\* leaves an object to such a row, or to none.
Kept ==
    /\ object \in Int
    /\ wire \in Streaming => object = -1
    /\ wire = "commit" => object > 0
    /\ row = "stored" /\ "drop" \notin {wire, deleter} => object > 0
    /\ wire = "done" /\ object > 0 => row \in {"stored", "gone"}

Whole == object > 0 => object = FileSize(Sent) /\ object <= Limit /\ ~Sent.breaksOff

BodyInv == Heard /\ Metered /\ Streamed /\ Replied /\ Recorded /\ Kept /\ Whole

LEMMA SentIs ==
    ASSUME NEW u \in Uploads, upload = {u}
    PROVE  /\ Sent = u /\ u \in Upload /\ u.messages \in Seq(Nat) /\ u.envelope \in Nat
           /\ u.route \in {"form", "raw"} /\ (u.route = "raw" => u.envelope = 0)
           /\ MaxUpload \in Nat /\ MaxExcel \in Nat /\ ChunkBytes \in Nat \ {0}
<1>1. Sent = u
  BY DEF Sent
<1>2. u \in Upload /\ (u.route = "raw" => u.envelope = 0)
  BY UploadAssumption DEF UploadAssumption
<1>3. u.messages \in Seq(Nat) /\ u.envelope \in Nat /\ u.route \in {"form", "raw"}
  BY <1>2 DEF Upload
<1>4. MaxUpload \in Nat /\ MaxExcel \in Nat /\ ChunkBytes \in Nat \ {0}
  BY UploadAssumption DEF UploadAssumption
<1> QED
  BY <1>1, <1>2, <1>3, <1>4

\* What FileSize says of a request, by the running total of its messages.
LEMMA FileSizeIs ==
    ASSUME NEW u \in Uploads, upload = {u}
    PROVE  /\ FileSize(u) = Total(u.messages)[Len(u.messages)] - u.envelope
           /\ FileSize(u) \in Int
<1>1. u.messages \in Seq(Nat) /\ u.envelope \in Nat
  BY SentIs
<1>2. Total(u.messages)[Len(u.messages)] \in Nat
  <2>1. Len(u.messages) \in 0..Len(u.messages)
    BY <1>1
  <2>2. Total(u.messages) \in [0..Len(u.messages) -> Nat]
    BY <1>1, TotalIs
  <2> QED
    BY <2>1, <2>2
<1> QED
  BY <1>1, <1>2, TotalIs DEF FileSize

\* A message more: the count and the total advance together, and what is handed on
\* stays within the limit.
LEMMA ReceiveStep ==
    ASSUME NEW u \in Uploads, upload = {u}, wire # "idle", Heard, Metered, Receive
    PROVE  /\ heard' \in 0..Len(u.messages) /\ received' = Total(u.messages)[heard']
           /\ received' = received + u.messages[heard + 1]
           /\ u.messages[heard + 1] \in Nat
           /\ received' \in Nat /\ handed' \in Nat
           /\ handed' <= MaxUpload /\ handed' <= received'
<1>1. /\ Sent = u /\ u.messages \in Seq(Nat) /\ MaxUpload \in Nat
  BY SentIs
<1>2. heard \in 0..Len(u.messages) /\ received = Total(u.messages)[heard]
  <2>1. PICK w \in Uploads : /\ upload = {w} /\ heard \in 0..Len(w.messages)
                             /\ received = Total(w.messages)[heard]
    BY DEF Heard
  <2>2. w = u
    BY <2>1
  <2> QED
    BY <2>1, <2>2
<1>3. heard + 1 \in 1..Len(u.messages) /\ u.messages[heard + 1] \in Nat
  BY <1>1, <1>2 DEF Receive
<1>4. heard' = heard + 1 /\ received' = received + u.messages[heard + 1]
  BY <1>1 DEF Receive, Count
<1>5. Total(u.messages)[heard + 1] = Total(u.messages)[heard] + u.messages[heard + 1]
  <2>1. \A k \in 1..Len(u.messages) :
           Total(u.messages)[k] = Total(u.messages)[k - 1] + u.messages[k]
    BY <1>1, TotalIs
  <2>2. (heard + 1) - 1 = heard
    BY <1>2
  <2> QED
    BY <1>3, <2>1, <2>2
<1>6. handed' = IF received' > MaxUpload THEN handed ELSE handed + u.messages[heard + 1]
  BY <1>1 DEF Receive, TooLarge
<1>7. received \in Nat /\ handed \in Nat /\ handed <= MaxUpload /\ handed <= received
  BY DEF Metered
<1>8. received' = Total(u.messages)[heard']
  BY <1>2, <1>4, <1>5
<1>9. heard' \in 0..Len(u.messages)
  BY <1>2, <1>3, <1>4
<1> DEFINE m == u.messages[heard + 1]
<1>10. m \in Nat /\ received' = received + m
       /\ handed' = IF received' > MaxUpload THEN handed ELSE handed + m
  BY <1>3, <1>4, <1>6
<1> HIDE DEF m
<1>11. received' \in Nat /\ handed' \in Nat /\ handed' <= MaxUpload /\ handed' <= received'
  BY <1>1, <1>7, <1>10
<1> QED
  BY <1>3, <1>4, <1>8, <1>9, <1>11

LEMMA BodyInit_Inv == ASSUME BodyInit PROVE BodyInv
<1>1. MaxUpload \in Nat
  BY UploadAssumption DEF UploadAssumption
<1>2. Heard /\ Metered /\ Streamed
  BY <1>1 DEF BodyInit, Heard, Metered, Streamed
<1>3. Replied /\ Recorded /\ Kept /\ Whole
  BY DEF BodyInit, Replied, Recorded, Kept, Whole, Streaming
<1> QED
  BY <1>2, <1>3 DEF BodyInv

\* A step that hears nothing leaves the meter alone.
LEMMA QuietMeter ==
    ASSUME Heard, Metered, wire # "idle", wire' # "idle",
           UNCHANGED <<upload, meter>>, size' \in Nat
    PROVE  Heard' /\ Metered'
<1>1. UNCHANGED <<upload, heard, received, handed>>
  BY DEF meter
<1>2. Heard'
  BY <1>1 DEF Heard
<1>3. Metered'
  BY <1>1 DEF Metered
<1> QED
  BY <1>2, <1>3

\* What does not touch the request or the object leaves the object whole; so does what
\* takes it away.
LEMMA StaysWhole ==
    ASSUME Whole, UNCHANGED upload, object' \in {-1, 0, object}
    PROVE  Whole'
<1>1. Sent' = Sent /\ Limit' = Limit /\ FileSize(Sent)' = FileSize(Sent)
  BY DEF Sent, Limit, FileSize
<1> QED
  BY <1>1 DEF Whole

\* A request is answered once.
LEMMA ReplyOnce ==
    ASSUME Replied, wire # "done", NEW status \in Nat, Reply(status),
           status = 201 => row' \in {"stored", "gone"}, row' = "stored" => status = 201
    PROVE  Replied'
<1>1. replies = <<>>
  BY DEF Replied
<1>2. replies' = <<status>> /\ wire' = "done"
  BY <1>1 DEF Reply
<1> QED
  BY <1>2 DEF Replied

\* What a refusal leaves behind before storage has the object.
LEMMA Refused ==
    ASSUME Replied, Recorded, Kept, wire \in Streaming, NEW status \in Nat, status # 201,
           Reply(status), row' # "stored", object' \in {-1, 0}, UNCHANGED deleter
    PROVE  Streamed' /\ Replied' /\ Recorded' /\ Kept' /\ Whole'
<1>1. wire # "done" /\ wire' = "done"
  BY DEF Streaming, Reply
<1>2. Replied'
  BY <1>1, ReplyOnce
<1>3. deleter' # "unlink"
  BY DEF Recorded, Streaming
<1>4. Streamed' /\ Recorded' /\ Kept' /\ Whole'
  BY <1>1, <1>3 DEF Streamed, Recorded, Kept, Whole, Streaming
<1> QED
  BY <1>2, <1>4

\* Giving up is such a refusal.
LEMMA Abandoned ==
    ASSUME Replied, Recorded, Kept, wire = "store", NEW status \in Nat, status # 201,
           Abandon(status), UNCHANGED <<object, deleter>>
    PROVE  /\ wire' = "done"
           /\ Streamed' /\ Replied' /\ Recorded' /\ Kept' /\ Whole'
<1>1. wire \in Streaming /\ object' \in {-1, 0}
  BY DEF Kept, Streaming
<1>2. row' # "stored"
  BY DEF Abandon, Recorded
<1>3. Reply(status) \/ Reply(500)
  BY DEF Abandon
<1>4. Streamed' /\ Replied' /\ Recorded' /\ Kept' /\ Whole'
  BY <1>1, <1>2, <1>3, Refused
<1>5. wire' = "done"
  BY <1>3 DEF Reply
<1> QED
  BY <1>4, <1>5

\* The steps of the request, once it was sent.
LEMMA RequestStep ==
    ASSUME BodyInv, wire # "idle",
           ParseForm \/ EndForm \/ Accept \/ BeginStream
             \/ StoreSpooled \/ StoreMessage \/ StoreFails \/ EndStream
             \/ CommitStored \/ Finalise \/ UnlinkDuplicate \/ DropDuplicate
    PROVE  BodyInv'
<1>1. Heard /\ Metered /\ Streamed /\ Replied /\ Recorded /\ Kept /\ Whole
  BY DEF BodyInv
<1>2. MaxUpload \in Nat /\ MaxExcel \in Nat /\ ChunkBytes \in Nat \ {0}
  BY UploadAssumption DEF UploadAssumption
<1>3. PICK u \in Uploads : upload = {u}
  BY <1>1 DEF Heard
<1>4. /\ Sent = u /\ u \in Upload /\ u.messages \in Seq(Nat) /\ u.envelope \in Nat
      /\ u.route \in {"form", "raw"} /\ (u.route = "raw" => u.envelope = 0)
  BY <1>3, SentIs
<1>5. FileSize(u) = Total(u.messages)[Len(u.messages)] - u.envelope /\ FileSize(u) \in Int
  BY <1>3, FileSizeIs
<1>6. Limit \in Nat
  BY <1>2 DEF Limit
<1>7. size \in Nat /\ (wire \in Streaming => object = -1)
  BY <1>1 DEF Metered, Kept
<1>8. CASE ParseForm
  <2>1. /\ wire = "parse" /\ wire \in Streaming /\ Receive
        /\ UNCHANGED <<upload, size, object, row, deleter>>
    BY <1>8 DEF ParseForm, Streaming
  <2>2. /\ heard' \in 0..Len(u.messages) /\ received' = Total(u.messages)[heard']
        /\ received' \in Nat /\ handed' \in Nat
        /\ handed' <= MaxUpload /\ handed' <= received'
    BY <1>1, <1>3, <2>1, ReceiveStep
  <2>3. wire' # "idle"
    BY <1>8 DEF ParseForm, Reply
  <2>4. Heard' /\ Metered'
    BY <1>1, <1>3, <2>1, <2>2, <2>3 DEF Heard, Metered
  <2>5. row' # "stored" /\ object' \in {-1, 0}
    BY <1>1, <1>7, <2>1 DEF Recorded
  <2>6. CASE TooLarge
    <3>1. Reply(400)
      BY <1>8, <2>6 DEF ParseForm
    <3> QED
      BY <1>1, <2>1, <2>4, <2>5, <3>1, Refused DEF BodyInv
  <2>7. CASE ~TooLarge
    <3>1. UNCHANGED <<wire, replies>>
      BY <1>8, <2>7 DEF ParseForm
    <3>2. Streamed'
      BY <1>1, <2>1, <3>1 DEF Streamed, Sent
    <3>3. Replied' /\ Recorded' /\ Kept'
      BY <1>1, <2>1, <3>1 DEF Replied, Recorded, Kept
    <3>4. Whole'
      BY <1>1, <2>1, StaysWhole
    <3> QED
      BY <2>4, <3>2, <3>3, <3>4 DEF BodyInv
  <2> QED
    BY <2>6, <2>7
<1>9. CASE EndForm
  <2>1. /\ wire = "parse" /\ wire \in Streaming
        /\ UNCHANGED <<upload, meter, size, object, row, deleter>>
    BY <1>9 DEF EndForm, Streaming
  <2>2. wire' # "idle"
    BY <1>9 DEF EndForm, Reply
  <2>3. Heard' /\ Metered'
    BY <1>1, <1>7, <2>1, <2>2, QuietMeter
  <2>4. row' # "stored" /\ object' \in {-1, 0}
    BY <1>1, <1>7, <2>1 DEF Recorded
  <2>5. CASE Sent.breaksOff
    <3>1. Reply(400)
      BY <1>9, <2>5 DEF EndForm
    <3> QED
      BY <1>1, <2>1, <2>3, <2>4, <3>1, Refused DEF BodyInv
  <2>6. CASE ~Sent.breaksOff
    <3>1. wire' = "route" /\ UNCHANGED replies
      BY <1>9, <2>6 DEF EndForm
    <3>2. Sent' = Sent
      BY <2>1 DEF Sent
    <3>3. Streamed'
      BY <1>1, <2>1, <2>6, <3>1, <3>2 DEF Streamed
    <3>4. Replied' /\ Recorded' /\ Kept'
      BY <1>1, <2>1, <3>1 DEF Replied, Recorded, Kept, Streaming
    <3>5. Whole'
      BY <1>1, <2>1, StaysWhole
    <3> QED
      BY <2>3, <3>3, <3>4, <3>5 DEF BodyInv
  <2> QED
    BY <2>5, <2>6
<1>10. CASE Accept
  <2>1. /\ wire = "route" /\ wire \in Streaming
        /\ UNCHANGED <<upload, meter, size, object, deleter>>
        /\ row' \in {row, "pending"}
    BY <1>10 DEF Accept, Streaming
  <2>2. wire' # "idle"
    BY <1>10 DEF Accept, Reply
  <2>3. Heard' /\ Metered'
    BY <1>1, <1>7, <2>1, <2>2, QuietMeter
  <2>4. row' # "stored" /\ object' \in {-1, 0}
    BY <1>1, <1>7, <2>1 DEF Recorded
  <2>5. CASE Sent.format = "unsupported"
    <3>1. Reply(415)
      BY <1>10, <2>5 DEF Accept
    <3> QED
      BY <1>1, <2>1, <2>3, <2>4, <3>1, Refused DEF BodyInv
  <2>6. CASE Sent.format # "unsupported"
    <3>1. wire' = "begin" /\ row' = "pending" /\ UNCHANGED replies
      BY <1>10, <2>6 DEF Accept
    <3>2. Sent' = Sent /\ received' = received
      BY <2>1 DEF Sent, meter
    <3>3. Streamed'
      BY <1>1, <2>1, <3>1, <3>2 DEF Streamed
    <3>4. Replied' /\ Recorded' /\ Kept'
      BY <1>1, <2>1, <3>1 DEF Replied, Recorded, Kept, Streaming
    <3>5. Whole'
      BY <1>1, <2>1, StaysWhole
    <3> QED
      BY <2>3, <3>3, <3>4, <3>5 DEF BodyInv
  <2> QED
    BY <2>5, <2>6
<1>11. CASE BeginStream
  <2>1. /\ wire = "begin" /\ wire \in Streaming /\ Commit("uploading", "store")
        /\ UNCHANGED <<upload, meter, size, object, deleter>>
    BY <1>11 DEF BeginStream, Streaming
  <2>2. wire' # "idle" /\ row' # "stored" /\ object' \in {-1, 0}
    BY <1>1, <1>7, <2>1 DEF Commit, Reply, Recorded
  <2>3. Heard' /\ Metered'
    BY <1>1, <1>7, <2>1, <2>2, QuietMeter
  <2>4. CASE row = "gone"
    <3>1. Reply(500)
      BY <2>1, <2>4 DEF Commit
    <3> QED
      BY <1>1, <2>1, <2>2, <2>3, <3>1, Refused DEF BodyInv
  <2>5. CASE row # "gone"
    <3>1. wire' = "store" /\ row' = "uploading" /\ UNCHANGED replies
      BY <2>1, <2>5 DEF Commit
    <3>2. Sent' = Sent /\ Limit' = Limit /\ received' = received
      BY <2>1 DEF Sent, Limit, meter
    <3>3. Streamed'
      BY <1>1, <1>6, <2>1, <3>1, <3>2 DEF Streamed
    <3>4. Replied' /\ Recorded' /\ Kept'
      BY <1>1, <2>1, <3>1 DEF Replied, Recorded, Kept, Streaming
    <3>5. Whole'
      BY <1>1, <2>1, StaysWhole
    <3> QED
      BY <2>3, <3>3, <3>4, <3>5 DEF BodyInv
  <2> QED
    BY <2>4, <2>5
<1>12. CASE StoreSpooled
  <2> DEFINE bytes ==
        IF FileSize(Sent) - size < ChunkBytes THEN FileSize(Sent) - size ELSE ChunkBytes
  <2>1. /\ wire = "store" /\ Sent.route = "form" /\ size < FileSize(Sent)
        /\ StoreChunk(bytes)
        /\ UNCHANGED <<upload, meter, object, deleter>>
    BY <1>12 DEF StoreSpooled
  <2>2. bytes \in Nat
    BY <1>2, <1>4, <1>5, <1>7, <2>1
  <2> HIDE DEF bytes
  <2>3. size' = size + bytes /\ size' \in Nat
    BY <1>7, <2>1, <2>2 DEF StoreChunk
  <2>4. wire' # "idle"
    BY <2>1 DEF StoreChunk, Abandon, Reply
  <2>5. Heard' /\ Metered'
    BY <1>1, <2>1, <2>3, <2>4, QuietMeter
  <2>6. CASE size' > Limit
    <3>1. Abandon(413)
      BY <2>1, <2>6 DEF StoreChunk
    <3> QED
      BY <1>1, <2>1, <2>5, <3>1, Abandoned DEF BodyInv
  <2>7. CASE ~(size' > Limit)
    <3>1. UNCHANGED <<wire, row, replies>>
      BY <2>1, <2>7 DEF StoreChunk
    <3>2. Sent' = Sent /\ Limit' = Limit
      BY <2>1 DEF Sent, Limit
    <3>3. size' <= Limit
      BY <1>6, <2>3, <2>7
    <3>4. Streamed'
      BY <1>1, <2>1, <3>1, <3>2, <3>3 DEF Streamed
    <3>5. Replied' /\ Recorded' /\ Kept'
      BY <1>1, <2>1, <3>1 DEF Replied, Recorded, Kept
    <3>6. Whole'
      BY <1>1, <2>1, StaysWhole
    <3> QED
      BY <2>5, <3>4, <3>5, <3>6 DEF BodyInv
  <2> QED
    BY <2>6, <2>7
<1>13. CASE StoreMessage
  <2>1. /\ wire = "store" /\ Sent.route = "raw" /\ Receive
        /\ UNCHANGED <<upload, object, deleter>>
    BY <1>13 DEF StoreMessage
  <2>2. /\ heard' \in 0..Len(u.messages) /\ received' = Total(u.messages)[heard']
        /\ received' = received + u.messages[heard + 1]
        /\ u.messages[heard + 1] \in Nat
        /\ received' \in Nat /\ handed' \in Nat
        /\ handed' <= MaxUpload /\ handed' <= received'
    BY <1>1, <1>3, <2>1, ReceiveStep
  <2>3. wire' # "idle"
    BY <1>13, <2>1 DEF StoreMessage, StoreChunk, Abandon, Reply
  <2>4. Heard'
    BY <1>1, <1>3, <2>1, <2>2, <2>3 DEF Heard
  <2>5. CASE TooLarge
    <3>1. Abandon(413) /\ size' = size
      BY <1>13, <2>5 DEF StoreMessage
    <3>2. Metered'
      BY <1>1, <2>2, <3>1 DEF Metered
    <3> QED
      BY <1>1, <2>1, <2>4, <3>1, <3>2, Abandoned DEF BodyInv
  <2>6. CASE ~TooLarge
    <3>1. StoreChunk(u.messages[heard + 1])
      BY <1>4, <1>13, <2>6 DEF StoreMessage
    <3>2. size' = size + u.messages[heard + 1] /\ size' \in Nat /\ size' = received'
      BY <1>1, <2>1, <2>2, <3>1 DEF StoreChunk, Metered, Streamed
    <3>3. Metered'
      BY <2>2, <3>2 DEF Metered
    <3>4. CASE size' > Limit
      <4>1. Abandon(413)
        BY <3>1, <3>4 DEF StoreChunk
      <4> QED
        BY <1>1, <2>1, <2>4, <3>3, <4>1, Abandoned DEF BodyInv
    <3>5. CASE ~(size' > Limit)
      <4>1. UNCHANGED <<wire, row, replies>>
        BY <3>1, <3>5 DEF StoreChunk
      <4>2. Sent' = Sent /\ Limit' = Limit
        BY <2>1 DEF Sent, Limit
      <4>3. size' <= Limit
        BY <1>6, <3>2, <3>5
      <4>4. Streamed'
        BY <1>1, <2>1, <3>2, <4>1, <4>2, <4>3 DEF Streamed
      <4>5. Replied' /\ Recorded' /\ Kept'
        BY <1>1, <2>1, <4>1 DEF Replied, Recorded, Kept
      <4>6. Whole'
        BY <1>1, <2>1, StaysWhole
      <4> QED
        BY <2>4, <3>3, <4>4, <4>5, <4>6 DEF BodyInv
    <3> QED
      BY <3>4, <3>5
  <2> QED
    BY <2>5, <2>6
<1>14. CASE StoreFails
  <2>1. /\ wire = "store" /\ Abandon(500)
        /\ UNCHANGED <<upload, meter, size, object, deleter>>
    BY <1>14 DEF StoreFails
  <2>2. wire' = "done" /\ Streamed' /\ Replied' /\ Recorded' /\ Kept' /\ Whole'
    BY <1>1, <2>1, Abandoned
  <2>3. Heard' /\ Metered'
    BY <1>1, <1>7, <2>1, <2>2, QuietMeter
  <2> QED
    BY <2>2, <2>3 DEF BodyInv
<1>15. CASE EndStream
  <2>1. /\ wire = "store" /\ wire \in Streaming
        /\ UNCHANGED <<upload, meter, size, deleter>>
        /\ IF Sent.route = "form" THEN size = FileSize(Sent)
           ELSE heard = Len(Sent.messages) /\ ~Sent.breaksOff
    BY <1>15 DEF EndStream, Streaming
  <2>2. wire' # "idle"
    BY <1>15 DEF EndStream, Abandon, Reply
  <2>3. Heard' /\ Metered'
    BY <1>1, <1>7, <2>1, <2>2, QuietMeter
  <2>4. size = FileSize(Sent) /\ ~Sent.breaksOff
    <3>1. CASE u.route = "form"
      BY <1>1, <1>4, <2>1, <3>1 DEF Streamed
    <3>2. CASE u.route = "raw"
      <4>1. heard = Len(u.messages) /\ ~u.breaksOff /\ u.envelope = 0
        BY <1>4, <2>1, <3>2
      <4>2. received = Total(u.messages)[heard]
        <5>1. PICK w \in Uploads : upload = {w} /\ received = Total(w.messages)[heard]
          BY <1>1 DEF Heard
        <5>2. w = u
          BY <1>3, <5>1
        <5> QED
          BY <5>1, <5>2
      <4>3. size = received /\ received \in Nat
        BY <1>1, <1>4, <2>1, <3>2 DEF Streamed, Metered
      <4> QED
        BY <1>4, <1>5, <4>1, <4>2, <4>3
    <3> QED
      BY <1>4, <3>1, <3>2
  <2>5. size <= Limit
    BY <1>1, <2>1 DEF Streamed
  <2>6. CASE size > 0 /\ object' = size /\ wire' = "commit" /\ UNCHANGED <<row, replies>>
    <3>1. Sent' = Sent /\ Limit' = Limit /\ FileSize(Sent)' = FileSize(Sent)
      BY <2>1 DEF Sent, Limit, FileSize
    <3>2. Whole'
      BY <2>4, <2>5, <2>6, <3>1 DEF Whole
    <3>3. Streamed'
      BY <2>6 DEF Streamed
    <3>4. Replied' /\ Recorded'
      BY <1>1, <2>1, <2>6 DEF Replied, Recorded
    <3>5. Kept'
      BY <1>7, <2>6 DEF Kept, Streaming
    <3> QED
      BY <2>3, <3>2, <3>3, <3>4, <3>5 DEF BodyInv
  <2>7. CASE Abandon(400) /\ UNCHANGED object
    BY <1>1, <2>1, <2>3, <2>7, Abandoned DEF BodyInv
  <2>8. CASE object' = 0 /\ Reply(500) /\ UNCHANGED row
    <3>1. row' # "stored" /\ object' \in {-1, 0}
      BY <1>1, <2>1, <2>8 DEF Recorded
    <3> QED
      BY <1>1, <2>1, <2>3, <2>8, <3>1, Refused DEF BodyInv
  <2> QED
    BY <1>15, <2>6, <2>7, <2>8 DEF EndStream
<1>16. CASE CommitStored
  <2>1. /\ wire = "commit" /\ Commit("stored", "finalise")
        /\ UNCHANGED <<upload, meter, size, object, deleter>>
    BY <1>16 DEF CommitStored
  <2>2. wire' \in {"finalise", "done"} /\ row' \in {"stored", "gone"}
    BY <2>1 DEF Commit, Reply
  <2>3. Heard' /\ Metered'
    BY <1>1, <1>7, <2>1, <2>2, QuietMeter
  <2>4. Replied'
    <3>1. CASE row = "gone"
      <4>1. Reply(500) /\ row' = "gone"
        BY <2>1, <3>1 DEF Commit
      <4> QED
        BY <1>1, <2>1, <4>1, ReplyOnce
    <3>2. CASE row # "gone"
      <4>1. wire' = "finalise" /\ UNCHANGED replies
        BY <2>1, <3>2 DEF Commit
      <4> QED
        BY <1>1, <2>1, <4>1 DEF Replied
    <3> QED
      BY <3>1, <3>2
  <2>5. Streamed' /\ Recorded' /\ Kept'
    BY <1>1, <2>1, <2>2 DEF Streamed, Recorded, Kept, Streaming
  <2>6. Whole'
    BY <1>1, <2>1, StaysWhole
  <2> QED
    BY <2>3, <2>4, <2>5, <2>6 DEF BodyInv
<1>17. CASE Finalise
  <2>1. /\ wire = "finalise" /\ wire' \in {"unlink", "done"}
        /\ UNCHANGED <<upload, meter, size, object, row, deleter>>
    BY <1>17 DEF Finalise, Reply
  <2>2. row \in {"stored", "gone"} /\ row' = row
    BY <1>1, <2>1 DEF Recorded
  <2>3. Heard' /\ Metered'
    BY <1>1, <1>7, <2>1, QuietMeter
  <2>4. Replied'
    <3>1. CASE row # "gone" /\ Reply(201)
      BY <1>1, <2>1, <2>2, <3>1, ReplyOnce
    <3>2. CASE row = "gone" /\ Reply(500)
      BY <1>1, <2>1, <2>2, <3>2, ReplyOnce
    <3>3. CASE wire' = "unlink" /\ UNCHANGED replies
      BY <1>1, <2>1, <3>3 DEF Replied
    <3> QED
      BY <1>17, <3>1, <3>2, <3>3 DEF Finalise
  <2>5. Streamed' /\ Recorded' /\ Kept'
    BY <1>1, <2>1, <2>2 DEF Streamed, Recorded, Kept, Streaming
  <2>6. Whole'
    BY <1>1, <2>1, StaysWhole
  <2> QED
    BY <2>3, <2>4, <2>5, <2>6 DEF BodyInv
<1>18. CASE UnlinkDuplicate
  <2>1. /\ wire = "unlink" /\ wire' = "drop" /\ object' \in {-1, object}
        /\ UNCHANGED <<upload, meter, size, row, replies, deleter>>
    BY <1>18 DEF UnlinkDuplicate
  <2>2. Heard' /\ Metered'
    BY <1>1, <1>7, <2>1, QuietMeter
  <2>3. Replied' /\ Streamed' /\ Recorded' /\ Kept'
    BY <1>1, <2>1 DEF Replied, Streamed, Recorded, Kept, Streaming
  <2>4. Whole'
    BY <1>1, <2>1, StaysWhole
  <2> QED
    BY <2>2, <2>3, <2>4 DEF BodyInv
<1>19. CASE DropDuplicate
  <2>1. /\ wire = "drop" /\ wire' = "done" /\ row' = "gone" /\ Reply(409)
        /\ UNCHANGED <<upload, meter, size, object, deleter>>
    BY <1>19 DEF DropDuplicate, Reply
  <2>2. Heard' /\ Metered'
    BY <1>1, <1>7, <2>1, QuietMeter
  <2>3. Replied'
    BY <1>1, <2>1, ReplyOnce
  <2>4. Streamed' /\ Recorded' /\ Kept'
    BY <1>1, <2>1 DEF Streamed, Recorded, Kept, Streaming
  <2>5. Whole'
    BY <1>1, <2>1, StaysWhole
  <2> QED
    BY <2>2, <2>3, <2>4, <2>5 DEF BodyInv
<1> QED
  BY <1>8, <1>9, <1>10, <1>11, <1>12, <1>13, <1>14, <1>15, <1>16, <1>17, <1>18, <1>19

\* The steps of another request that deletes the dataset: it never runs before the row
\* is there.
LEMMA DeleteStep ==
    ASSUME BodyInv, BeginDelete \/ UnlinkObject \/ DropRow
    PROVE  BodyInv'
<1>1. Heard /\ Metered /\ Streamed /\ Replied /\ Recorded /\ Kept /\ Whole
  BY DEF BodyInv
<1>2. /\ wire \notin {"idle", "parse", "route"} /\ UNCHANGED <<wire, upload, meter, size, replies>>
      /\ object' \in {-1, object}
  BY <1>1 DEF BeginDelete, UnlinkObject, DropRow, Recorded
<1>3. Heard' /\ Metered'
  <2>1. size' \in Nat /\ wire # "idle" /\ wire' # "idle"
    BY <1>1, <1>2 DEF Metered
  <2> QED
    BY <1>1, <1>2, <2>1, QuietMeter
<1>4. Streamed'
  <2>1. Sent' = Sent /\ Limit' = Limit /\ received' = received
    BY <1>2 DEF Sent, Limit, meter
  <2> QED
    BY <1>1, <1>2, <2>1 DEF Streamed
<1>5. Whole'
  BY <1>1, <1>2, StaysWhole
<1>6. ASSUME BeginDelete PROVE Replied' /\ Recorded' /\ Kept'
  <2>1. /\ UNCHANGED <<wire, object, row, replies>> /\ row \notin {"none", "gone"}
        /\ deleter' = IF row = "stored" THEN "unlink" ELSE "drop"
    BY <1>6 DEF BeginDelete
  <2>2. row = "stored" => wire \in {"finalise", "unlink", "drop", "done"}
    BY <1>1, <1>2 DEF Recorded, Replied, Streaming
  <2>3. deleter = "none"
    BY <1>6 DEF BeginDelete
  <2>4. Recorded'
    BY <1>1, <2>1, <2>2 DEF Recorded
  <2>5. Replied'
    BY <1>1, <2>1 DEF Replied
  <2>6. Kept'
    BY <1>1, <2>1, <2>3 DEF Kept
  <2> QED
    BY <2>4, <2>5, <2>6
<1>7. ASSUME UnlinkObject PROVE Replied' /\ Recorded' /\ Kept'
  <2>1. /\ deleter = "unlink" /\ deleter' = "drop"
        /\ UNCHANGED <<wire, row, replies>> /\ object' \in {-1, object}
    BY <1>7 DEF UnlinkObject
  <2>2. wire \in {"finalise", "unlink", "drop", "done"}
    BY <1>1, <2>1 DEF Recorded
  <2>3. Recorded' /\ Replied'
    BY <1>1, <2>1, <2>2 DEF Recorded, Replied
  <2>4. Kept'
    BY <1>1, <2>1, <2>2 DEF Kept, Streaming
  <2> QED
    BY <2>3, <2>4
<1>8. ASSUME DropRow PROVE Replied' /\ Recorded' /\ Kept'
  <2>1. /\ deleter' = "done" /\ row' = "gone"
        /\ UNCHANGED <<wire, object, replies>>
    BY <1>8 DEF DropRow
  <2>2. Recorded'
    BY <1>1, <1>2, <2>1 DEF Recorded
  <2>3. Replied'
    BY <1>1, <2>1 DEF Replied
  <2>4. Kept'
    BY <1>1, <2>1 DEF Kept
  <2> QED
    BY <2>2, <2>3, <2>4
<1> QED
  BY <1>3, <1>4, <1>5, <1>6, <1>7, <1>8 DEF BodyInv

LEMMA BodyStep == ASSUME BodyInv, [BodyNext]_bodyVars PROVE BodyInv'
<1>1. Heard /\ Metered /\ Streamed /\ Replied /\ Recorded /\ Kept /\ Whole
  BY DEF BodyInv
<1>2. ASSUME NEW u \in Uploads, Submit(u) PROVE BodyInv'
  <2>1. /\ wire = "idle" /\ wire \in Streaming /\ upload' = {u}
        /\ UNCHANGED <<heard, received, handed, size, object, row, deleter>>
    BY <1>2 DEF Submit, meter, Streaming
  <2>2. heard = 0 /\ received = 0 /\ size = 0 /\ object = -1 /\ row = "none"
    BY <1>1, <2>1 DEF Heard, Streamed, Recorded, Kept
  <2>3. u.messages \in Seq(Nat) /\ u \in Upload /\ Sent' = u
    BY <2>1, UploadAssumption DEF UploadAssumption, Upload, Sent
  <2>4. Total(u.messages)[0] = 0 /\ 0 \in 0..Len(u.messages)
    BY <2>3, TotalIs
  <2>5. wire' # "idle"
    BY <1>2 DEF Submit, Reply
  <2>6. Heard'
    BY <2>1, <2>2, <2>4, <2>5 DEF Heard
  <2>7. Metered'
    BY <1>1, <2>1 DEF Metered
  <2>8. CASE \E n \in u.declared : n > MaxUpload
    <3>1. Reply(413)
      BY <1>2, <2>8 DEF Submit
    <3>2. row' # "stored" /\ object' \in {-1, 0}
      BY <2>1, <2>2
    <3>3. Streamed' /\ Replied' /\ Recorded' /\ Kept' /\ Whole'
      BY <1>1, <2>1, <3>1, <3>2, Refused
    <3> QED
      BY <2>6, <2>7, <3>3 DEF BodyInv
  <2>9. CASE ~(\E n \in u.declared : n > MaxUpload)
    <3>1. wire' = (IF u.route = "form" THEN "parse" ELSE "route") /\ UNCHANGED replies
      BY <1>2, <2>9 DEF Submit
    <3>2. u.route \in {"form", "raw"}
      BY <2>3 DEF Upload
    <3>3. Streamed'
      BY <2>1, <2>2, <2>3, <3>1, <3>2 DEF Streamed
    <3>4. Replied' /\ Recorded' /\ Kept' /\ Whole'
      BY <1>1, <2>1, <2>2, <3>1 DEF Replied, Recorded, Kept, Whole, Streaming
    <3> QED
      BY <2>6, <2>7, <3>3, <3>4 DEF BodyInv
  <2> QED
    BY <2>8, <2>9
<1>3. CASE UNCHANGED bodyVars
  <2>1. UNCHANGED <<wire, upload, heard, received, handed, size, object, row, replies, deleter>>
    BY <1>3 DEF bodyVars, meter
  <2>2. Sent' = Sent /\ Limit' = Limit
    BY <2>1 DEF Sent, Limit
  <2>3. Heard' /\ Metered' /\ Streamed'
    BY <1>1, <2>1, <2>2 DEF Heard, Metered, Streamed
  <2>4. Replied' /\ Recorded' /\ Kept'
    BY <1>1, <2>1 DEF Replied, Recorded, Kept
  <2>5. Whole'
    BY <1>1, <2>1, StaysWhole
  <2> QED
    BY <2>3, <2>4, <2>5 DEF BodyInv
<1>4. wire = "idle" /\ BodyNext =>
        (\E u \in Uploads : Submit(u)) \/ BeginDelete \/ UnlinkObject \/ DropRow
  BY DEF BodyNext, ParseForm, EndForm, Accept, BeginStream, StoreSpooled, StoreMessage,
         StoreFails, EndStream, CommitStored, Finalise, UnlinkDuplicate, DropDuplicate
<1> QED
  BY <1>2, <1>3, <1>4, RequestStep, DeleteStep DEF BodyNext

\* However a body is cut into messages, whatever it declares and whoever deletes the
\* dataset meanwhile, no more than the limit reaches the application, there is one
\* answer, what storage keeps is the whole file or nothing, and 201 is said exactly
\* where a row says STORED.
THEOREM StoredUploadIsWhole == BodySpec => []UploadIsWhole
<1>1. BodyInit => BodyInv
  BY BodyInit_Inv
<1>2. BodyInv /\ [BodyNext]_bodyVars => BodyInv'
  BY BodyStep
<1>3. ASSUME BodyInv PROVE UploadIsWhole
  <2>1. Metered /\ Replied /\ Kept /\ Whole
    BY <1>3 DEF BodyInv
  <2>2. CASE wire = "done"
    <3>1. PICK s \in Nat : /\ replies = <<s>>
                           /\ s = 201 => row \in {"stored", "gone"}
                           /\ row = "stored" => s = 201
      BY <2>1, <2>2 DEF Replied
    <3>2. Len(replies) = 1 /\ (replies = <<201>> <=> s = 201)
      BY <3>1
    <3> QED
      BY <2>1, <2>2, <3>1, <3>2 DEF UploadIsWhole, Metered, Kept, Whole
  <2>3. CASE wire # "done"
    <3>1. replies = <<>>
      BY <2>1, <2>3 DEF Replied
    <3>2. Len(replies) = 0 /\ replies # <<201>>
      BY <3>1
    <3> QED
      BY <2>1, <2>3, <3>2 DEF UploadIsWhole, Metered, Kept, Whole
  <2> QED
    BY <2>2, <2>3
<1> QED
  BY <1>1, <1>2, <1>3, PTL DEF BodySpec

-----------------------------------------------------------------------------
(***************************************************************************)
(* The rows of a transfer.                                                 *)
(***************************************************************************)

Upto(n) == [i \in 1..n |-> i]
Filled(cells, n) == {i \in 1..n : cells[i]}

\* full holds the filled ones among the first n, in order.
KeptInOrder(full, cells, n) ==
    /\ full \in Seq(Nat)
    /\ {full[i] : i \in 1..Len(full)} = Filled(cells, n)
    /\ \A i, j \in 1..Len(full) : i < j => full[i] < full[j]
    /\ Cardinality(Filled(cells, n)) = Len(full)

\* What is asked for is known once it is, and which route it takes.
Routed ==
    /\ phase \in {"idle", "connect", "fetch", "write", "keep", "sheet", "over"}
    /\ phase = "idle" => transfer = {}
    /\ phase # "idle" => \E t \in Transfers : transfer = {t}
    /\ phase \in {"connect", "fetch"} => Kind \in {"execute", "save"}
    /\ phase \in {"write", "keep"} => Kind = "save"
    /\ phase = "sheet" => Kind = "sheet"
    /\ phase \in {"idle", "connect", "sheet"} => session = "none"
    /\ phase \in {"idle", "connect"} =>
         read = 0 /\ batch = <<>> /\ written = <<>> /\ ~clipped

\* Rows of a query are in memory or in the file, the first ones and no others.
Taken ==
    /\ phase \in {"fetch", "write"} =>
         read \in Nat /\ read <= RowCap /\ read <= Available /\ ~clipped
    /\ phase = "fetch" /\ Kind = "execute" => batch = Upto(read)
    /\ phase = "fetch" /\ Kind = "save" => written = Upto(read)
    /\ phase = "write" => batch \in Seq(Nat) /\ written \in Seq(Nat)
                          /\ written \o batch = Upto(read)
    /\ phase = "keep" => written = Upto(Lesser(RowCap, Available))

\* Rows of a sheet are there in order, the blank ones left out, and fit.
Gathered ==
    phase = "sheet" =>
        /\ read \in Nat /\ read <= Available
        /\ batch \in Seq(Nat) /\ written \in Seq(Nat)
        /\ KeptInOrder(written \o batch, Transferred.cells, read)
        /\ Len(written) + Len(batch) <= RowCap

RowsInv == Routed /\ Taken /\ Gathered /\ CapsAreExact

LEMMA TransferIs ==
    ASSUME NEW t \in Transfers, transfer = {t}
    PROVE  /\ Transferred = t /\ t \in Transfer /\ Available = Len(t.cells)
           /\ t.cells \in Seq(BOOLEAN) /\ Available \in Nat
           /\ Kind \in {"execute", "save", "sheet"}
           /\ RowCap \in Nat \ {0}
           /\ FetchBatch \in Nat \ {0} /\ SheetBatch \in Nat \ {0}
<1>1. Transferred = t
  BY DEF Transferred
<1>2. t \in Transfer
  BY RowStreamsAssumption DEF RowStreamsAssumption
<1>3. /\ t.cells \in Seq(BOOLEAN) /\ t.limit \in Nat /\ t.kind \in {"execute", "save", "sheet"}
  BY <1>2 DEF Transfer
<1>4. Available = Len(t.cells) /\ Available \in Nat /\ Kind \in {"execute", "save", "sheet"}
  BY <1>1, <1>3 DEF Available, Kind
<1>5. /\ FetchBatch \in Nat \ {0} /\ SheetBatch \in Nat \ {0} /\ MaxRowLimit \in Nat \ {0}
      /\ DefaultRowLimit \in Nat \ {0} /\ MaxDatasetRows \in Nat \ {0}
      /\ MaxSheetRows \in Nat \ {0}
  BY RowStreamsAssumption DEF RowStreamsAssumption
<1>6. RowCap \in Nat \ {0}
  <2>1. CASE Kind = "execute"
    BY <1>1, <1>3, <1>5, <2>1 DEF RowCap, Lesser
  <2>2. CASE Kind = "save"
    BY <1>1, <1>3, <1>5, <2>2 DEF RowCap, Lesser
  <2>3. CASE Kind = "sheet"
    BY <1>5, <2>3 DEF RowCap
  <2> QED
    BY <1>4, <2>1, <2>2, <2>3
<1> QED
  BY <1>1, <1>2, <1>3, <1>4, <1>5, <1>6

\* The numbers up to n, and m more after them.
LEMMA UptoGrows ==
    ASSUME NEW n \in Nat, NEW m \in Nat
    PROVE  Upto(n) \o [i \in 1..m |-> n + i] = Upto(n + m)
<1> DEFINE more == [i \in 1..m |-> n + i]
<1>1. Upto(n) \in Seq(Nat) /\ Len(Upto(n)) = n /\ \A i \in 1..n : Upto(n)[i] = i
  BY DEF Upto
<1>2. more \in Seq(Nat) /\ Len(more) = m /\ \A i \in 1..m : more[i] = n + i
  OBVIOUS
<1>3. Upto(n + m) \in Seq(Nat) /\ Len(Upto(n + m)) = n + m
      /\ \A i \in 1..(n + m) : Upto(n + m)[i] = i
  BY DEF Upto
<1> HIDE DEF more
<1> DEFINE both == Upto(n) \o more
<1>4. both \in Seq(Nat) /\ Len(both) = n + m
  BY <1>1, <1>2
<1>5. \A i \in 1..(n + m) : both[i] = i
  <2> SUFFICES ASSUME NEW i \in 1..(n + m) PROVE both[i] = i
    OBVIOUS
  <2>1. CASE i <= n
    BY <1>1, <1>2, <2>1
  <2>2. CASE i > n
    <3>1. both[i] = more[i - n] /\ i - n \in 1..m
      BY <1>1, <1>2, <2>2
    <3> QED
      BY <1>2, <3>1
  <2> HIDE DEF both
  <2>3. i <= n \/ i > n
    OBVIOUS
  <2> QED
    BY <2>1, <2>2, <2>3
<1> HIDE DEF both
<1>6. both = Upto(n + m)
  BY <1>3, <1>4, <1>5
<1> QED
  BY <1>6 DEF both, more

\* The first c of them.
LEMMA UptoCut ==
    ASSUME NEW n \in Nat, NEW c \in Nat, c <= n PROVE SubSeq(Upto(n), 1, c) = Upto(c)
<1>1. Upto(n) \in Seq(Nat) /\ Len(Upto(n)) = n /\ \A i \in 1..n : Upto(n)[i] = i
  BY DEF Upto
<1>2. Upto(c) \in Seq(Nat) /\ Len(Upto(c)) = c /\ \A i \in 1..c : Upto(c)[i] = i
  BY DEF Upto
<1> DEFINE cut == SubSeq(Upto(n), 1, c)
<1>3. cut \in Seq(Nat) /\ Len(cut) = c /\ \A i \in 1..c : cut[i] = i
  BY <1>1
<1> HIDE DEF cut
<1>4. cut = Upto(c)
  BY <1>2, <1>3
<1> QED
  BY <1>4 DEF cut

\* What one fetch returns: the next rows, as many as the batch and the room allow.
LEMMA FetchedIs ==
    ASSUME NEW t \in Transfers, transfer = {t}, NEW have \in Nat, have <= Available,
           Room(have) \in Int, Room(have) > 0
    PROVE  \E n \in Nat :
              /\ Fetched(have) = [i \in 1..n |-> have + i] /\ Len(Fetched(have)) = n
              /\ n <= Room(have) /\ have + n <= Available
              /\ n = 0 => have = Available
              /\ Fetched(have) = <<>> <=> n = 0
<1>1. Available \in Nat /\ FetchBatch \in Nat \ {0}
  BY TransferIs
<1> DEFINE n == Lesser(Lesser(FetchBatch, Room(have)), Available - have)
<1>2. n \in Nat /\ n <= Room(have) /\ have + n <= Available /\ (n = 0 => have = Available)
  BY <1>1 DEF Lesser
<1>3. Fetched(have) = [i \in 1..n |-> have + i]
  BY DEF Fetched
<1> HIDE DEF n
<1>4. Len(Fetched(have)) = n
  BY <1>2, <1>3
<1>5. Fetched(have) = <<>> <=> n = 0
  BY <1>2, <1>3, <1>4
<1> QED
  BY <1>2, <1>3, <1>4, <1>5

\* Before the first row, and with one more: a blank one or one that is kept.
LEMMA NoneKept == ASSUME NEW cells PROVE KeptInOrder(<<>>, cells, 0)
<1>1. Filled(cells, 0) = {}
  BY DEF Filled
<1>2. Cardinality({}) = 0
  BY FS_EmptySet
<1>3. <<>> \in Seq(Nat) /\ Len(<<>>) = 0
  OBVIOUS
<1> QED
  BY <1>1, <1>2, <1>3 DEF KeptInOrder

LEMMA BlankKept ==
    ASSUME NEW full, NEW cells, NEW n \in Nat, KeptInOrder(full, cells, n), ~cells[n + 1]
    PROVE  KeptInOrder(full, cells, n + 1)
<1>1. Filled(cells, n + 1) = Filled(cells, n)
  BY DEF Filled
<1> QED
  BY <1>1 DEF KeptInOrder

LEMMA FilledFinite ==
    ASSUME NEW cells, NEW n \in Nat
    PROVE  IsFiniteSet(Filled(cells, n)) /\ Cardinality(Filled(cells, n)) \in Nat
<1>1. IsFiniteSet(1..n)
  BY FS_Interval
<1>2. Filled(cells, n) \in SUBSET (1..n)
  BY DEF Filled
<1> QED
  BY <1>1, <1>2, FS_Subset, FS_CardinalityType

LEMMA NextKept ==
    ASSUME NEW full, NEW cells, NEW n \in Nat, KeptInOrder(full, cells, n), cells[n + 1]
    PROVE  KeptInOrder(Append(full, n + 1), cells, n + 1)
<1> DEFINE more == Append(full, n + 1)
<1>1. full \in Seq(Nat) /\ {full[i] : i \in 1..Len(full)} = Filled(cells, n)
      /\ (\A i, j \in 1..Len(full) : i < j => full[i] < full[j])
      /\ Cardinality(Filled(cells, n)) = Len(full)
  BY DEF KeptInOrder
<1>2. Filled(cells, n + 1) = Filled(cells, n) \cup {n + 1} /\ n + 1 \notin Filled(cells, n)
      /\ \A k \in Filled(cells, n) : k \in Nat /\ k < n + 1
  BY DEF Filled
<1>3. /\ more \in Seq(Nat) /\ Len(more) = Len(full) + 1 /\ Len(full) \in Nat
      /\ more[Len(full) + 1] = n + 1 /\ \A i \in 1..Len(full) : more[i] = full[i]
  BY <1>1
<1> HIDE DEF more
<1>4. Cardinality(Filled(cells, n + 1)) = Len(more)
  BY <1>1, <1>2, <1>3, FilledFinite, FS_AddElement
<1>5. \A i \in 1..Len(full) : full[i] \in Filled(cells, n)
  BY <1>1
<1>6. ASSUME NEW i \in 1..Len(more), NEW j \in 1..Len(more), i < j PROVE more[i] < more[j]
  <2>1. i \in 1..Len(full) /\ more[i] = full[i]
    BY <1>3, <1>6
  <2>2. CASE j = Len(full) + 1
    BY <1>2, <1>3, <1>5, <2>1, <2>2
  <2>3. CASE j # Len(full) + 1
    <3>1. j \in 1..Len(full) /\ more[j] = full[j]
      BY <1>3, <2>3
    <3> QED
      BY <1>1, <1>6, <2>1, <3>1
  <2> QED
    BY <2>2, <2>3
<1>7. {more[i] : i \in 1..Len(more)} = Filled(cells, n + 1)
  <2>1. ASSUME NEW i \in 1..Len(more) PROVE more[i] \in Filled(cells, n + 1)
    <3>1. i \in 1..Len(full) \/ i = Len(full) + 1
      BY <1>3
    <3> QED
      BY <1>2, <1>3, <1>5, <3>1
  <2>2. ASSUME NEW k \in Filled(cells, n + 1) PROVE \E i \in 1..Len(more) : more[i] = k
    <3>1. CASE k = n + 1
      BY <1>3, <3>1
    <3>2. CASE k # n + 1
      <4>1. PICK i \in 1..Len(full) : full[i] = k
        BY <1>1, <1>2, <3>2
      <4> QED
        BY <1>3, <4>1
    <3> QED
      BY <3>1, <3>2
  <2> QED
    BY <2>1, <2>2
<1>8. KeptInOrder(more, cells, n + 1)
  BY <1>3, <1>4, <1>6, <1>7 DEF KeptInOrder
<1> QED
  BY <1>8 DEF more

\* What depends on the request alone.
LEMMA RequestFrame ==
    ASSUME UNCHANGED transfer
    PROVE  /\ Transferred' = Transferred /\ Kind' = Kind /\ Available' = Available
           /\ RowCap' = RowCap
  BY DEF Transferred, Kind, Available, RowCap

\* Once it is over, a transfer that did not end well only has to close its session.
LEMMA EndedBadly ==
    ASSUME phase' = "over", verdict' \notin {"rows", "stored", "too large"},
           Kind' # "sheet", session' # "open",
           \E t \in Transfers : transfer' = {t}
    PROVE  RowsInv'
<1>1. Routed' /\ Taken' /\ Gathered'
  BY DEF Routed, Taken, Gathered
<1>2. CapsAreExact'
  BY DEF CapsAreExact
<1> QED
  BY <1>1, <1>2 DEF RowsInv

LEMMA AskStep ==
    ASSUME RowsInv, NEW t \in Transfers, AskRows(t) PROVE RowsInv'
<1>1. /\ phase = "idle" /\ transfer' = {t}
      /\ UNCHANGED <<read, batch, written, schema, clipped, session>>
  BY DEF AskRows
<1>2. read = 0 /\ batch = <<>> /\ written = <<>> /\ session = "none" /\ ~clipped
  BY <1>1 DEF RowsInv, Routed
<1>3. Transferred' = t /\ Kind' = t.kind /\ t.cells \in Seq(BOOLEAN)
      /\ t.kind \in {"execute", "save", "sheet"} /\ t \in Transfer
  BY <1>1, RowStreamsAssumption DEF RowStreamsAssumption, Transferred, Kind, Transfer
<1>4. CASE t.kind # "sheet" /\ ~t.allowed
  <2>1. phase' = "over" /\ verdict' = "refused"
    BY <1>4 DEF AskRows, EndTransfer
  <2> QED
    BY <1>1, <1>2, <1>3, <1>4, <2>1, EndedBadly
<1>5. CASE ~(t.kind # "sheet" /\ ~t.allowed)
  <2>1. phase' = IF t.kind = "sheet" THEN "sheet" ELSE "connect"
    BY <1>5 DEF AskRows
  <2>2. Routed'
    BY <1>1, <1>2, <1>3, <2>1 DEF Routed
  <2>3. Taken' /\ CapsAreExact'
    BY <2>1 DEF Taken, CapsAreExact
  <2>4. Gathered'
    <3>1. written' \o batch' = <<>> /\ read' = 0 /\ batch' = <<>> /\ written' = <<>>
      BY <1>1, <1>2
    <3>2. KeptInOrder(<<>>, Transferred'.cells, 0)
      BY NoneKept
    <3>3. Available' \in Nat /\ (phase' = "sheet" => RowCap' \in Nat)
      BY <1>3, <2>1, RowStreamsAssumption DEF RowStreamsAssumption, Available, RowCap
    <3> QED
      BY <3>1, <3>2, <3>3 DEF Gathered
  <2> QED
    BY <2>2, <2>3, <2>4 DEF RowsInv
<1> QED
  BY <1>4, <1>5

LEMMA ConnectStep == ASSUME RowsInv, Connect PROVE RowsInv'
<1>1. /\ phase = "connect" /\ UNCHANGED <<transfer, read, batch, written, schema, clipped>>
      /\ Kind \in {"execute", "save"} /\ session = "none" /\ ~clipped
      /\ read = 0 /\ batch = <<>> /\ written = <<>>
  BY DEF Connect, RowsInv, Routed
<1>2. PICK t \in Transfers : transfer = {t}
  BY <1>1 DEF RowsInv, Routed
<1>3. /\ transfer' = {t} /\ Kind' = Kind /\ Available' = Available /\ RowCap' = RowCap
      /\ RowCap \in Nat /\ Available \in Nat
  BY <1>1, <1>2, RequestFrame, TransferIs
<1>4. CASE session' = "open" /\ phase' = "fetch"
  <2>1. Upto(0) = <<>>
    BY DEF Upto
  <2>2. Routed' /\ Taken' /\ Gathered' /\ CapsAreExact'
    BY <1>1, <1>2, <1>3, <1>4, <2>1 DEF Routed, Taken, Gathered, CapsAreExact
  <2> QED
    BY <2>2 DEF RowsInv
<1>5. CASE EndTransfer(IF Kind = "save" THEN "failed" ELSE "upstream error") /\ UNCHANGED session
  BY <1>1, <1>2, <1>3, <1>5, EndedBadly DEF EndTransfer
<1> QED
  BY <1>4, <1>5 DEF Connect

LEMMA FetchAllStep == ASSUME RowsInv, FetchAll PROVE RowsInv'
<1>1. /\ phase = "fetch" /\ Kind = "execute" /\ UNCHANGED <<transfer, written, schema>>
  BY DEF FetchAll
<1>2. PICK t \in Transfers : transfer = {t}
  BY <1>1 DEF RowsInv, Routed
<1>3. /\ transfer' = {t} /\ Kind' = Kind /\ Available' = Available /\ RowCap' = RowCap
      /\ RowCap \in Nat /\ Available \in Nat
  BY <1>1, <1>2, RequestFrame, TransferIs
<1>4. read \in Nat /\ read <= RowCap /\ read <= Available /\ ~clipped /\ batch = Upto(read)
  BY <1>1 DEF RowsInv, Taken
<1>5. Room(read) = RowCap + 1 - read
  BY <1>1 DEF Room
<1> DEFINE new == Fetched(read)
<1>6. PICK n \in Nat :
         /\ new = [i \in 1..n |-> read + i] /\ Len(new) = n
         /\ n <= RowCap + 1 - read /\ read + n <= Available
         /\ n = 0 => read = Available
         /\ new = <<>> <=> n = 0
  <2>1. Room(read) \in Int /\ Room(read) > 0
    BY <1>3, <1>4, <1>5
  <2> QED
    BY <1>2, <1>4, <1>5, <2>1, FetchedIs
<1>7. /\ read' = read + Len(new)
      /\ clipped' = (read' > RowCap)
      /\ batch' = IF clipped' THEN SubSeq(batch \o new, 1, RowCap) ELSE batch \o new
      /\ IF new = <<>> \/ clipped'
         THEN EndTransfer("rows") /\ session' = "closed"
         ELSE UNCHANGED <<phase, verdict, session>>
  BY DEF FetchAll
<1> HIDE DEF new
<1>8. /\ read' = read + n /\ batch \o new = Upto(read + n)
      /\ clipped' <=> read + n > RowCap
  <2>1. read' = read + n /\ batch \o new = Upto(read + n)
    BY <1>4, <1>6, <1>7, UptoGrows
  <2>2. clipped' <=> read + n > RowCap
    BY <1>7, <2>1
  <2> QED
    BY <2>1, <2>2
<1>9. CASE new = <<>> \/ clipped'
  <2>1. phase' = "over" /\ verdict' = "rows" /\ session' = "closed"
    BY <1>7, <1>9 DEF EndTransfer
  <2>2. batch' = Upto(Lesser(RowCap, Available)) /\ (clipped' <=> Available > RowCap)
    <3>1. CASE clipped'
      <4>1. read + n = RowCap + 1 /\ Available > RowCap
        BY <1>3, <1>4, <1>6, <1>7, <1>8, <3>1
      <4>2. batch' = SubSeq(Upto(read + n), 1, RowCap) /\ RowCap <= read + n
        BY <1>3, <1>7, <1>8, <3>1, <4>1
      <4>3. batch' = Upto(RowCap)
        BY <1>3, <1>4, <1>6, <4>2, UptoCut
      <4>4. Lesser(RowCap, Available) = RowCap
        BY <1>3, <4>1 DEF Lesser
      <4> QED
        BY <3>1, <4>1, <4>3, <4>4
    <3>2. CASE ~clipped'
      <4>1. n = 0 /\ read = Available /\ Available <= RowCap
        BY <1>3, <1>4, <1>6, <1>9, <3>2
      <4>2. batch' = Upto(Available)
        BY <1>3, <1>4, <1>7, <1>8, <3>2, <4>1
      <4>3. Lesser(RowCap, Available) = Available
        BY <1>3, <4>1 DEF Lesser
      <4> QED
        BY <1>3, <3>2, <4>1, <4>2, <4>3
    <3> QED
      BY <3>1, <3>2
  <2>3. Routed' /\ Taken' /\ Gathered'
    BY <1>2, <1>3, <2>1 DEF Routed, Taken, Gathered
  <2>4. CapsAreExact'
    BY <1>1, <1>3, <2>1, <2>2 DEF CapsAreExact, Upto
  <2> QED
    BY <2>3, <2>4 DEF RowsInv
<1>10. CASE ~(new = <<>> \/ clipped')
  <2>1. UNCHANGED <<phase, verdict, session>> /\ ~clipped' /\ batch' = Upto(read')
    BY <1>7, <1>8, <1>10
  <2>2. read' \in Nat /\ read' <= RowCap /\ read' <= Available
    BY <1>3, <1>4, <1>6, <1>7, <1>8, <2>1
  <2>3. Routed' /\ Taken' /\ Gathered' /\ CapsAreExact'
    BY <1>1, <1>2, <1>3, <2>1, <2>2 DEF Routed, Taken, Gathered, CapsAreExact
  <2> QED
    BY <2>3 DEF RowsInv
<1> QED
  BY <1>9, <1>10

LEMMA FetchNextStep == ASSUME RowsInv, FetchNext PROVE RowsInv'
<1>1. /\ phase = "fetch" /\ Kind = "save"
      /\ UNCHANGED <<transfer, written, schema, clipped, verdict>>
  BY DEF FetchNext
<1>2. PICK t \in Transfers : transfer = {t}
  BY <1>1 DEF RowsInv, Routed
<1>3. /\ transfer' = {t} /\ Kind' = Kind /\ Available' = Available /\ RowCap' = RowCap
      /\ RowCap \in Nat /\ Available \in Nat
  BY <1>1, <1>2, RequestFrame, TransferIs
<1>4. read \in Nat /\ read <= RowCap /\ read <= Available /\ ~clipped /\ written = Upto(read)
  BY <1>1 DEF RowsInv, Taken
<1>5. Room(read) = RowCap - read
  BY <1>1 DEF Room
<1> DEFINE new == IF read < RowCap THEN Fetched(read) ELSE <<>>
<1>6. \E n \in Nat :
         /\ new = [i \in 1..n |-> read + i] /\ Len(new) = n
         /\ n <= RowCap - read /\ read + n <= Available
         /\ n = 0 => (read = Available \/ read = RowCap)
         /\ new = <<>> <=> n = 0
  <2>1. CASE read < RowCap
    <3>1. Room(read) \in Int /\ Room(read) > 0
      BY <1>3, <1>4, <1>5, <2>1
    <3> QED
      BY <1>2, <1>4, <1>5, <2>1, <3>1, FetchedIs
  <2>2. CASE read >= RowCap
    <3>1. new = <<>> /\ read = RowCap
      BY <1>3, <1>4, <2>2
    <3>2. [i \in 1..0 |-> read + i] = <<>> /\ Len(<<>>) = 0
      OBVIOUS
    <3> HIDE DEF new
    <3> QED
      BY <1>3, <1>4, <3>1, <3>2
  <2>3. read < RowCap \/ read >= RowCap
    BY <1>3, <1>4
  <2> HIDE DEF new
  <2> QED
    BY <2>1, <2>2, <2>3
<1>7. PICK n \in Nat :
         /\ new = [i \in 1..n |-> read + i] /\ Len(new) = n
         /\ n <= RowCap - read /\ read + n <= Available
         /\ n = 0 => (read = Available \/ read = RowCap)
         /\ new = <<>> <=> n = 0
  BY <1>6
<1>8. /\ batch' = new
      /\ read' = read + Len(new)
      /\ phase' = IF new = <<>> THEN "keep" ELSE "write"
  BY DEF FetchNext
<1> HIDE DEF new
<1>9. read' = read + n /\ written' \o batch' = Upto(read') /\ written' = Upto(read)
  BY <1>1, <1>4, <1>7, <1>8, UptoGrows
<1>10. CapsAreExact' /\ Gathered'
  BY <1>8 DEF CapsAreExact, Gathered
<1>11. Routed'
  BY <1>1, <1>2, <1>3, <1>8 DEF Routed
<1>12. Taken'
  <2>1. CASE new = <<>>
    <3>1. Lesser(RowCap, Available) = read
      BY <1>3, <1>4, <1>7, <2>1 DEF Lesser
    <3> QED
      BY <1>3, <1>8, <1>9, <2>1, <3>1 DEF Taken
  <2>2. CASE new # <<>>
    <3>1. read' \in Nat /\ read' <= RowCap /\ read' <= Available
      BY <1>3, <1>4, <1>7, <1>9
    <3>2. batch' \in Seq(Nat) /\ written' \in Seq(Nat)
      BY <1>4, <1>7, <1>8, <1>9 DEF Upto
    <3> QED
      BY <1>1, <1>3, <1>4, <1>8, <1>9, <2>2, <3>1, <3>2 DEF Taken
  <2> QED
    BY <2>1, <2>2
<1> QED
  BY <1>10, <1>11, <1>12 DEF RowsInv

LEMMA WriteBatchStep == ASSUME RowsInv, WriteBatch PROVE RowsInv'
<1>1. phase = "write" /\ UNCHANGED <<transfer, read, clipped>> /\ batch' = <<>>
  BY DEF WriteBatch
<1>2. PICK t \in Transfers : transfer = {t}
  BY <1>1 DEF RowsInv, Routed
<1>3. /\ transfer' = {t} /\ Kind' = Kind /\ Available' = Available /\ RowCap' = RowCap
      /\ RowCap \in Nat /\ Available \in Nat
  BY <1>1, <1>2, RequestFrame, TransferIs
<1>4. /\ read \in Nat /\ read <= RowCap /\ read <= Available /\ ~clipped /\ Kind = "save"
      /\ batch \in Seq(Nat) /\ written \in Seq(Nat) /\ written \o batch = Upto(read)
  BY <1>1 DEF RowsInv, Routed, Taken
<1>5. CASE schema \subseteq {TypeOf(batch)}
  <2>1. /\ written' = written \o batch
        /\ phase' = IF Len(written') >= RowCap THEN "keep" ELSE "fetch"
        /\ UNCHANGED <<verdict, session>>
    BY <1>5 DEF WriteBatch
  <2>2. written' = Upto(read) /\ Len(Upto(read)) = read
    BY <1>4, <2>1 DEF Upto
  <2>3. phase' = IF read >= RowCap THEN "keep" ELSE "fetch"
    BY <2>1, <2>2
  <2>4. Routed' /\ Gathered' /\ CapsAreExact'
    BY <1>2, <1>3, <1>4, <2>3 DEF Routed, Gathered, CapsAreExact
  <2>5. read >= RowCap => Lesser(RowCap, Available) = read
    BY <1>3, <1>4 DEF Lesser
  <2>6. Taken'
    BY <1>1, <1>3, <1>4, <2>2, <2>3, <2>5 DEF Taken
  <2> QED
    BY <2>4, <2>6 DEF RowsInv
<1>6. CASE ~(schema \subseteq {TypeOf(batch)})
  <2>1. phase' = "over" /\ verdict' = "failed" /\ session' = "closed"
    BY <1>6 DEF WriteBatch, EndTransfer
  <2> QED
    BY <1>2, <1>3, <1>4, <2>1, EndedBadly
<1> QED
  BY <1>5, <1>6

LEMMA KeepFileStep == ASSUME RowsInv, KeepFile PROVE RowsInv'
<1>1. /\ phase = "keep" /\ session' = "closed" /\ phase' = "over"
      /\ UNCHANGED <<transfer, read, batch, written, schema, clipped>>
      /\ verdict' \in {"stored", "failed"}
  BY DEF KeepFile, EndTransfer
<1>2. PICK t \in Transfers : transfer = {t}
  BY <1>1 DEF RowsInv, Routed
<1>3. transfer' = {t} /\ Kind' = Kind /\ Available' = Available /\ RowCap' = RowCap
  BY <1>1, <1>2, RequestFrame
<1>4. Kind = "save" /\ written' = Upto(Lesser(RowCap, Available))
  BY <1>1 DEF RowsInv, Routed, Taken
<1>5. Routed' /\ Taken' /\ Gathered'
  BY <1>1, <1>2, <1>3 DEF Routed, Taken, Gathered
<1>6. CapsAreExact'
  BY <1>1, <1>3, <1>4 DEF CapsAreExact, Upto
<1> QED
  BY <1>5, <1>6 DEF RowsInv

LEMMA FetchFailsStep == ASSUME RowsInv, FetchFails PROVE RowsInv'
<1>1. /\ phase = "fetch" /\ session' = "closed" /\ phase' = "over" /\ UNCHANGED transfer
      /\ verdict' \in {"failed", "upstream error", "internal error"}
  BY DEF FetchFails, EndTransfer
<1>2. Kind # "sheet" /\ \E t \in Transfers : transfer = {t}
  BY <1>1 DEF RowsInv, Routed
<1>3. Kind' = Kind
  BY <1>1, RequestFrame
<1> QED
  BY <1>1, <1>2, <1>3, EndedBadly

\* A row that holds something goes behind those in memory, or into the file with them.
LEMMA BufferedIs ==
    ASSUME batch \in Seq(Nat), written \in Seq(Nat), NEW k \in Nat,
           Buffered(Append(batch, k))
    PROVE  /\ batch' \in Seq(Nat) /\ written' \in Seq(Nat)
           /\ written' \o batch' = Append(written \o batch, k)
           /\ Len(written') + Len(batch') = Len(written) + Len(batch) + 1
<1> DEFINE full == Append(batch, k)
<1>1. /\ full \in Seq(Nat) /\ Len(full) = Len(batch) + 1
      /\ written \o full \in Seq(Nat) /\ Len(written \o full) = Len(written) + Len(full)
      /\ (written \o full) \o <<>> = written \o full
  OBVIOUS
<1>2. written \o full = Append(written \o batch, k)
  OBVIOUS
<1>3. \/ written' = written \o full /\ batch' = <<>>
      \/ batch' = full /\ written' = written
  BY DEF Buffered
<1> HIDE DEF full
<1>4. CASE written' = written \o full /\ batch' = <<>>
  <2>1. written' \in Seq(Nat) /\ Len(written') = Len(written) + Len(full)
    BY <1>1, <1>4, Zenon
  <2>2. batch' \in Seq(Nat) /\ Len(batch') = 0
    BY <1>4
  <2>3. written' \o batch' = written \o full
    BY <1>1, <1>4
  <2> QED
    BY <1>1, <1>2, <1>4, <2>1, <2>2, <2>3
<1>5. CASE batch' = full /\ written' = written
  BY SMTT(40), <1>1, <1>2, <1>5
<1> QED
  BY <1>3, <1>4, <1>5

LEMMA ReadSheetRowStep == ASSUME RowsInv, ReadSheetRow PROVE RowsInv'
<1>1. /\ phase = "sheet" /\ read < Available /\ read' = read + 1
      /\ UNCHANGED <<transfer, schema, clipped, session>>
  BY DEF ReadSheetRow
<1>2. PICK t \in Transfers : transfer = {t}
  BY <1>1 DEF RowsInv, Routed
<1>3. /\ transfer' = {t} /\ Kind' = Kind /\ Available' = Available /\ RowCap' = RowCap
      /\ Transferred' = Transferred /\ RowCap \in Nat /\ Available \in Nat
      /\ Available = Len(Transferred.cells)
  BY <1>1, <1>2, RequestFrame, TransferIs
<1>4. /\ read \in Nat /\ read <= Available /\ Kind = "sheet" /\ session = "none"
      /\ batch \in Seq(Nat) /\ written \in Seq(Nat)
      /\ KeptInOrder(written \o batch, Transferred.cells, read)
      /\ Len(written) + Len(batch) <= RowCap
  BY <1>1 DEF RowsInv, Routed, Gathered
<1>5. read' \in Nat /\ read' <= Available'
  BY <1>1, <1>3, <1>4
<1>6. CASE ~Transferred.cells[read + 1]
  <2>1. UNCHANGED <<phase, batch, written, verdict>>
    BY <1>6 DEF ReadSheetRow
  <2>2. KeptInOrder(written \o batch, Transferred.cells, read + 1)
    BY <1>4, <1>6, BlankKept
  <2>3. Gathered'
    BY <1>1, <1>3, <1>4, <1>5, <2>1, <2>2 DEF Gathered
  <2>4. Routed' /\ Taken' /\ CapsAreExact'
    BY <1>1, <1>2, <1>3, <1>4, <2>1 DEF Routed, Taken, CapsAreExact
  <2> QED
    BY <2>3, <2>4 DEF RowsInv
<1>7. CASE Transferred.cells[read + 1] /\ Len(written) + Len(batch) + 1 > RowCap
  <2>1. phase' = "over" /\ verdict' = "too large" /\ session' = "none"
    BY <1>1, <1>4, <1>7 DEF ReadSheetRow, EndTransfer
  <2> DEFINE full == written \o batch
  <2>2. Len(full) = Len(written) + Len(batch)
    BY <1>4
  <2>3. KeptInOrder(full, Transferred.cells, read)
    BY <1>4
  <2> HIDE DEF full
  <2>4. KeptInOrder(Append(full, read + 1), Transferred.cells, read + 1)
    BY <1>4, <1>7, <2>3, NextKept
  <2>5. Cardinality(Filled(Transferred.cells, read + 1)) = Len(full) + 1
    BY <2>3, <2>4 DEF KeptInOrder
  <2>6. Filled(Transferred.cells, read + 1) \subseteq Filled(Transferred.cells, Available)
    BY <1>1, <1>3, <1>4 DEF Filled
  <2>7. /\ IsFiniteSet(Filled(Transferred.cells, Available))
        /\ Cardinality(Filled(Transferred.cells, Available)) \in Nat
        /\ Cardinality(Filled(Transferred.cells, read + 1)) \in Nat
    BY <1>1, <1>3, <1>4, FilledFinite
  <2>8. Cardinality(Filled(Transferred.cells, read + 1))
          <= Cardinality(Filled(Transferred.cells, Available))
    BY <2>6, <2>7, FS_Subset
  <2>9. Cardinality(Filled(Transferred.cells, Available)) > RowCap
    BY <1>3, <1>4, <1>7, <2>2, <2>5, <2>7, <2>8
  <2>10. CapsAreExact'
    BY <1>3, <1>4, <2>1, <2>9 DEF CapsAreExact, Filled
  <2>11. Routed' /\ Taken' /\ Gathered'
    BY <1>2, <1>3, <2>1 DEF Routed, Taken, Gathered
  <2> QED
    BY <2>10, <2>11 DEF RowsInv
<1>8. CASE Transferred.cells[read + 1] /\ ~(Len(written) + Len(batch) + 1 > RowCap)
  <2>1. Buffered(Append(batch, read + 1)) /\ UNCHANGED <<phase, verdict>>
    BY <1>8 DEF ReadSheetRow
  <2>2. /\ batch' \in Seq(Nat) /\ written' \in Seq(Nat)
        /\ written' \o batch' = Append(written \o batch, read + 1)
        /\ Len(written') + Len(batch') = Len(written) + Len(batch) + 1
    <3>1. read + 1 \in Nat
      BY <1>4
    <3> QED
      BY <1>4, <2>1, <3>1, BufferedIs
  <2>3. KeptInOrder(Append(written \o batch, read + 1), Transferred.cells, read + 1)
    BY <1>4, <1>8, NextKept
  <2>4. Len(written') + Len(batch') <= RowCap
    BY <1>3, <1>4, <1>8, <2>2
  <2>5. Gathered'
    BY <1>1, <1>3, <1>5, <2>2, <2>3, <2>4 DEF Gathered
  <2>6. Routed' /\ Taken' /\ CapsAreExact'
    BY <1>1, <1>2, <1>3, <1>4, <2>1 DEF Routed, Taken, CapsAreExact
  <2> QED
    BY <2>5, <2>6 DEF RowsInv
<1> QED
  BY <1>6, <1>7, <1>8

LEMMA EndSheetStep == ASSUME RowsInv, EndSheet PROVE RowsInv'
<1>1. /\ phase = "sheet" /\ read = Available /\ phase' = "over" /\ verdict' = "stored"
      /\ written' = written \o batch /\ UNCHANGED <<transfer, schema, clipped, session>>
  BY DEF EndSheet, EndTransfer
<1>2. PICK t \in Transfers : transfer = {t}
  BY <1>1 DEF RowsInv, Routed
<1>3. /\ transfer' = {t} /\ Kind' = Kind /\ Available' = Available /\ RowCap' = RowCap
      /\ Transferred' = Transferred /\ RowCap \in Nat /\ Available \in Nat
  BY <1>1, <1>2, RequestFrame, TransferIs
<1>4. /\ Kind = "sheet" /\ session = "none"
      /\ batch \in Seq(Nat) /\ written \in Seq(Nat)
      /\ KeptInOrder(written', Transferred.cells, Available)
      /\ Len(written) + Len(batch) <= RowCap
  BY <1>1 DEF RowsInv, Routed, Gathered
<1>5. Len(written') = Len(written) + Len(batch)
  BY <1>1, <1>4
<1>6. /\ Cardinality(Filled(Transferred.cells, Available)) = Len(written')
      /\ {written'[i] : i \in 1..Len(written')} = Filled(Transferred.cells, Available)
      /\ \A i, j \in 1..Len(written') : i < j => written'[i] < written'[j]
  BY <1>4 DEF KeptInOrder
<1>7. ~(Cardinality(Filled(Transferred.cells, Available)) > RowCap)
  BY <1>3, <1>4, <1>5, <1>6
<1>8. CapsAreExact'
  BY <1>1, <1>3, <1>4, <1>6, <1>7 DEF CapsAreExact, Filled
<1>9. Routed' /\ Taken' /\ Gathered'
  BY <1>1, <1>2, <1>3 DEF Routed, Taken, Gathered
<1> QED
  BY <1>8, <1>9 DEF RowsInv

LEMMA RowsStep == ASSUME RowsInv, [RowsNext]_rowVars PROVE RowsInv'
<1>1. CASE \E t \in Transfers : AskRows(t)
  BY <1>1, AskStep
<1>2. CASE Connect
  BY <1>2, ConnectStep
<1>3. CASE FetchAll
  BY <1>3, FetchAllStep
<1>4. CASE FetchNext
  BY <1>4, FetchNextStep
<1>5. CASE WriteBatch
  BY <1>5, WriteBatchStep
<1>6. CASE KeepFile
  BY <1>6, KeepFileStep
<1>7. CASE FetchFails
  BY <1>7, FetchFailsStep
<1>8. CASE ReadSheetRow
  BY <1>8, ReadSheetRowStep
<1>9. CASE EndSheet
  BY <1>9, EndSheetStep
<1>10. CASE UNCHANGED rowVars
  <2>1. UNCHANGED <<phase, transfer, read, batch, written, clipped, session, verdict>>
    BY <1>10 DEF rowVars
  <2>2. Transferred' = Transferred /\ Kind' = Kind /\ Available' = Available /\ RowCap' = RowCap
    BY <2>1, RequestFrame
  <2>3. Routed'
    BY <2>1, <2>2 DEF RowsInv, Routed
  <2>4. Taken'
    BY <2>1, <2>2 DEF RowsInv, Taken
  <2>5. Gathered'
    BY <2>1, <2>2 DEF RowsInv, Gathered
  <2>6. CapsAreExact'
    <3>1. CASE phase # "over"
      BY <2>1, <3>1 DEF CapsAreExact
    <3>2. CASE phase = "over" /\ Kind = "sheet"
      <4>1. /\ verdict = "rows" => batch = Upto(Lesser(RowCap, Available))
                                   /\ (clipped <=> Available > RowCap)
            /\ verdict = "stored" =>
                 /\ {written[i] : i \in 1..Len(written)} = Filled(Transferred.cells, Available)
                 /\ \A i, j \in 1..Len(written) : i < j => written[i] < written[j]
            /\ verdict = "too large" <=> Cardinality(Filled(Transferred.cells, Available)) > RowCap
            /\ session # "open"
        BY <3>2 DEF RowsInv, CapsAreExact, Filled, Upto
      <4>2. /\ verdict' = "rows" => batch' = Upto(Lesser(RowCap', Available'))
                                   /\ (clipped' <=> Available' > RowCap')
            /\ session' # "open"
        BY <2>1, <2>2, <4>1
      <4>3. verdict' = "stored" =>
                 /\ {written'[i] : i \in 1..Len(written')} = Filled(Transferred.cells, Available)
                 /\ \A i, j \in 1..Len(written') : i < j => written'[i] < written'[j]
        BY <2>1, <4>1
      <4>4. verdict' = "too large" <=>
                 Cardinality(Filled(Transferred.cells, Available)) > RowCap
        BY <2>1, <4>1
      <4> QED
        BY <2>1, <2>2, <3>2, <4>2, <4>3, <4>4 DEF CapsAreExact, Filled, Upto
    <3>3. CASE phase = "over" /\ Kind # "sheet"
      <4>1. /\ verdict = "rows" => batch = Upto(Lesser(RowCap, Available))
                                   /\ (clipped <=> Available > RowCap)
            /\ verdict = "stored" => written = Upto(Lesser(RowCap, Available))
            /\ session # "open"
        BY <3>3 DEF RowsInv, CapsAreExact, Upto
      <4> QED
        BY <2>1, <2>2, <3>3, <4>1 DEF CapsAreExact, Upto
    <3> QED
      BY <3>1, <3>2, <3>3
  <2> QED
    BY <2>3, <2>4, <2>5, <2>6 DEF RowsInv
<1> QED
  BY <1>1, <1>2, <1>3, <1>4, <1>5, <1>6, <1>7, <1>8, <1>9, <1>10 DEF RowsNext

LEMMA RowsStart == RowsInit => RowsInv
<1>1. SUFFICES ASSUME RowsInit PROVE RowsInv
  OBVIOUS
<1>2. phase = "idle" /\ transfer = {} /\ read = 0 /\ batch = <<>> /\ written = <<>>
      /\ clipped = FALSE /\ session = "none"
  BY <1>1 DEF RowsInit
<1>3. Routed /\ Taken /\ Gathered /\ CapsAreExact
  BY <1>2 DEF Routed, Taken, Gathered, CapsAreExact
<1> QED
  BY <1>3 DEF RowsInv

\* However the rows are cut into batches, whatever the caps and wherever the driver gives
\* up: a result of the editor and a saved query hold the first rows, each once and in
\* order, as many as the cap lets in; a result says it was cut exactly if there is more; a
\* sheet keeps the rows that hold something, or is refused because they are too many; and
\* none leaves its session open.
THEOREM TransfersAreExact == RowsSpec => []CapsAreExact
<1>1. RowsInv => CapsAreExact
  BY DEF RowsInv
<1> QED
  BY <1>1, RowsStart, RowsStep, PTL DEF RowsSpec
=============================================================================
