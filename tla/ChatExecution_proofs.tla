------------------------- MODULE ChatExecution_proofs -------------------------
(***************************************************************************)
(* A chat command for any lists of modes, files and amounts of output:     *)
(* what the server is told of the command agrees with what the web client  *)
(* was told, an answer is given once, its text before its last chunk, and  *)
(* no file is left behind.                                                 *)
(***************************************************************************)
EXTENDS ChatExecution, FiniteSetTheorems, SequenceTheorems, WellFoundedInduction, TLAPS

-----------------------------------------------------------------------------
(* The invariant.                                                          *)

\* The places of a command before its attempt has ended.
Before == {"aws", "git", "mcp", "download", "run"}

\* A sender that has not been given the done or error chunk, and one that has:
\* the chunk waits as the last one behind a text that is under way, or it has
\* been posted and nothing waits.
NoLast(q) == \A i \in 1 .. Len(q) : q[i] # "last"
LastComes(q) == q # <<>> /\ q[Len(q)] = "last" /\ \A i \in 1 .. Len(q) - 1 : q[i] # "last"
Open(o) == o.last = "none" /\ NoLast(o.queue)
Sent(o) ==
  /\ o.kind # "none" /\ ~o.buf
  /\ IF o.last = "none" THEN o.text /\ LastComes(o.queue) ELSE ~o.text /\ o.queue = <<>>

\* Where the command is decides what there is of it.
Placed ==
  /\ at = "run" <=> child # "none"
  /\ child = "none" => tools = 0 /\ left = 0
  /\ tools + left <= MaxOut
  /\ at = "pause" => attempt < CHAT_MAX_ATTEMPTS /\ why # "ok"
  /\ at \in {"aws", "pause", "end"} => files = {}
  /\ at = "tail" /\ why # "ok" => files = {}

\* ... and what its sender has been given. A refused attempt sends nothing.
Delivered ==
  /\ at \in Before => why # "ok" /\ out.kind = "none" /\ Open(out)
  /\ at = "aws" \/ why = "refused" => out = NewSender
  /\ why = "refused" => at \in {"aws", "tail", "pause", "end"}
  /\ at \notin Before => why # "none"
  /\ at \notin Before /\ why # "refused" => Sent(out) /\ out.kind = IF why = "ok" THEN "done" ELSE "error"
  /\ at \in {"pause", "end"} /\ why # "refused" => out.last \in {"landed", "lost"}
  /\ out.last = "landed" => shown = out.kind
  /\ shown = "done" => why = "ok" /\ out.last \in {"landed", "lost"}
  /\ at = "end" /\ out.last = "lost" => result = "undelivered"

ChatInv == TypeOK /\ Placed /\ Delivered /\ ResultTellsDelivery

-----------------------------------------------------------------------------
(* The chunk sender.                                                       *)

Chunk == {"delta", "other", "last"}

LEMMA LeastOne ==
  ASSUME NEW T \in SUBSET Nat, T # {}
  PROVE  \E x \in T : \A y \in T : x <= y
  <1> DEFINE R == {ss \in Nat \X Nat : ss[1] < ss[2]}
  <1>1. ~ \E f \in [Nat -> Nat] : \A n \in Nat : <<f[n+1], f[n]>> \in {ss \in Nat \X Nat : ss[1] < ss[2]}
    BY NatLessThanWellFounded DEF OpToRel, IsWellFoundedOn
  <1>2. \A a, b \in Nat : a < b => <<a, b>> \in R
    OBVIOUS
  <1>3. IsWellFoundedOn(R, Nat)
    BY <1>1 DEF IsWellFoundedOn
  <1> HIDE DEF R
  <1>4. PICK x \in T : \A y \in T : <<y, x>> \notin R
    BY <1>3, WFMin
  <1>5. ASSUME NEW y \in T PROVE x <= y
    <2>1. ~(y < x)
      BY <1>2, <1>4
    <2> QED BY <2>1
  <1> QED BY <1>5

\* Pumped() sends the first n chunks of the queue: all, or those up to a text.
LEMMA PumpedForm ==
  ASSUME NEW o \in Sender, ~o.text
  PROVE  \E n \in 0 .. Len(o.queue), k \in Nat, b \in BOOLEAN :
           /\ Pumped(o) = [o EXCEPT !.text = b, !.queue = SubSeq(o.queue, n + 1, Len(o.queue)),
                                    !.other = k,
                                    !.last = IF \E i \in 1 .. n : SubSeq(o.queue, 1, n)[i] = "last"
                                             THEN o.kind ELSE o.last]
           /\ b => n > 0 /\ o.queue[n] = "delta"
           /\ ~b => n = Len(o.queue)
  <1> DEFINE texts == {i \in DOMAIN o.queue : o.queue[i] = "delta"}
             n == IF texts = {} THEN Len(o.queue) ELSE CHOOSE i \in texts : \A j \in texts : i <= j
             sent == SubSeq(o.queue, 1, n)
             others == {i \in 1 .. n : sent[i] = "other"}
             b == texts # {}
  <1>1. o.queue \in Seq(Chunk) /\ o.other \in Nat
    BY DEF Sender, Chunk
  <1>2. texts \subseteq 1 .. Len(o.queue) /\ Len(o.queue) \in Nat
    BY <1>1
  <1>3. texts # {} => n \in texts
    <2> HIDE DEF texts
    <2>1. ASSUME texts # {} PROVE (CHOOSE i \in texts : \A j \in texts : i <= j) \in texts
      <3>1. texts \in SUBSET Nat
        BY <1>2
      <3>2. \E i \in texts : \A j \in texts : i <= j
        BY <2>1, <3>1, LeastOne
      <3> QED BY <3>2
    <2> QED BY <2>1
  <1>4. \A i \in texts : o.queue[i] = "delta"
    OBVIOUS
  <1>5. texts = {} => n = Len(o.queue)
    OBVIOUS
  <1>6. Pumped(o) = [o EXCEPT !.text = b, !.queue = SubSeq(o.queue, n + 1, Len(o.queue)),
                              !.other = o.other + Cardinality(others),
                              !.last = IF \E i \in 1 .. n : sent[i] = "last" THEN o.kind ELSE o.last]
    BY Zenon DEF Pumped
  <1>7. others \subseteq 1 .. n /\ b \in BOOLEAN
    OBVIOUS
  <1>8. b <=> texts # {}
    OBVIOUS
  <1> HIDE DEF texts, n, others, b
  <1>9. /\ n \in 0 .. Len(o.queue)
        /\ b => n > 0 /\ o.queue[n] = "delta"
        /\ ~b => n = Len(o.queue)
    <2>1. /\ n \in 0 .. Len(o.queue)
          /\ texts # {} => n > 0 /\ o.queue[n] = "delta"
          /\ texts = {} => n = Len(o.queue)
      <3>1. CASE texts # {}
        <4>1. n \in texts
          BY <1>3, <3>1
        <4>2. n \in 1 .. Len(o.queue)
          BY <1>2, <4>1
        <4> QED BY <1>2, <1>4, <3>1, <4>1, <4>2
      <3>2. CASE texts = {}
        BY <1>2, <1>5, <3>2
      <3> QED BY <3>1, <3>2
    <2>2. b => n > 0 /\ o.queue[n] = "delta"
      BY <1>8, <2>1, Zenon
    <2>3. ~b => n = Len(o.queue)
      BY <1>8, <2>1, Zenon
    <2> QED BY <2>1, <2>2, <2>3, Zenon
  <1>10. IsFiniteSet(1 .. n)
    <2>1. n \in Int /\ 1 \in Int
      BY <1>2, <1>9
    <2> QED BY <2>1, FS_Interval
  <1>11. IsFiniteSet(others)
    BY <1>7, <1>10, FS_Subset
  <1>12. o.other + Cardinality(others) \in Nat
    <2>1. Cardinality(others) \in Nat
      BY <1>11, FS_CardinalityType
    <2> QED BY <1>1, <2>1
  <1> QED BY <1>6, <1>7, <1>9, <1>12

\* What it does to a sender that has not been given its last chunk, and to one
\* whose last chunk waits.
LEMMA PumpedKeeps ==
  ASSUME NEW o \in Sender
  PROVE  /\ Pumped(o) \in Sender /\ Pumped(o).buf = o.buf /\ Pumped(o).kind = o.kind
         /\ Open(o) => Open(Pumped(o))
         /\ o.last = "none" /\ o.kind # "none" /\ ~o.buf /\ LastComes(o.queue) =>
              Sent(Pumped(o)) /\ Pumped(o).last \in {"none", o.kind}
  <1>1. CASE o.text
    <2>1. Pumped(o) = o
      BY <1>1, Zenon DEF Pumped
    <2> QED BY <1>1, <2>1 DEF Sent
  <1>2. CASE ~o.text
    <2>1. PICK n \in 0 .. Len(o.queue), k \in Nat, b \in BOOLEAN :
             /\ Pumped(o) = [o EXCEPT !.text = b, !.queue = SubSeq(o.queue, n + 1, Len(o.queue)),
                                      !.other = k,
                                      !.last = IF \E i \in 1 .. n : SubSeq(o.queue, 1, n)[i] = "last"
                                               THEN o.kind ELSE o.last]
             /\ b => n > 0 /\ o.queue[n] = "delta"
             /\ ~b => n = Len(o.queue)
      BY <1>2, PumpedForm
    <2> DEFINE q == o.queue
               p == Pumped(o)
               rest == SubSeq(o.queue, n + 1, Len(o.queue))
    <2>2. q \in Seq(Chunk) /\ Len(q) \in Nat /\ n \in Nat
      BY DEF Sender, Chunk
    <2>3. \A i \in 1 .. n : SubSeq(q, 1, n)[i] = q[i]
      BY <2>2, SubSeqProperties
    <2>4. /\ rest \in Seq(Chunk) /\ Len(rest) = Len(q) - n
          /\ \A i \in 1 .. Len(q) - n : rest[i] = q[n + i]
      BY <2>2, SubSeqProperties
    <2>5. /\ p.buf = o.buf /\ p.kind = o.kind /\ p.text = b /\ p.queue = rest /\ p.other = k
          /\ p.last = IF \E i \in 1 .. n : q[i] = "last" THEN o.kind ELSE o.last
      <3> DEFINE v == IF \E i \in 1 .. n : SubSeq(o.queue, 1, n)[i] = "last" THEN o.kind ELSE o.last
      <3>1. v = IF \E i \in 1 .. n : q[i] = "last" THEN o.kind ELSE o.last
        BY <2>3
      <3>2. p = [o EXCEPT !.text = b, !.queue = rest, !.other = k, !.last = v]
        BY <2>1
      <3> HIDE DEF p, rest, v
      <3>3. p.buf = o.buf /\ p.kind = o.kind /\ p.text = b /\ p.queue = rest /\ p.other = k /\ p.last = v
        BY <3>2 DEF Sender
      <3> QED BY <3>1, <3>3
    <2>6. p \in Sender
      <3>1. rest \in Seq({"delta", "other", "last"})
        BY <2>4 DEF Chunk
      <3> HIDE DEF rest
      <3> QED BY <2>1, <2>5, <3>1 DEF Sender
    <2> HIDE DEF p, rest, q
    <2>7. ASSUME Open(o) PROVE Open(p)
      <3>1. \A i \in 1 .. Len(q) : q[i] # "last"
        BY <2>7 DEF Open, NoLast, q
      <3>2. p.last = "none"
        BY <2>1, <2>2, <2>5, <2>7, <3>1 DEF Open, q
      <3>3. NoLast(rest)
        <4>1. Len(rest) = Len(q) - n /\ \A i \in 1 .. Len(q) - n : rest[i] = q[n + i] /\ n + i \in 1 .. Len(q)
          BY <2>2, <2>4
        <4> QED BY <3>1, <4>1 DEF NoLast
      <3> QED BY <2>5, <3>2, <3>3 DEF Open
    <2>8. ASSUME o.last = "none", o.kind # "none", ~o.buf, LastComes(q)
          PROVE  Sent(p) /\ p.last \in {"none", o.kind}
      <3>1. q # <<>> /\ Len(q) > 0 /\ q[Len(q)] = "last" /\ \A i \in 1 .. Len(q) - 1 : q[i] # "last"
        BY <2>2, <2>8 DEF LastComes
      <3>2. CASE b
        <4>1. n < Len(q)
          BY <2>1, <2>2, <3>1, <3>2 DEF q
        <4>2. p.last = "none"
          BY <2>2, <2>5, <2>8, <3>1, <4>1
        <4>3. LastComes(rest)
          <5>1. Len(rest) > 0 /\ rest[Len(rest)] = "last"
            BY <2>2, <2>4, <3>1, <4>1
          <5>2. ASSUME NEW i \in 1 .. Len(rest) - 1 PROVE rest[i] # "last"
            BY <2>2, <2>4, <3>1, <4>1
          <5>3. rest # <<>>
            BY <5>1
          <5> QED BY <5>1, <5>2, <5>3 DEF LastComes
        <4> QED BY <2>5, <2>8, <3>2, <4>2, <4>3 DEF Sent
      <3>3. CASE ~b
        <4>1. n = Len(q)
          BY <2>1, <3>3 DEF q
        <4>2. p.last = o.kind
          BY <2>2, <2>5, <3>1, <4>1
        <4>3. rest = <<>>
          BY <2>2, <2>4, <4>1
        <4> QED BY <2>5, <2>8, <3>3, <4>2, <4>3 DEF Sent
      <3> QED BY <3>2, <3>3
    <2> QED BY <2>5, <2>6, <2>7, <2>8 DEF p, q
  <1> QED BY <1>1, <1>2

\* A chunk is appended to a sender that is open.
LEMMA AppendKeeps ==
  ASSUME NEW o \in Sender, Open(o), NEW c \in Chunk, NEW buf \in BOOLEAN
  PROVE  LET p == [o EXCEPT !.buf = buf, !.queue = Append(@, c)] IN
         /\ p \in Sender /\ p.buf = buf /\ p.kind = o.kind /\ p.last = "none"
         /\ c # "last" => Open(p)
         /\ c = "last" => LastComes(p.queue)
  <1> DEFINE p == [o EXCEPT !.buf = buf, !.queue = Append(@, c)]
             q == Append(o.queue, c)
  <1>1. o.queue \in Seq(Chunk) /\ Len(o.queue) \in Nat
    BY DEF Sender, Chunk
  <1>2. /\ q \in Seq(Chunk) /\ Len(q) = Len(o.queue) + 1 /\ q[Len(q)] = c
        /\ \A i \in 1 .. Len(o.queue) : q[i] = o.queue[i]
    BY <1>1
  <1>3. p.buf = buf /\ p.kind = o.kind /\ p.last = "none" /\ p.queue = q
    BY DEF Sender, Open
  <1>4. p \in Sender
    <2>1. q \in Seq({"delta", "other", "last"})
      BY <1>2 DEF Chunk
    <2>2. p = [o EXCEPT !.buf = buf, !.queue = q]
      OBVIOUS
    <2> HIDE DEF q, p
    <2> QED BY <2>1, <2>2 DEF Sender
  <1> HIDE DEF p, q
  <1>5. \A i \in 1 .. Len(o.queue) : q[i] # "last"
    BY <1>2 DEF Open, NoLast
  <1>6. ASSUME c # "last" PROVE Open(p)
    <2>1. NoLast(q)
      BY <1>1, <1>2, <1>5, <1>6 DEF NoLast
    <2> QED BY <1>3, <2>1 DEF Open
  <1>7. ASSUME c = "last" PROVE LastComes(q)
    <2>1. q # <<>>
      BY <1>1, <1>2
    <2>2. Len(q) - 1 = Len(o.queue)
      BY <1>1, <1>2
    <2> QED BY <1>2, <1>5, <1>7, <2>1, <2>2 DEF LastComes
  <1>8. p \in Sender /\ p.buf = buf /\ p.kind = o.kind /\ p.last = "none" /\ (c # "last" => Open(p))
        /\ (c = "last" => LastComes(p.queue))
    BY <1>3, <1>4, <1>6, <1>7
  <1> QED BY <1>8 DEF p

LEMMA FlushedKeeps ==
  ASSUME NEW o \in Sender, Open(o)
  PROVE  Flushed(o) \in Sender /\ Open(Flushed(o)) /\ ~Flushed(o).buf /\ Flushed(o).kind = o.kind
  <1>1. CASE o.buf
    <2> DEFINE p == [o EXCEPT !.buf = FALSE, !.queue = Append(@, "delta")]
    <2>1. p \in Sender /\ p.buf = FALSE /\ p.kind = o.kind /\ Open(p)
      BY AppendKeeps DEF Chunk
    <2>2. Flushed(o) = Pumped(p)
      BY <1>1, Zenon DEF Flushed
    <2> HIDE DEF p
    <2> QED BY <2>1, <2>2, PumpedKeeps
  <1>2. CASE ~o.buf
    <2>1. Flushed(o) = o
      BY <1>2, Zenon DEF Flushed
    <2> QED BY <1>2, <2>1
  <1> QED BY <1>1, <1>2

LEMMA TextKeeps ==
  ASSUME NEW o \in Sender, Open(o)
  PROVE  Text(o) \in Sender /\ Open(Text(o)) /\ Text(o).kind = o.kind
  BY DEF Text, Sender, Open

LEMMA PutKeeps ==
  ASSUME NEW o \in Sender, Open(o), NEW c \in Chunk
  PROVE  /\ Put(o, c) \in Sender /\ Put(o, c).kind = o.kind
         /\ c # "last" => Open(Put(o, c))
         /\ c = "last" /\ o.kind # "none" => Sent(Put(o, c)) /\ Put(o, c).last \in {"none", o.kind}
  <1> DEFINE e == Flushed(o)
             p == [e EXCEPT !.queue = Append(@, c)]
             r == [e EXCEPT !.buf = FALSE, !.queue = Append(@, c)]
  <1>1. e \in Sender /\ Open(e) /\ ~e.buf /\ e.kind = o.kind
    BY FlushedKeeps
  <1>2. Put(o, c) = Pumped(p)
    BY DEF Put
  <1> HIDE DEF e
  <1>3. p = r
    BY <1>1 DEF Sender
  <1>4. /\ r \in Sender /\ r.buf = FALSE /\ r.kind = e.kind /\ r.last = "none"
        /\ c # "last" => Open(r)
        /\ c = "last" => LastComes(r.queue)
    BY <1>1, AppendKeeps
  <1> HIDE DEF p, r
  <1> QED BY <1>1, <1>2, <1>3, <1>4, PumpedKeeps

\* The done or error chunk is the last that a sender is given.
LEMMA LastSends ==
  ASSUME NEW o \in Sender, Open(o), NEW kind \in {"done", "error"}
  PROVE  /\ Last(o, kind) \in Sender /\ Last(o, kind).kind = kind
         /\ Sent(Last(o, kind)) /\ Last(o, kind).last \in {"none", kind}
  <1> DEFINE p == [o EXCEPT !.kind = kind]
  <1>1. p \in Sender /\ Open(p) /\ p.kind = kind
    BY DEF Sender, Open
  <1>2. Last(o, kind) = Put(p, "last")
    BY DEF Last
  <1> HIDE DEF p
  <1> QED BY <1>1, <1>2, PutKeeps DEF Chunk

LEMMA NewSenderOpen == NewSender \in Sender /\ Open(NewSender) /\ NewSender.kind = "none" /\ ~NewSender.buf
                       /\ ~NewSender.text /\ NewSender.other = 0
  <1>1. <<>> \in Seq({"delta", "other", "last"})
    OBVIOUS
  <1> QED BY <1>1 DEF NewSender, Sender, Open, NoLast

-----------------------------------------------------------------------------
(* The invariant is kept.                                                  *)

LEMMA InitSound == ASSUME Init PROVE ChatInv
  <1>1. TypeOK
    <2>1. out \in Sender
      BY NewSenderOpen DEF Init
    <2>2. modes \in Seq(Mode) \ {<<>>}
      BY ChatAssumption DEF Init
    <2>3. tools \in 0 .. MaxOut /\ left \in 0 .. MaxOut /\ attempt \in 1 .. CHAT_MAX_ATTEMPTS
      BY ChatAssumption DEF Init, CHAT_MAX_ATTEMPTS
    <2> QED BY <2>1, <2>2, <2>3 DEF Init, TypeOK, Place
  <1>2. Placed /\ Delivered /\ ResultTellsDelivery
    BY ChatAssumption, NewSenderOpen
       DEF Init, Placed, Delivered, ResultTellsDelivery, Before, CHAT_MAX_ATTEMPTS
  <1> QED BY <1>1, <1>2 DEF ChatInv

\* A step that leaves the command where it is, and gives its sender nothing that
\* an open one could not have.
LEMMA Stays ==
  ASSUME ChatInv, out' \in Sender, out'.kind = "none", at \in Before \ {"aws"}, at' \in Before \ {"aws"}, Open(out)',
         UNCHANGED <<why, shown>>
  PROVE  Delivered'
  <1>1. why # "refused" /\ why # "ok" /\ shown # "done"
    BY DEF ChatInv, Delivered, Before
  <1> QED BY <1>1 DEF ChatInv, Delivered, Before, Open

\* An attempt that ends with a last chunk.
LEMMA Ends ==
  ASSUME ChatInv, NEW kind \in {"done", "error"}, out' = Last(out, kind) \/ out' = Last(Text(out), kind),
         at \in Before, at' = "tail", UNCHANGED shown,
         why' \in {"ok", "fail", "unavailable", "auth"}, kind = IF why' = "ok" THEN "done" ELSE "error"
  PROVE  Delivered' /\ out' \in Sender
  <1>1. out \in Sender /\ Open(out) /\ why # "ok" /\ shown # "done"
    BY DEF ChatInv, TypeOK, Delivered, Before
  <1>2. Text(out) \in Sender /\ Open(Text(out))
    BY <1>1, TextKeeps
  <1>3. out' \in Sender /\ out'.kind = kind /\ Sent(out)' /\ out'.last \in {"none", kind}
    <2>1. CASE out' = Last(out, kind)
      <3>1. Last(out, kind) \in Sender /\ Last(out, kind).kind = kind /\ Sent(Last(out, kind))
            /\ Last(out, kind).last \in {"none", kind}
        BY <1>1, LastSends
      <3> QED BY <2>1, <3>1 DEF Sent
    <2>2. CASE out' = Last(Text(out), kind)
      <3>1. Last(Text(out), kind) \in Sender /\ Last(Text(out), kind).kind = kind /\ Sent(Last(Text(out), kind))
            /\ Last(Text(out), kind).last \in {"none", kind}
        BY <1>2, LastSends
      <3> QED BY <2>2, <3>1 DEF Sent
    <2> QED BY <2>1, <2>2
  <1> QED BY <1>1, <1>3 DEF Delivered, Before

\* The sender's own steps.
LEMMA SenderSound == ASSUME ChatInv, FlushTimer \/ TextSent \/ OtherSent \/ LastSent \/ Untold PROVE ChatInv'
  <1>1. out \in Sender /\ UNCHANGED <<modes, attempt, at, process, cancelled, files, why, result>>
    BY DEF ChatInv, TypeOK, FlushTimer, TextSent, OtherSent, LastSent, Untold
  <1>2. Placed'
    BY <1>1 DEF ChatInv, Placed, process
  <1>3. ASSUME out' \in Sender, shown' \in {"none", "done", "error"} PROVE TypeOK'
    BY <1>1, <1>3 DEF ChatInv, TypeOK, process
  <1>4. CASE FlushTimer
    <2>1. out.buf /\ out' = Flushed(out) /\ shown' = shown
      BY <1>4 DEF FlushTimer
    <2>2. at \in Before \ {"aws"}
      BY <1>1, <2>1, NewSenderOpen DEF ChatInv, TypeOK, Delivered, Sent, Place, Before
    <2>3. out' \in Sender /\ Open(out)' /\ out'.kind = "none"
      <3>1. Open(out) /\ out.kind = "none"
        BY <2>2 DEF ChatInv, Delivered
      <3>2. Flushed(out) \in Sender /\ Open(Flushed(out)) /\ Flushed(out).kind = "none"
        BY <1>1, <3>1, FlushedKeeps
      <3> QED BY <2>1, <3>2 DEF Open
    <2>4. Delivered'
      BY <1>1, <2>1, <2>2, <2>3, Stays
    <2> QED BY <1>1, <1>2, <1>3, <2>1, <2>2, <2>3, <2>4 DEF ChatInv, TypeOK, ResultTellsDelivery, Before
  <1>5. CASE TextSent
    <2> DEFINE o == [out EXCEPT !.text = FALSE]
    <2>1. out.text /\ out' = Pumped(o) /\ shown' = shown
      BY <1>5 DEF TextSent
    <2>2. o \in Sender /\ o.kind = out.kind /\ o.last = out.last /\ o.queue = out.queue /\ o.buf = out.buf
      BY <1>1 DEF Sender
    <2> HIDE DEF o
    <2>3. at # "aws" /\ why # "refused"
      BY <1>1, <2>1, NewSenderOpen DEF ChatInv, Delivered
    <2>4. CASE at \in Before
      <3>1. out' \in Sender /\ Open(out)' /\ out'.kind = "none"
        <4>1. Open(o) /\ o.kind = "none"
          BY <2>2, <2>4 DEF ChatInv, Delivered, Open
        <4>2. Pumped(o) \in Sender /\ Open(Pumped(o)) /\ Pumped(o).kind = "none"
          BY <2>2, <4>1, PumpedKeeps
        <4> QED BY <2>1, <4>2 DEF Open
      <3>2. Delivered'
        BY <1>1, <2>1, <2>3, <2>4, <3>1, Stays
      <3> QED BY <1>1, <1>2, <1>3, <2>1, <2>4, <3>1, <3>2 DEF ChatInv, TypeOK, ResultTellsDelivery, Before
    <2>5. CASE at \notin Before
      <3>1. Sent(out) /\ out.last = "none" /\ LastComes(out.queue)
        BY <2>1, <2>3, <2>5 DEF ChatInv, Delivered, Sent
      <3>2. at = "tail"
        BY <2>3, <2>5, <3>1 DEF ChatInv, TypeOK, Delivered, Place, Before
      <3>3. /\ Pumped(o) \in Sender /\ Pumped(o).kind = out.kind
            /\ Sent(Pumped(o)) /\ Pumped(o).last \in {"none", out.kind}
        BY <2>2, <3>1, PumpedKeeps DEF Sent
      <3>4. out' \in Sender /\ out'.kind = out.kind /\ Sent(out)' /\ out'.last \in {"none", "done", "error"}
        <4>1. out.kind \in {"none", "done", "error"}
          BY <1>1 DEF Sender
        <4> QED BY <2>1, <3>3, <4>1 DEF Sent
      <3>5. Delivered'
        BY <1>1, <2>1, <2>3, <3>1, <3>2, <3>4 DEF ChatInv, Delivered, Before
      <3> QED BY <1>1, <1>2, <1>3, <2>1, <3>2, <3>4, <3>5 DEF ChatInv, TypeOK, ResultTellsDelivery
    <2> QED BY <2>4, <2>5
  <1>6. CASE OtherSent
    <2>1. /\ out' \in Sender /\ out'.buf = out.buf /\ out'.text = out.text /\ out'.queue = out.queue
          /\ out'.last = out.last /\ out'.kind = out.kind /\ shown' = shown /\ out.other > 0
      BY <1>1, <1>6 DEF OtherSent, Sender
    <2>2. at # "aws" /\ why # "refused"
      BY <2>1, NewSenderOpen DEF ChatInv, Delivered
    <2>3. Delivered'
      BY <1>1, <2>1, <2>2 DEF ChatInv, Delivered, Sent, Open
    <2> QED BY <1>1, <1>2, <1>3, <2>1, <2>3 DEF ChatInv, TypeOK, ResultTellsDelivery
  <1>7. CASE LastSent
    <2>1. PICK ok \in BOOLEAN :
             /\ out.last \in {"done", "error"}
             /\ out' = [out EXCEPT !.last = IF ok THEN "landed" ELSE "lost"]
             /\ shown' = IF ok THEN out.kind ELSE shown
      BY <1>7 DEF LastSent
    <2>2. /\ out' \in Sender /\ out'.buf = out.buf /\ out'.text = out.text /\ out'.queue = out.queue
          /\ out'.last \in {"landed", "lost"} /\ out'.kind = out.kind
          /\ out'.last = "landed" => shown' = out.kind
          /\ out'.last = "lost" => shown' = shown
      BY <1>1, <2>1 DEF Sender
    <2>3. at = "tail" /\ why # "refused" /\ Sent(out)
      BY <2>1 DEF ChatInv, TypeOK, Delivered, Before, Open, Place, NewSender
    <2>4. out.kind \in {"done", "error"} /\ shown # "done"
      BY <1>1, <2>1, <2>3 DEF ChatInv, Delivered, Sent, Sender
    <2>5. Delivered'
      BY <1>1, <2>1, <2>2, <2>3, <2>4 DEF ChatInv, Delivered, Sent, Before
    <2>6. shown' \in {"none", "done", "error"}
      BY <2>2, <2>4 DEF ChatInv, TypeOK
    <2> QED BY <1>1, <1>2, <1>3, <2>2, <2>3, <2>5, <2>6 DEF ChatInv, ResultTellsDelivery
  <1>8. CASE Untold
    <2>1. out.last = "lost" /\ shown' = out.kind /\ UNCHANGED out
      BY <1>8 DEF Untold
    <2>2. at \notin Before /\ at # "aws" /\ why # "refused"
      BY <2>1 DEF ChatInv, Delivered, Open, Before, NewSender
    <2>3. out.kind = (IF why = "ok" THEN "done" ELSE "error")
      BY <2>2 DEF ChatInv, Delivered
    <2>4. Delivered'
      BY <1>1, <2>1, <2>2, <2>3 DEF ChatInv, Delivered, Sent, Before
    <2>5. ResultTellsDelivery'
      BY <1>1, <2>1 DEF ChatInv, Delivered, ResultTellsDelivery
    <2> QED BY <1>1, <1>2, <1>3, <2>1, <2>3, <2>4, <2>5 DEF ChatInv
  <1> QED BY <1>4, <1>5, <1>6, <1>7, <1>8

\* Preparation.
LEMMA PreparesSound ==
  ASSUME ChatInv, Refuse \/ AwsCredentials \/ GitCredentials \/ McpConfig
  PROVE  ChatInv'
  <1>1. out \in Sender /\ UNCHANGED <<modes, attempt, process, cancelled, shown, result>>
    BY DEF ChatInv, TypeOK, Refuse, AwsCredentials, GitCredentials, McpConfig, Prepares
  <1>2. CASE Refuse
    <2>1. at = "aws" /\ at' = "tail" /\ why' = "refused" /\ UNCHANGED <<files, out>>
      BY <1>2 DEF Refuse
    <2>2. TypeOK'
      BY <1>1, <2>1 DEF ChatInv, TypeOK, process, Place
    <2>3. Placed'
      BY <1>1, <2>1 DEF ChatInv, Placed, process
    <2>4. Delivered'
      BY <1>1, <2>1, NewSenderOpen DEF ChatInv, Delivered, Before, NewSender
    <2> QED BY <2>1, <2>2, <2>3, <2>4 DEF ChatInv, ResultTellsDelivery
  <1>3. CASE AwsCredentials \/ GitCredentials \/ McpConfig
    <2>1. /\ at \in {"aws", "git", "mcp"} /\ at' \in {"git", "mcp", "download"}
          /\ why # "refused" /\ why' = why /\ files' \subseteq files \cup Kind
          /\ out' \in {out, Text(out)}
      BY <1>3 DEF AwsCredentials, GitCredentials, McpConfig, Prepares
    <2>2. Open(out) /\ out.kind = "none" /\ why # "ok" /\ shown # "done" /\ out.last = "none"
      BY <2>1 DEF ChatInv, Delivered, Before, Open
    <2>3. out' \in Sender /\ Open(out)' /\ out'.kind = "none"
      <3>1. Text(out) \in Sender /\ Open(Text(out)) /\ Text(out).kind = "none"
        BY <1>1, <2>2, TextKeeps
      <3> QED BY <1>1, <2>1, <2>2, <3>1 DEF Open
    <2>4. TypeOK'
      BY <1>1, <2>1, <2>3 DEF ChatInv, TypeOK, process, Place
    <2>5. Placed'
      BY <1>1, <2>1 DEF ChatInv, Placed, process
    <2>6. Delivered'
      BY <1>1, <2>1, <2>2, <2>3 DEF Delivered, Before, Open
    <2> QED BY <2>1, <2>4, <2>5, <2>6 DEF ChatInv, ResultTellsDelivery
  <1> QED BY <1>2, <1>3

\* The CLI is started, or an attachment is missing.
LEMMA StartsSound == ASSUME ChatInv, Attachments \/ ApiStart PROVE ChatInv'
  <1>0. out \in Sender /\ at \in {"aws", "download"} /\ why # "refused"
    BY DEF ChatInv, TypeOK, Attachments, ApiStart, Delivered
  <1>1. CASE Started /\ files' \subseteq files \cup Kind /\ out' = out
    <2>1. /\ child' = "up" /\ timer' = "short" /\ left' = MaxOut /\ at' = "run" /\ reg' = TRUE
          /\ UNCHANGED <<force, tools, modes, attempt, cancelled, why, shown, result>>
      BY <1>1 DEF Started, Spawned
    <2>2. tools = 0 /\ MaxOut \in Nat
      BY <1>0, ChatAssumption DEF ChatInv, Placed
    <2>3. TypeOK'
      BY <1>0, <1>1, <2>1, <2>2 DEF ChatInv, TypeOK, Place
    <2>4. Placed'
      BY <2>1, <2>2 DEF Placed
    <2>5. Delivered'
      BY <1>0, <1>1, <2>1 DEF ChatInv, Delivered, Before, Open
    <2> QED BY <2>1, <2>3, <2>4, <2>5 DEF ChatInv, ResultTellsDelivery
  <1>2. CASE Failed(out, "fail") /\ UNCHANGED <<process, cancelled, shown, result>>
    <2>1. /\ at' = "tail" /\ why' = "fail" /\ out' = Last(out, "error") /\ files' = {}
          /\ UNCHANGED <<modes, attempt, process, cancelled, shown, result>>
      BY <1>2 DEF Failed
    <2>2. Delivered' /\ out' \in Sender
      BY <1>0, <2>1, Ends DEF Before
    <2>3. TypeOK'
      BY <2>1, <2>2 DEF ChatInv, TypeOK, process, Place
    <2>4. Placed'
      BY <1>0, <2>1 DEF ChatInv, Placed, process
    <2> QED BY <2>1, <2>2, <2>3, <2>4 DEF ChatInv, ResultTellsDelivery
  <1>3. Attachments => \/ Started /\ files' \subseteq files \cup Kind /\ out' = out
                       \/ Failed(out, "fail") /\ UNCHANGED <<process, cancelled, shown, result>>
    BY DEF Attachments
  <1>4. ApiStart => Started /\ files' \subseteq files \cup Kind /\ out' = out
    BY DEF ApiStart
  <1> QED BY <1>1, <1>2, <1>3, <1>4

\* The CLI prints.
LEMMA PrintsSound ==
  ASSUME ChatInv, ClaudeText \/ CodexText \/ ApiText \/ PrintsOther \/ CallsTool \/ ToolResult \/ ApiToolTurn
  PROVE  ChatInv'
  <1>1. /\ child # "none" /\ left > 0 /\ left' = left - 1 /\ timer' \in {"short", "long"}
        /\ UNCHANGED <<modes, attempt, at, child, force, reg, cancelled, files, why, shown, result>>
    BY DEF ClaudeText, CodexText, ApiText, Says, PrintsOther, CallsTool, ToolResult, ApiToolTurn, Prints
  <1>2. at = "run" /\ out \in Sender /\ Open(out) /\ out.kind = "none" /\ why \notin {"ok", "refused"}
    BY <1>1 DEF ChatInv, TypeOK, Placed, Delivered, Before
  <1>3. /\ left \in Nat /\ tools \in Nat /\ tools + left <= MaxOut /\ MaxOut \in Nat
        /\ tools' \in {tools, tools + 1} \/ (tools > 0 /\ tools' = tools - 1)
    BY ChatAssumption
       DEF ChatInv, TypeOK, Placed, ClaudeText, CodexText, ApiText, Says, PrintsOther, CallsTool, ToolResult, ApiToolTurn
  <1>4. out' \in Sender /\ Open(out)' /\ out'.kind = "none"
    <2>1. out' \in {out, Text(out), Put(out, "other")}
      BY DEF ClaudeText, CodexText, ApiText, Says, PrintsOther, CallsTool, ToolResult, ApiToolTurn
    <2>2. Text(out) \in Sender /\ Open(Text(out)) /\ Text(out).kind = "none"
      BY <1>2, TextKeeps
    <2>3. Put(out, "other") \in Sender /\ Open(Put(out, "other")) /\ Put(out, "other").kind = "none"
      BY <1>2, PutKeeps DEF Chunk
    <2> QED BY <1>2, <2>1, <2>2, <2>3 DEF Open
  <1>5. tools' \in 0 .. MaxOut /\ left' \in 0 .. MaxOut /\ tools' + left' <= MaxOut
    BY <1>1, <1>3
  <1>6. TypeOK'
    BY <1>1, <1>4, <1>5 DEF ChatInv, TypeOK
  <1>7. Placed'
    BY <1>1, <1>2, <1>5 DEF ChatInv, Placed
  <1>8. Delivered'
    BY <1>1, <1>2, <1>4, Stays DEF Before
  <1> QED BY <1>1, <1>2, <1>6, <1>7, <1>8 DEF ChatInv, ResultTellsDelivery

\* It is stopped.
LEMMA StopsSound == ASSUME ChatInv, Timeout \/ Cancel \/ ForceKill PROVE ChatInv'
  <1>1. UNCHANGED <<modes, attempt, at, tools, left, files, out, why, shown, result>>
    BY DEF Timeout, Cancel, ForceKill
  <1>2. /\ child' \in {"none", "up", "term", "kill"} /\ (child' = "none" <=> child = "none")
        /\ force' \in BOOLEAN /\ timer' \in {"off", "short", "long"} /\ reg' \in BOOLEAN /\ cancelled' \in BOOLEAN
    BY DEF ChatInv, TypeOK, Timeout, Cancel, ForceKill, Killed
  <1>3. TypeOK'
    BY <1>1, <1>2 DEF ChatInv, TypeOK
  <1>4. Placed' /\ Delivered' /\ ResultTellsDelivery'
    BY <1>1, <1>2 DEF ChatInv, Placed, Delivered, ResultTellsDelivery, Sent, Open
  <1> QED BY <1>3, <1>4 DEF ChatInv

\* It ends, and another mode is tried or not.
LEMMA EndsSound ==
  ASSUME ChatInv, NEW outcome \in {"ok", "fail", "unavailable", "auth"}, NEW rest \in {out, Text(out)},
         Ended(outcome, rest)
  PROVE  ChatInv'
  <1>1. /\ child # "none" /\ child' = "none" /\ force' = FALSE /\ timer' = "off" /\ tools' = 0 /\ left' = 0
        /\ reg' = FALSE /\ UNCHANGED <<cancelled, shown, result>>
    BY DEF Ended, Stopped
  <1>2. at = "run" /\ out \in Sender /\ Open(out) /\ MaxOut \in Nat
    BY <1>1, ChatAssumption DEF ChatInv, TypeOK, Placed, Delivered, Before
  <1>3. /\ child' \in {"none", "up", "term", "kill"} /\ force' \in BOOLEAN
        /\ timer' \in {"off", "short", "long"} /\ tools' \in 0 .. MaxOut /\ left' \in 0 .. MaxOut
        /\ reg' \in BOOLEAN /\ cancelled' \in BOOLEAN /\ shown' \in {"none", "done", "error"}
        /\ result' \in {"none", "ok", "failed", "undelivered"}
    <2>1. tools' \in 0 .. MaxOut /\ left' \in 0 .. MaxOut
      BY <1>1, <1>2
    <2> QED BY <1>1, <2>1 DEF ChatInv, TypeOK
  <1>4. CASE outcome = "ok" /\ at' = "tail" /\ why' = "ok" /\ out' = Last(rest, "done")
             /\ UNCHANGED <<modes, attempt, files>>
    <2>1. Delivered' /\ out' \in Sender
      BY <1>1, <1>2, <1>4, Ends DEF Before
    <2>2. TypeOK'
      <3>1. modes' \in Seq(Mode) \ {<<>>} /\ attempt' \in 1 .. CHAT_MAX_ATTEMPTS /\ files' \subseteq Kind
        BY <1>4 DEF ChatInv, TypeOK
      <3>2. at' \in Place /\ why' \in {"none", "ok", "fail", "unavailable", "auth", "refused"}
        BY <1>4 DEF Place
      <3> QED BY <1>3, <2>1, <3>1, <3>2 DEF TypeOK
    <2>3. Placed'
      BY <1>1, <1>2, <1>4 DEF Placed
    <2> QED BY <1>4, <2>1, <2>2, <2>3 DEF ChatInv, ResultTellsDelivery
  <1>5. CASE Suppressed(outcome) /\ why' = "unavailable" /\ files' = {} /\ modes' = Tail(modes) /\ attempt' = 1
             /\ Begin
    <2>1. at' = "aws" /\ out' = NewSender
      BY <1>5 DEF Begin
    <2>2. modes' \in Seq(Mode) \ {<<>>}
      <3>1. modes \in Seq(Mode) /\ Len(modes) > 1
        BY <1>5 DEF ChatInv, TypeOK, Suppressed, HasFallback
      <3>2. Tail(modes) \in Seq(Mode) /\ Len(Tail(modes)) = Len(modes) - 1
        BY <3>1
      <3>3. Tail(modes) # <<>>
        <4>1. Len(Tail(modes)) > 0
          BY <3>1, <3>2
        <4>2. Len(<<>>) = 0
          OBVIOUS
        <4> QED BY <4>1, <4>2
      <3> QED BY <1>5, <3>2, <3>3
    <2>3. TypeOK'
      <3>1. attempt' \in 1 .. CHAT_MAX_ATTEMPTS /\ files' \subseteq Kind
        BY <1>5 DEF CHAT_MAX_ATTEMPTS
      <3>2. at' \in Place /\ why' \in {"none", "ok", "fail", "unavailable", "auth", "refused"}
        BY <1>5, <2>1 DEF Place
      <3>3. out' \in Sender
        BY <2>1, NewSenderOpen
      <3> QED BY <1>3, <2>2, <3>1, <3>2, <3>3 DEF TypeOK
    <2>4. Placed'
      BY <1>1, <1>2, <1>5, <2>1 DEF Placed
    <2>5. shown # "done"
      BY <1>2 DEF ChatInv, Delivered, Before
    <2>6. Delivered'
      BY <1>1, <1>5, <2>1, <2>5, NewSenderOpen DEF Delivered, Before, Open
    <2> QED BY <2>1, <2>3, <2>4, <2>6 DEF ChatInv, ResultTellsDelivery
  <1>6. CASE outcome # "ok" /\ Failed(rest, outcome)
    <2>1. at' = "tail" /\ why' = outcome /\ out' = Last(rest, "error") /\ files' = {} /\ UNCHANGED <<modes, attempt>>
      BY <1>6 DEF Failed
    <2>2. Delivered' /\ out' \in Sender
      BY <1>1, <1>2, <1>6, <2>1, Ends DEF Before
    <2>3. TypeOK'
      <3>1. modes' \in Seq(Mode) \ {<<>>} /\ attempt' \in 1 .. CHAT_MAX_ATTEMPTS /\ files' \subseteq Kind
        BY <2>1 DEF ChatInv, TypeOK
      <3>2. at' \in Place /\ why' \in {"none", "ok", "fail", "unavailable", "auth", "refused"}
        BY <2>1 DEF Place
      <3> QED BY <1>3, <2>2, <3>1, <3>2 DEF TypeOK
    <2>4. Placed'
      BY <1>1, <1>2, <2>1 DEF Placed
    <2> QED BY <2>1, <2>2, <2>3, <2>4 DEF ChatInv, ResultTellsDelivery
  <1> QED BY <1>4, <1>5, <1>6 DEF Ended

\* The attempt is over, and the next one begins.
LEMMA OverSound == ASSUME ChatInv, Over \/ Retry PROVE ChatInv'
  <1>0. out \in Sender /\ UNCHANGED <<modes, process, cancelled, why, shown>>
    BY DEF ChatInv, TypeOK, Over, Retry
  <1>1. CASE Over
    <2>1. /\ at = "tail" /\ (out.last \in {"landed", "lost"} \/ why = "refused")
          /\ at' = IF Verdict(out) = "again" THEN "pause" ELSE "end"
          /\ result' = IF Verdict(out) = "again" THEN result ELSE Verdict(out)
          /\ files' = {} /\ UNCHANGED <<attempt, out>>
      BY <1>1 DEF Over
    <2>2. at = "tail" /\ child = "none"
      BY <1>1 DEF Over, ChatInv, Placed
    <2>3. Verdict(out) = "again" => attempt < CHAT_MAX_ATTEMPTS /\ why # "ok" /\ at' = "pause" /\ result' = result
      BY <2>1 DEF Verdict
    <2>4. Verdict(out) \in {"ok", "failed", "undelivered", "again"}
      BY DEF Verdict
    <2>5. TypeOK'
      BY <1>0, <2>1, <2>4 DEF ChatInv, TypeOK, process, Place
    <2>6. Placed'
      BY <1>0, <2>1, <2>2, <2>3 DEF ChatInv, Placed, process
    <2>7. Delivered'
      <3>1. at' = "end" /\ out.last = "lost" => result' = "undelivered"
        BY <2>1 DEF Verdict
      <3> QED BY <1>0, <2>1, <2>2, <2>3, <3>1 DEF ChatInv, Delivered, Before, Sent, Open
    <2>8. ResultTellsDelivery'
      <3>1. CASE why = "refused"
        <4>1. out.last = "none" /\ shown # "done"
          BY <3>1, NewSenderOpen DEF ChatInv, Delivered, Open
        <4> QED BY <1>0, <2>1, <3>1, <4>1 DEF ResultTellsDelivery, Verdict
      <3>2. CASE why # "refused"
        <4>1. out.last \in {"landed", "lost"} /\ out.kind = (IF why = "ok" THEN "done" ELSE "error")
          BY <2>1, <2>2, <3>2 DEF ChatInv, Delivered, Before
        <4>2. out.last = "landed" => shown = out.kind
          BY DEF ChatInv, Delivered
        <4>3. shown = "done" => why = "ok"
          BY DEF ChatInv, Delivered
        <4> QED BY <1>0, <2>1, <3>2, <4>1, <4>2, <4>3 DEF ResultTellsDelivery, Verdict
      <3> QED BY <3>1, <3>2
    <2> QED BY <2>5, <2>6, <2>7, <2>8 DEF ChatInv
  <1>2. CASE Retry
    <2>1. /\ at = "pause" /\ attempt' = attempt + 1 /\ at' = "aws" /\ out' = NewSender /\ UNCHANGED <<files, result>>
      BY <1>2 DEF Retry, Begin
    <2>2. attempt' \in 1 .. CHAT_MAX_ATTEMPTS
      BY <2>1 DEF ChatInv, TypeOK, Placed, CHAT_MAX_ATTEMPTS
    <2>3. TypeOK'
      BY <1>0, <2>1, <2>2, NewSenderOpen DEF ChatInv, TypeOK, process, Place
    <2>4. Placed'
      BY <1>0, <2>1 DEF ChatInv, Placed, process
    <2>5. why # "ok" /\ shown # "done"
      BY <2>1 DEF ChatInv, Placed, Delivered
    <2>6. Delivered'
      BY <1>0, <2>1, <2>5, NewSenderOpen DEF Delivered, Before, Open
    <2> QED BY <2>1, <2>3, <2>4, <2>6 DEF ChatInv, ResultTellsDelivery
  <1> QED BY <1>1, <1>2

LEMMA StepSound == ASSUME ChatInv, [Next]_vars PROVE ChatInv'
  <1>1. CASE UNCHANGED vars
    BY <1>1 DEF vars, process, ChatInv, TypeOK, Placed, Delivered, ResultTellsDelivery, Sent, Open
  <1>2. CASE ClaudeExit \/ CodexExit \/ ApiEnd
    BY <1>2, EndsSound DEF ClaudeExit, CodexExit, ApiEnd, ClaudeOutcome, CodexOutcome
  <1> QED BY <1>1, <1>2, SenderSound, PreparesSound, StartsSound, PrintsSound, StopsSound, OverSound DEF Next

-----------------------------------------------------------------------------
(* Theorems.                                                               *)

LEMMA InvariantKept == Spec => []ChatInv
  BY InitSound, StepSound, PTL DEF Spec

\* executeChatCommand() tells the server "success" only when the web client has
\* been told "done", a failure that was to be shown has been shown, and of an
\* answer that was shown as done only the delivery is ever called in question.
THEOREM ResultTrue == Spec => []ResultTellsDelivery
  <1>1. ChatInv => ResultTellsDelivery
    BY DEF ChatInv
  <1> QED BY <1>1, InvariantKept, PTL

\* An answer is given once, with all of its text before the last chunk, and what
\* was written to the disk for it is removed.
THEOREM AnswerTrue == Spec => []AnswerWhole
  <1>1. ChatInv => AnswerWhole
    <2>1. ASSUME ChatInv PROVE AnsweredOnce
      BY <2>1 DEF ChatInv, TypeOK, Placed, Delivered, AnsweredOnce, Before, Place
    <2>2. ASSUME ChatInv PROVE TextBeforeLast
      BY <2>2, NewSenderOpen DEF ChatInv, Delivered, TextBeforeLast, Open, Sent
    <2>3. ASSUME ChatInv PROVE FilesRemoved
      BY <2>3 DEF ChatInv, Placed, FilesRemoved
    <2> QED BY <2>1, <2>2, <2>3 DEF AnswerWhole, ChatInv
  <1> QED BY <1>1, InvariantKept, PTL
=============================================================================
