---------------------------- MODULE ServerLemmas ----------------------------
(***************************************************************************)
(* Lemmas about the operators from which both servers are built: queues    *)
(* and interest lists.                                                     *)
(***************************************************************************)
EXTENDS Epoll, Queues, TLAPS, SequenceTheorems

-----------------------------------------------------------------------------
(* Queues.                                                                 *)

\* What push_back() makes of who is in the queue.
LEMMA InSeqAppend ==
  ASSUME NEW S, NEW seq \in Seq(S), NEW e \in S, NEW x
  PROVE  InSeq(Append(seq, e), x) <=> InSeq(seq, x) \/ x = e
<1>1. /\ Len(seq) \in Nat /\ Len(Append(seq, e)) = Len(seq) + 1
      /\ Append(seq, e)[Len(seq) + 1] = e
      /\ \A i \in 1..Len(seq) : Append(seq, e)[i] = seq[i]
  BY AppendProperties
<1>2. QED
  BY <1>1 DEF InSeq

\* Nobody is in a queue twice who was not in it before.
LEMMA OnceAppend ==
  ASSUME NEW S, NEW seq \in Seq(S), NEW e \in S, NEW x,
         Once(seq, x), InSeq(seq, x) => x # e
  PROVE  Once(Append(seq, e), x)
<1>1. /\ Len(seq) \in Nat /\ Len(Append(seq, e)) = Len(seq) + 1
      /\ Append(seq, e)[Len(seq) + 1] = e
      /\ \A i \in 1..Len(seq) : Append(seq, e)[i] = seq[i]
  BY AppendProperties
<1>2. QED
  BY <1>1 DEF InSeq, Once

\* Who is in a queue is of the type of its elements; nobody is in an empty one.
LEMMA InSeqTypes ==
  /\ \A S : \A seq \in Seq(S) : \A x : InSeq(seq, x) => x \in S
  /\ \A x : ~InSeq(<<>>, x)
BY DEF InSeq

\* What front() and pop() make of who is in the queue.
LEMMA InSeqHeadTail ==
  ASSUME NEW S, NEW seq \in Seq(S), seq # <<>>, NEW x
  PROVE  /\ InSeq(seq, x) <=> x = Head(seq) \/ InSeq(Tail(seq), x)
         /\ Once(seq, x) => Once(Tail(seq), x) /\ (InSeq(Tail(seq), x) => x # Head(seq))
<1>1. /\ Len(seq) \in Nat \ {0} /\ Len(Tail(seq)) = Len(seq) - 1
      /\ Head(seq) = seq[1]
      /\ \A i \in 1..Len(Tail(seq)) : Tail(seq)[i] = seq[i + 1]
  BY HeadTailProperties, LenProperties, EmptySeq
<1>2. InSeq(seq, x) => x = Head(seq) \/ InSeq(Tail(seq), x)
  <2> SUFFICES ASSUME NEW i \in 1..Len(seq), seq[i] = x, x # Head(seq)
               PROVE  InSeq(Tail(seq), x)
    BY DEF InSeq
  <2>1. i - 1 \in 1..Len(Tail(seq)) /\ Tail(seq)[i - 1] = x
    BY <1>1
  <2>2. QED
    BY <2>1 DEF InSeq
<1>3. ASSUME NEW i \in 1..Len(Tail(seq))
      PROVE  i + 1 \in 1..Len(seq) /\ seq[i + 1] = Tail(seq)[i]
  BY <1>1, <1>3
<1>4. x = Head(seq) \/ InSeq(Tail(seq), x) => InSeq(seq, x)
  BY <1>1, <1>3 DEF InSeq
<1>5. Once(seq, x) => Once(Tail(seq), x)
  <2> SUFFICES ASSUME Once(seq, x), NEW i \in 1..Len(Tail(seq)), NEW j \in 1..Len(Tail(seq)),
                      Tail(seq)[i] = x, Tail(seq)[j] = x
               PROVE  i = j
    BY DEF Once
  <2>1. i + 1 = j + 1
    BY <1>3 DEF Once
  <2>2. QED
    BY <1>1, <2>1
<1>6. Once(seq, x) /\ InSeq(Tail(seq), x) => x # Head(seq)
  <2> SUFFICES ASSUME Once(seq, x), NEW i \in 1..Len(Tail(seq)), Tail(seq)[i] = x, x = Head(seq)
               PROVE  FALSE
    BY DEF InSeq
  <2>1. i + 1 = 1
    BY <1>1, <1>3 DEF Once
  <2>2. QED
    BY <1>1, <2>1
<1>7. QED
  BY <1>2, <1>4, <1>5, <1>6

-----------------------------------------------------------------------------
(* Interest lists.                                                         *)

\* What the wrappers of epoll_ctl() and epoll_wait() do to a registration.
LEMMA InterestOperators ==
  ASSUME NEW list \in Interests, NEW fd \in Fds
  PROVE  /\ Add(list, fd) \in Interests
         /\ Del(list, fd) = [list EXCEPT ![fd] = "none"] /\ Del(list, fd) \in Interests
         /\ \A ev \in Registrations : Mod(list, fd, ev) \in Interests
BY DEF Interests, Registrations, Add, Del, Mod

\* epoll_wait() reports what is armed and disarms what it reports.
LEMMA ReportTypes ==
  ASSUME NEW list \in Interests, NEW reported \in Reports(list)
  PROVE  /\ reported \in Batches
         /\ Disarm(list, reported) \in Interests
         /\ \A fd \in Fds :
              /\ reported[fd] # "none" => Armed(list, fd) /\ reported[fd] \in {list[fd], "hup"}
              /\ Disarm(list, reported)[fd]
                   = IF reported[fd] = "none" THEN list[fd] ELSE "off"
BY DEF Interests, Registrations, Reports, Batches, Disarm

=============================================================================
