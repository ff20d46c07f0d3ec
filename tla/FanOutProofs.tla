---------------------------- MODULE FanOutProofs ----------------------------
(***************************************************************************)
(* FanOut implements RecordStream, for partitions of any length and any    *)
(* number of stops.  StreamInv is the invariant the refinement needs: what *)
(* is published next is either heard already or the first that is not.     *)
(***************************************************************************)
EXTENDS FanOut, TLAPS

(* Appending to a sequence keeps what is in it.                            *)
LEMMA AppendProperties ==
  ASSUME NEW S, NEW s \in Seq(S), NEW e \in S
  PROVE  Append(s, e) \in Seq(S) /\ Len(Append(s, e)) = Len(s) + 1
  OBVIOUS

LEMMA LenIsNat ==
  ASSUME TypeOK
  PROVE  Len(topic) \in Nat
  BY DEF TypeOK

(* Every state of the process satisfies the invariant.                     *)
LEMMA InitStreamInv == Init => StreamInv
  <1> SUFFICES ASSUME Init
               PROVE  StreamInv
    OBVIOUS
  <1> USE DEF Init, None, Offsets
  <1>1. <<>> \in Seq(Records) /\ Len(<<>>) = 0
    OBVIOUS
  <1>2. TypeOK
    BY <1>1 DEF TypeOK
  <1>3. FreshWhileUnsettled /\ NoGap /\ NeverAhead
    BY DEF FreshWhileUnsettled, NoGap, NeverAhead
  <1>4. QED
    BY <1>2, <1>3 DEF StreamInv

LEMMA ProduceKeeps ==
  ASSUME StreamInv, NEW k \in Records, Produce(k)
  PROVE  StreamInv'
  <1> USE DEF None, Offsets
  <1>1. Len(topic) \in Nat
    BY LenIsNat DEF StreamInv
  <1>2. topic' \in Seq(Records) /\ Len(topic') = Len(topic) + 1
    BY AppendProperties DEF StreamInv, TypeOK, Produce
  <1>3. TypeOK'
    BY <1>1, <1>2 DEF StreamInv, TypeOK, Produce
  <1>4. FreshWhileUnsettled' /\ NoGap' /\ NeverAhead'
    BY DEF StreamInv, FreshWhileUnsettled, NoGap, NeverAhead, Upcoming, Produce
  <1>5. QED
    BY <1>3, <1>4 DEF StreamInv

LEMMA JoinKeeps ==
  ASSUME StreamInv, Join
  PROVE  StreamInv'
  <1> USE DEF None, Offsets
  <1>1. Len(topic) \in Nat
    BY LenIsNat DEF StreamInv
  <1>2. held = None /\ ~ sent
    BY <1>1 DEF StreamInv, TypeOK, Join
  <1>3. TypeOK'
    BY <1>1, <1>2 DEF StreamInv, TypeOK, Join
  <1>4. FreshWhileUnsettled'
    BY <1>1, <1>2 DEF StreamInv, TypeOK, FreshWhileUnsettled, Upcoming, Join
  <1>5. NoGap'
    BY DEF StreamInv, NoGap, Join
  <1>6. NeverAhead'
    BY <1>1, <1>2 DEF StreamInv, TypeOK, NoGap, NeverAhead, Upcoming, Join
  <1>7. QED
    BY <1>3, <1>4, <1>5, <1>6 DEF StreamInv

LEMMA PollKeeps ==
  ASSUME StreamInv, Poll
  PROVE  StreamInv'
  <1> USE DEF None, Offsets, ManualCommit
  <1>1. Len(topic) \in Nat
    BY LenIsNat DEF StreamInv
  <1>2. ~ sent /\ position \in Nat /\ held' = position /\ held' # None
    BY <1>1 DEF StreamInv, TypeOK, Poll
  <1>3. TypeOK'
    BY <1>1, <1>2 DEF StreamInv, TypeOK, Poll
  <1>4. Upcoming' = Upcoming
    BY <1>2 DEF Upcoming, Poll
  <1>5. FreshWhileUnsettled'
    BY <1>2, <1>4 DEF StreamInv, FreshWhileUnsettled, Poll
  <1>6. NoGap' /\ NeverAhead'
    BY <1>2, <1>4 DEF StreamInv, NoGap, NeverAhead, Poll
  <1>7. QED
    BY <1>3, <1>5, <1>6 DEF StreamInv

(* Once an offset is committed the message held is published already or    *)
(* follows the last one that is.                                           *)
LEMMA PublishesNext ==
  ASSUME StreamInv, Publish, held \notin heard
  PROVE  /\ \A h \in heard : h < held
         /\ committed # None => held - 1 \in heard
  <1> USE DEF None, Offsets
  <1>1. Len(topic) \in Nat /\ held \in Nat /\ position = held + 1
    BY LenIsNat DEF StreamInv, TypeOK, Publish
  <1>2. Upcoming = held
    BY DEF Upcoming, Publish
  <1>3. CASE committed = None
    BY <1>1, <1>2, <1>3 DEF StreamInv, FreshWhileUnsettled, Publish
  <1>4. CASE committed # None
    <2>1. committed \in Nat /\ committed <= held /\ held - 1 \in heard
      BY <1>1, <1>2, <1>4 DEF StreamInv, TypeOK, NeverAhead
    <2>2. ASSUME NEW h \in heard, ~ (h < held)
          PROVE  FALSE
      <3>1. h \in Nat
        BY <1>1 DEF StreamInv, TypeOK
      <3>2. held \in committed .. h
        BY <1>1, <2>1, <2>2, <3>1
      <3>3. QED
        BY <1>4, <3>2 DEF StreamInv, NoGap
    <2>3. QED
      BY <2>1, <2>2
  <1>5. QED
    BY <1>3, <1>4

LEMMA PublishKeeps ==
  ASSUME StreamInv, Publish
  PROVE  StreamInv'
  <1> USE DEF None, Offsets
  <1>1. Len(topic) \in Nat /\ held \in Nat /\ position = held + 1 /\ heard \subseteq Nat
    BY LenIsNat DEF StreamInv, TypeOK, Publish
  <1>2. TypeOK'
    BY <1>1 DEF StreamInv, TypeOK, Publish
  <1>3. FreshWhileUnsettled'
    BY <1>1 DEF StreamInv, FreshWhileUnsettled, Upcoming, Publish
  <1>4. NoGap'
    <2>1. SUFFICES ASSUME committed # None
                   PROVE  NoGap'
      BY DEF NoGap, Publish
    <2>2. committed \in Nat /\ committed - 1 \in heard /\ held - 1 \in heard
          /\ committed <= held
      BY <1>1, <2>1 DEF StreamInv, TypeOK, NoGap, NeverAhead, Upcoming, Publish
    <2>3. committed .. held - 1 \subseteq heard
      BY <2>1, <2>2 DEF StreamInv, NoGap
    <2>4. committed .. held \subseteq heard'
      <3>1. SUFFICES ASSUME NEW o \in committed .. held
                     PROVE  o \in heard'
        OBVIOUS
      <3>2. o = held \/ o \in committed .. held - 1
        BY <1>1, <2>2, <3>1
      <3>3. QED
        BY <2>3, <3>2 DEF Publish
    <2>5. \A h \in heard' : committed .. h \subseteq heard'
      BY <2>1, <2>4 DEF StreamInv, NoGap, Publish
    <2>6. QED
      BY <2>2, <2>5 DEF NoGap, Publish
  <1>5. NeverAhead'
    BY <1>1 DEF StreamInv, NeverAhead, Upcoming, Publish
  <1>6. QED
    BY <1>2, <1>3, <1>4, <1>5 DEF StreamInv

LEMMA CommitKeeps ==
  ASSUME StreamInv, Commit
  PROVE  StreamInv'
  <1> USE DEF None, Offsets, NextOffset
  <1>1. Len(topic) \in Nat /\ held \in Nat /\ position = held + 1 /\ heard \subseteq Nat
        /\ held < Len(topic)
    BY LenIsNat DEF StreamInv, TypeOK, Commit
  <1>2. held \in heard /\ Upcoming' = held + 1 /\ position' = held + 1
    BY <1>1 DEF StreamInv, NeverAhead, Upcoming, Commit
  <1>3. committed' = committed \/ committed' = held + 1
    BY DEF Commit
  <1>4. TypeOK'
    BY <1>1, <1>3 DEF StreamInv, TypeOK, Commit
  <1>5. FreshWhileUnsettled'
    <2>1. SUFFICES ASSUME committed' = None, NEW h \in heard
                   PROVE  h < held + 1
      BY <1>2 DEF FreshWhileUnsettled, Commit
    <2>2. committed = None
      BY <1>1, <1>3, <2>1
    <2>3. h < held \/ h = held
      BY <1>1, <2>2, <2>1 DEF StreamInv, FreshWhileUnsettled, Upcoming, Commit
    <2>4. QED
      BY <1>1, <2>3, <2>1
  <1>6. NoGap'
    <2>1. CASE committed' = committed
      BY <2>1 DEF StreamInv, NoGap, Commit
    <2>2. CASE committed' = held + 1
      <3>1. committed' - 1 \in heard'
        BY <1>1, <1>2, <2>2 DEF Commit
      <3>2. ASSUME NEW h \in heard, NEW o \in held + 1 .. h
            PROVE  o \in heard
        <4>1. h \in Nat /\ o \in Nat /\ held < o /\ o <= h
          BY <1>1, <3>2
        <4>2. CASE committed = None
          BY <1>1, <4>1, <4>2 DEF StreamInv, FreshWhileUnsettled, Upcoming, Commit
        <4>3. CASE committed # None
          <5>1. committed \in Nat /\ committed <= held
            BY <1>1, <4>3 DEF StreamInv, TypeOK, NeverAhead, Upcoming, Commit
          <5>2. o \in committed .. h
            BY <1>1, <4>1, <5>1
          <5>3. QED
            BY <4>3, <5>2 DEF StreamInv, NoGap
        <4>4. QED
          BY <4>2, <4>3
      <3>3. heard' = heard
        BY DEF Commit
      <3>4. QED
        BY <3>1, <3>2, <3>3, <2>2 DEF NoGap
    <2>3. QED
      BY <1>3, <2>1, <2>2
  <1>7. NeverAhead'
    BY <1>1, <1>2, <1>3 DEF StreamInv, TypeOK, NeverAhead, Upcoming, Commit
  <1>8. QED
    BY <1>4, <1>5, <1>6, <1>7 DEF StreamInv

LEMMA StopKeeps ==
  ASSUME StreamInv, Stop
  PROVE  StreamInv'
  <1> USE DEF None, Offsets
  <1>1. TypeOK'
    <2>1. Len(topic) \in Nat /\ held' = None /\ position' = None /\ sent' = FALSE
      BY LenIsNat DEF StreamInv, Stop
    <2>2. topic' = topic /\ committed' = committed /\ heard' = heard /\ stops' \in Nat
      BY DEF StreamInv, TypeOK, Stop
    <2>3. QED
      BY <2>1, <2>2 DEF StreamInv, TypeOK
  <1>2. FreshWhileUnsettled' /\ NoGap' /\ NeverAhead'
    BY DEF StreamInv, FreshWhileUnsettled, NoGap, NeverAhead, Upcoming, Stop
  <1>3. QED
    BY <1>1, <1>2 DEF StreamInv

LEMMA StutterKeeps ==
  ASSUME StreamInv, UNCHANGED vars
  PROVE  StreamInv'
  BY DEF StreamInv, TypeOK, FreshWhileUnsettled, NoGap, NeverAhead, Upcoming, Offsets, vars

LEMMA NextKeeps == StreamInv /\ [Next]_vars => StreamInv'
  <1>1. SUFFICES ASSUME StreamInv, [Next]_vars
                 PROVE  StreamInv'
    OBVIOUS
  <1>2. CASE \E k \in Records : Produce(k)
    BY <1>1, <1>2, ProduceKeeps
  <1>3. CASE Join
    BY <1>1, <1>3, JoinKeeps
  <1>4. CASE Poll
    BY <1>1, <1>4, PollKeeps
  <1>5. CASE Publish
    BY <1>1, <1>5, PublishKeeps
  <1>6. CASE Commit
    BY <1>1, <1>6, CommitKeeps
  <1>7. CASE Stop
    BY <1>1, <1>7, StopKeeps
  <1>8. CASE UNCHANGED vars
    BY <1>1, <1>8, StutterKeeps
  <1>9. QED
    BY <1>1, <1>2, <1>3, <1>4, <1>5, <1>6, <1>7, <1>8 DEF Next, Loop

(* Whatever is lost or repeated, what is published is an unbroken run from *)
(* the committed offset on (ws_fanout/src/main.py:41-58).                  *)
THEOREM StreamInvariant == Spec => []StreamInv
BY InitStreamInv, NextKeeps, PTL DEF Spec

-----------------------------------------------------------------------------
(* Every step is one of RecordStream or changes nothing of it.             *)
LEMMA StepOfStream ==
  ASSUME StreamInv, StreamInv', [Next]_vars
  PROVE  [Stream!Next]_(Stream!vars)
  <1> USE DEF None, Offsets, Stream!Next, Stream!vars
  <1>1. Len(topic) \in Nat
    BY LenIsNat DEF StreamInv
  <1>2. CASE \E k \in Records : Produce(k)
    <2>1. PICK k \in Records : Produce(k)
      BY <1>2
    <2>2. Len(topic') = Len(topic) + 1
      BY <2>1, AppendProperties DEF StreamInv, TypeOK, Produce
    <2>3. Stream!Produce
      BY <2>1, <2>2 DEF Produce, Stream!Produce
    <2>4. QED
      BY <2>3
  <1>3. CASE Join
    BY <1>3 DEF Join
  <1>4. CASE Poll
    BY <1>4 DEF Poll, ManualCommit
  <1>5. CASE Publish
    <2>1. held \in 0 .. Len(topic) - 1
      BY <1>1, <1>5 DEF StreamInv, TypeOK, Publish
    <2>2. CASE held \in heard
      BY <1>5, <2>2 DEF Publish
    <2>3. CASE held \notin heard
      <3>1. /\ \A h \in heard : h < held
            /\ committed # None => held - 1 \in heard
        BY <1>5, <2>3, PublishesNext
      <3>2. Stream!Publish(held)
        BY <1>5, <3>1 DEF Publish, Stream!Publish
      <3>3. QED
        BY <2>1, <3>2
    <2>4. QED
      BY <2>2, <2>3
  <1>6. CASE Commit
    <2>1. held \in Nat /\ held \in heard
      BY <1>1, <1>6 DEF StreamInv, TypeOK, NeverAhead, Commit
    <2>2. CASE committed' # None
      <3>1. CASE committed # None
        BY <1>6, <2>2, <3>1 DEF Commit
      <3>2. CASE committed = None
        BY <1>6, <2>1, <2>2, <3>2 DEF Commit, Stream!Settle
      <3>3. QED
        BY <3>1, <3>2
    <2>3. CASE committed' = None
      <3>1. committed = None
        BY <1>6, <2>1, <2>3 DEF Commit, NextOffset
      <3>2. QED
        BY <1>6, <2>3, <3>1 DEF Commit
    <2>4. QED
      BY <2>2, <2>3
  <1>7. CASE Stop
    BY <1>7 DEF Stop
  <1>8. CASE UNCHANGED vars
    BY <1>8 DEF vars
  <1>9. QED
    BY <1>2, <1>3, <1>4, <1>5, <1>6, <1>7, <1>8 DEF Next, Loop

(* ws-fanout publishes the records of a partition in order and leaves none *)
(* out once it has committed an offset, although it publishes before it    *)
(* commits, may stop anywhere and may lose a commit.                       *)
THEOREM FanOutKeepsStream == Spec => StreamKept
  <1>1. Init => Stream!Init
    BY DEF Init, Stream!Init, None
  <1>2. QED
    BY <1>1, StreamInvariant, StepOfStream, PTL DEF Spec, StreamKept, Stream!Spec
=============================================================================
