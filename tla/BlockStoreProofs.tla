-------------------------- MODULE BlockStoreProofs --------------------------
(***************************************************************************)
(* What TLAPS proves of BlockStore, for every set of requests and keys and  *)
(* every bound on versions: what the version check protects, and that an    *)
(* answer "success" and a notice are about stored writes.                   *)
(***************************************************************************)
EXTENDS BlockStore, TLAPS

USE DEF storage

-----------------------------------------------------------------------------
(* Types. *)

\* A freshly started server has the types.
LEMMA InitType == Init => TypeOK
BY BoundAssumption DEF Init, TypeOK, Storage!Init, Storage!TypeOK

\* What is stored under a key is a version.
LEMMA VersionType == ASSUME TypeOK, NEW r \in Request PROVE NewVersion(r) \in Nat
BY BoundAssumption DEF TypeOK, Want, NewVersion

\* Every step of a request keeps the types.
LEMMA StepType == TypeOK /\ [Next]_vars => TypeOK'
<1> SUFFICES ASSUME TypeOK, [Next]_vars PROVE TypeOK'
  OBVIOUS
<1>1. CASE UNCHANGED vars
  BY <1>1 DEF vars, TypeOK, Storage!TypeOK
<1>2. ASSUME NEW r \in Request, Refuse(r) PROVE TypeOK'
  BY <1>2 DEF Refuse, TypeOK, Storage!TypeOK
<1>3. ASSUME NEW r \in Request, Accept(r) PROVE TypeOK'
  BY <1>3 DEF Accept, TypeOK, Storage!TypeOK, Storage!Submit
<1>4. ASSUME NEW r \in Request, Stored(r) PROVE TypeOK'
  <2>1. Storage!TypeOK'
    BY <1>4 DEF Stored, TypeOK, Storage!TypeOK, Storage!Commit
  <2>2. db' \in [Key -> Nat]
    BY <1>4, VersionType DEF Stored, TypeOK
  <2>3. QED
    BY <1>4, <2>1, <2>2 DEF Stored, TypeOK
<1>5. ASSUME NEW r \in Request, NotStored(r) PROVE TypeOK'
  BY <1>5 DEF NotStored, TypeOK, Storage!TypeOK, Storage!Reject
<1>6. ASSUME NEW r \in Request, Notify(r) PROVE TypeOK'
  BY <1>6 DEF Notify, TypeOK, Storage!TypeOK
<1>7. QED
  BY <1>1, <1>2, <1>3, <1>4, <1>5, <1>6 DEF Next, Step

\* The variables of the block server keep their types (TypeOK).
THEOREM TypeCorrect == Spec => []TypeOK
BY InitType, StepType, PTL DEF Spec

-----------------------------------------------------------------------------
(* The version check. *)

\* A request was checked before now.
BeganBefore == \A r \in Request : began[r] <= Len(committed)

\* UndisturbedCheckHolds needs to know that the entry a store appends to the
\* log is after the point at which each waiting request was checked.
CheckInv == TypeOK /\ BeganBefore /\ UndisturbedCheckHolds

\* A longer log has the entries it had.
LEMMA LogGrows ==
    ASSUME TypeOK, NEW r \in Request, Stored(r)
    PROVE  /\ Len(committed') = Len(committed) + 1
           /\ committed'[Len(committed) + 1] = r
           /\ \A i \in DOMAIN committed : i \in DOMAIN committed' /\ committed'[i] = committed[i]
           /\ Len(committed) + 1 \in DOMAIN committed'
BY DEF Stored, TypeOK, Storage!TypeOK, Storage!Commit

\* A step on another request that leaves log and versions alone changes
\* nothing for a request that waits.
LEMMA UndisturbedKept ==
    ASSUME CheckInv, NEW r \in Request, NEW s \in Request, s # r,
           Refuse(r) \/ Accept(r) \/ NotStored(r) \/ Notify(r),
           pc'[s] = "putting", want'[s].op = "write", ~Overtaken(s)'
    PROVE  VersionMatches(s)'
<1>1. UNCHANGED <<db, want, committed>> /\ pc'[s] = pc[s] /\ began'[s] = began[s]
  BY DEF Refuse, Accept, NotStored, Notify, CheckInv, TypeOK, Storage!Submit, Storage!Reject
<1>2. QED
  BY <1>1 DEF CheckInv, UndisturbedCheckHolds, Overtaken, VersionMatches

\* CheckInv is inductive.
LEMMA CheckStep == CheckInv /\ [Next]_vars => CheckInv'
<1> SUFFICES ASSUME CheckInv, [Next]_vars PROVE CheckInv'
  OBVIOUS
<1>t. TypeOK /\ TypeOK'
  BY StepType DEF CheckInv
<1>1. CASE UNCHANGED vars
  BY <1>1, <1>t DEF vars, CheckInv, BeganBefore, UndisturbedCheckHolds, Overtaken, VersionMatches
<1>2. BeganBefore'
  <2>1. CASE UNCHANGED vars
    BY <2>1 DEF vars, CheckInv, BeganBefore
  <2>2. ASSUME NEW r \in Request, Refuse(r) \/ NotStored(r) \/ Notify(r) PROVE BeganBefore'
    BY <2>2 DEF Refuse, NotStored, Notify, CheckInv, BeganBefore, Storage!Reject
  <2>3. ASSUME NEW r \in Request, Accept(r) PROVE BeganBefore'
    BY <2>3, <1>t DEF Accept, CheckInv, BeganBefore, TypeOK, Storage!TypeOK, Storage!Submit
  <2>4. ASSUME NEW r \in Request, Stored(r) PROVE BeganBefore'
    <3>1. UNCHANGED began /\ Len(committed') = Len(committed) + 1
      BY <2>4, <1>t, LogGrows DEF Stored
    <3>2. Len(committed) \in Nat
      BY <1>t DEF TypeOK, Storage!TypeOK
    <3>3. QED
      BY <3>1, <3>2, <1>t DEF CheckInv, BeganBefore, TypeOK
  <2>5. QED
    BY <2>1, <2>2, <2>3, <2>4 DEF Next, Step
<1>3. ASSUME NEW r \in Request, Step(r) PROVE UndisturbedCheckHolds'
  <2> SUFFICES ASSUME NEW s \in Request,
                      pc'[s] = "putting", want'[s].op = "write", ~Overtaken(s)'
               PROVE  VersionMatches(s)'
    BY DEF UndisturbedCheckHolds
  <2>1. CASE Refuse(r) \/ NotStored(r) \/ Notify(r)
    <3>1. s # r
      BY <2>1, <1>t DEF Refuse, NotStored, Notify, TypeOK
    <3>2. QED
      BY <2>1, <3>1, UndisturbedKept
  <2>2. CASE Accept(r)
    <3>1. CASE s = r
      BY <2>2, <3>1 DEF Accept, Passes, VersionMatches
    <3>2. CASE s # r
      BY <2>2, <3>2, UndisturbedKept
    <3>3. QED
      BY <3>1, <3>2
  <2>3. CASE Stored(r)
    <3>1. s # r /\ pc[s] = "putting" /\ UNCHANGED <<want, began>>
      BY <2>3, <1>t DEF Stored, TypeOK
    <3>2. want[r].key # want[s].key
      <4>1. Len(committed) + 1 > began[s]
        BY <1>t DEF CheckInv, BeganBefore, TypeOK, Storage!TypeOK
      <4>2. QED
        BY <2>3, <3>1, <4>1, <1>t, LogGrows DEF Overtaken
    <3>3. ~Overtaken(s)
      BY <2>3, <3>1, <1>t, LogGrows DEF Overtaken
    <3>4. VersionMatches(s)
      BY <3>1, <3>3 DEF CheckInv, UndisturbedCheckHolds
    <3>5. QED
      BY <2>3, <3>1, <3>2, <3>4, <1>t DEF Stored, VersionMatches, TypeOK
  <2>4. QED
    BY <1>3, <2>1, <2>2, <2>3 DEF Step
<1>4. QED
  BY <1>1, <1>2, <1>3, <1>t DEF Next, CheckInv

\* An upload that no other write to its key overtook after its check replaces
\* the version it names (UndisturbedCheckHolds): value_put's check protects
\* uploads that do not overlap, for any number of requests.
THEOREM CheckProtects == Spec => []UndisturbedCheckHolds
<1>1. Init => CheckInv
  <2>1. Init => BeganBefore /\ UndisturbedCheckHolds
    BY DEF Init, Storage!Init, BeganBefore, UndisturbedCheckHolds
  <2>2. QED
    BY <2>1, InitType DEF CheckInv
<1>2. CheckInv => UndisturbedCheckHolds
  BY DEF CheckInv
<1>3. QED
  BY <1>1, <1>2, CheckStep, PTL DEF Spec

-----------------------------------------------------------------------------
(* Answers and notices. *)

\* A notice is made for writes only, and after the log took them.
AnswerInv ==
    /\ TypeOK /\ SuccessIsStored
    /\ \A r \in Request : pc[r] = "notifying" => want[r].op = "write"

\* AnswerInv is inductive.
LEMMA AnswerStep == AnswerInv /\ [Next]_vars => AnswerInv'
<1> SUFFICES ASSUME AnswerInv, [Next]_vars PROVE AnswerInv'
  OBVIOUS
<1>t. TypeOK /\ TypeOK'
  BY StepType DEF AnswerInv
<1>1. CASE UNCHANGED vars
  BY <1>1, <1>t DEF vars, AnswerInv, SuccessIsStored
<1>2. ASSUME NEW r \in Request, Refuse(r) \/ Accept(r) \/ NotStored(r) PROVE AnswerInv'
  <2>1. UNCHANGED <<committed, want, notified>>
    BY <1>2 DEF Refuse, Accept, NotStored, Storage!Submit, Storage!Reject
  <2>2. /\ pc[r] \notin {"notifying", "ok"} /\ pc'[r] \notin {"notifying", "ok"}
        /\ \A s \in Request : s # r => pc'[s] = pc[s]
    BY <1>2, <1>t DEF Refuse, Accept, NotStored, TypeOK
  <2>3. QED
    BY <2>1, <2>2, <1>t DEF AnswerInv, SuccessIsStored
<1>3. ASSUME NEW r \in Request, Stored(r) PROVE AnswerInv'
  <2>1. /\ pc[r] = "putting" /\ UNCHANGED <<want, notified>>
        /\ \A s \in Request : s # r => pc'[s] = pc[s]
        /\ pc'[r] = IF want[r].op = "delete" THEN "ok" ELSE "notifying"
    BY <1>3, <1>t DEF Stored, TypeOK
  <2>2. \A s \in Request : pc'[s] \in {"notifying", "ok"}
            => \E i \in DOMAIN committed' : committed'[i] = s
    BY <2>1, <1>3, <1>t, LogGrows DEF AnswerInv, SuccessIsStored
  <2>3. \A s \in Request : s \in notified' => pc'[s] = "ok" /\ want'[s].op = "write"
    BY <2>1 DEF AnswerInv, SuccessIsStored
  <2>4. \A s \in Request : pc'[s] = "notifying" => want'[s].op = "write"
    BY <2>1, <1>t DEF AnswerInv, TypeOK, Want
  <2>5. QED
    BY <2>2, <2>3, <2>4, <1>t DEF AnswerInv, SuccessIsStored
<1>4. ASSUME NEW r \in Request, Notify(r) PROVE AnswerInv'
  <2>1. /\ pc[r] = "notifying" /\ UNCHANGED <<committed, want>>
        /\ \A s \in Request : pc'[s] = IF s = r THEN "ok" ELSE pc[s]
        /\ notified' \subseteq notified \cup {r}
    BY <1>4, <1>t DEF Notify, TypeOK
  <2>2. QED
    BY <2>1, <1>t DEF AnswerInv, SuccessIsStored
<1>5. QED
  BY <1>1, <1>2, <1>3, <1>4 DEF Next, Step

\* Clients are answered "success", and the metaserver is told, of writes that
\* are in the log (SuccessIsStored), for any number of requests and keys.
THEOREM SuccessTrue == Spec => []SuccessIsStored
<1>1. Init => AnswerInv
  <2>1. Init => SuccessIsStored /\ \A r \in Request : pc[r] # "notifying"
    BY DEF Init, SuccessIsStored
  <2>2. QED
    BY <2>1, InitType DEF AnswerInv
<1>2. AnswerInv => SuccessIsStored
  BY DEF AnswerInv
<1>3. QED
  BY <1>1, <1>2, AnswerStep, PTL DEF Spec

=============================================================================
