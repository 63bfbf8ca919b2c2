------------------------ MODULE ChatAdmissionProofs ------------------------
(***************************************************************************)
(* Proofs about ChatAdmission for any requests, subjects and attempts, any *)
(* number of slots and any mixture of stream versions.                     *)
(***************************************************************************)
EXTENDS ChatAdmission, FiniteSetTheorems, TLAPS

(***************************************************************************)
(* An attempt owns its request from the claim it was granted until its     *)
(* release or its completion commits. It may lose the request before, but  *)
(* then the row is settled; it is never free. Until the model is called,   *)
(* and in a release, the request is unpaid.                                *)
(***************************************************************************)
Unpaid(a) ==
    \/ call[a] \in {"claimed", "release"}
    \/ pc[a] \in {"limits", "gate", "created", "queued"}

Owns(a) == Unpaid(a) \/ pc[a] = "generating" \/ call[a] = "complete"

OneOwner ==
    \A a, b \in Attempt : Owns(a) /\ Owns(b) /\ RequestOf[a] = RequestOf[b] => a = b

OwnedIsTaken ==
    \A a \in Attempt :
        /\ Owns(a) => row[RequestOf[a]] # "free"
        /\ Unpaid(a) => paid[RequestOf[a]] = 0

\* From its claim to the end of its generation an attempt asks nothing of the
\* store, and one that waits for a slot will use it.
Admitting ==
    \A a \in Attempt :
        /\ pc[a] \in {"limits", "gate", "created", "queued", "generating"} => call[a] = "none"
        /\ pc[a] = "gate" => mode[a] = "v1"
        /\ pc[a] = "queued" => mode[a] = "v2"

IInv == /\ TypeOK /\ OneOwner /\ OwnedIsTaken /\ PaidOnce
        /\ RenewedWhileWorking /\ Admitting /\ SlotsConserved

\* While no UUID is sent twice, an attempt admitted for a subject is the one
\* the subject is held for.
Distinct == \A a, b \in Attempt : RequestOf[a] = RequestOf[b] => a = b

HeldWhileWorking ==
    \A a \in Attempt :
        /\ pc[a] = "claiming" \/ Admission(a) => holder[Subj(a)] = RequestOf[a]
        /\ pc[a] = "new" => holder[Subj(a)] # RequestOf[a]

-----------------------------------------------------------------------------
(* Types. That no slot is given back twice is not a matter of types: the   *)
(* upper bound of free follows from SlotsConserved.                        *)

PcType   == {"new", "over"} \cup HandlerPc \cup JobPc
RowState == {"free", "pending", "answered", "interrupted"}

Shape ==
    /\ pc \in [Attempt -> PcType]
    /\ call \in [Attempt -> Call]
    /\ row \in [Request -> RowState]
    /\ holder \in [Subject -> Request \cup {Nothing}]
    /\ holderTask \in [Subject -> Task \cup {Nothing}]
    /\ leases \in [Request -> Task \cup {Nothing}]
    /\ jobs \in [Request -> Task \cup {Nothing}]
    /\ phase \in {"serving", "draining", "interrupting", "closed"}
    /\ awaited \subseteq Attempt
    /\ paid \in [Request -> Nat]
    /\ \A a \in Attempt : mode[a] \in Modes[a]

LEMMA TypeIsShape == TypeOK <=> Shape /\ free \in 0..Slots
BY DEF TypeOK, Shape, PcType, RowState

LEMMA Names ==
    ASSUME NEW a \in Attempt
    PROVE  /\ RequestOf[a] \in Request /\ Subj(a) \in Subject
           /\ Handler(a) \in Task /\ Job(a) \in Task
BY AdmissionAssumption DEF Subj, Handler, Job, Task

LEMMA HandlerShape ==
    ASSUME Shape, UNCHANGED mode, NEW a \in Attempt,
           Arrive(a) \/ ArriveBusy(a) \/ CancelHandler(a) \/ HandlerStep(a)
    PROVE  Shape'
<1> USE Names DEF Shape, PcType, HandlerPc, JobPc, Call, Goes, Submits, subjects
<1>1. CASE Arrive(a)
    BY <1>1 DEF Arrive
<1>2. CASE ArriveBusy(a)
    BY <1>2 DEF ArriveBusy
<1>3. CASE CancelHandler(a)
    BY <1>3 DEF CancelHandler, StopsRenewal
<1>4. CASE Claimed(a)
    BY <1>4 DEF Claimed
<1>5. CASE NotClaimed(a)
    BY <1>5 DEF NotClaimed, FreesSubject
<1>6. CASE StreamEnds(a)
    BY <1>6 DEF StreamEnds
<1>7. CASE Admitted(a)
    BY <1>7 DEF Admitted, StartsJob
<1>8. CASE SlotForHandler(a)
    BY <1>8 DEF SlotForHandler, StartsJob
<1>9. CASE Refused(a)
    BY <1>9 DEF Refused
<1>10. CASE HandlerReleased(a)
    BY <1>10 DEF HandlerReleased, StopsRenewal, FreesSubject
<1>11. CASE HandlerForgotten(a)
    BY <1>11 DEF HandlerForgotten, StopsRenewal, FreesSubject
<1> QED BY <1>1, <1>2, <1>3, <1>4, <1>5, <1>6, <1>7, <1>8, <1>9, <1>10, <1>11 DEF HandlerStep

LEMMA JobShape ==
    ASSUME Shape, UNCHANGED mode, NEW a \in Attempt, JobStep(a)
    PROVE  Shape'
<1> USE Names DEF Shape, PcType, HandlerPc, JobPc, Call, Goes, Submits, subjects
<1>1. CASE JobStarts(a)
    BY <1>1 DEF JobStarts, Generates
<1>2. CASE SlotForJob(a)
    BY <1>2 DEF SlotForJob, Generates
<1>3. CASE JobBusy(a)
    BY <1>3 DEF JobBusy
<1>4. CASE JobReleased(a)
    BY <1>4 DEF JobReleased, StopsRenewal
<1>5. CASE GenerationEnds(a)
    BY <1>5 DEF GenerationEnds
<1>6. CASE JobCompleted(a)
    BY <1>6 DEF JobCompleted, StopsRenewal
<1>7. CASE ForgetJob(a)
    BY <1>7 DEF ForgetJob, StopsRenewal, FreesSubject
<1> QED BY <1>1, <1>2, <1>3, <1>4, <1>5, <1>6, <1>7 DEF JobStep

LEMMA StoreShape ==
    ASSUME Shape, UNCHANGED mode, NEW a \in Attempt, StoreStep(a)
    PROVE  Shape'
<1> USE Names DEF Shape, RowState, Call, Submits, subjects, Commits
<1>1. CASE CallFails(a)
    BY <1>1 DEF CallFails
<1>2. CASE ClaimCommits(a)
    BY <1>2 DEF ClaimCommits
<1>3. CASE ReleaseCommits(a)
    BY <1>3 DEF ReleaseCommits
<1>4. CASE CompleteCommits(a)
    BY <1>4 DEF CompleteCommits
<1>5. CASE CompleteRejected(a)
    BY <1>5 DEF CompleteRejected
<1> QED BY <1>1, <1>2, <1>3, <1>4, <1>5 DEF StoreStep

Process == Drain \/ DrainTimesOut \/ DrainCancels \/ DrainEnds \/ Restart

LEMMA ProcessShape ==
    ASSUME Shape, UNCHANGED mode, Process \/ \E r \in Request : Interrupt(r)
    PROVE  Shape'
<1> USE DEF Shape, PcType, RowState, HandlerPc, JobPc, subjects
<1>1. CASE \E r \in Request : Interrupt(r)
    BY <1>1 DEF Interrupt
<1>2. CASE Drain
    BY <1>2 DEF Drain
<1>3. CASE DrainTimesOut
    BY <1>3 DEF DrainTimesOut
<1>4. CASE DrainCancels
    BY <1>4 DEF DrainCancels
<1>5. CASE DrainEnds
    BY <1>5 DEF DrainEnds
<1>6. CASE Restart
    BY <1>6 DEF Restart
<1> QED BY <1>1, <1>2, <1>3, <1>4, <1>5, <1>6 DEF Process

-----------------------------------------------------------------------------
(* Owners. Most steps are calm: nobody comes to own a request, nothing is  *)
(* paid and no entry is freed.                                             *)

Calm ==
    /\ \A a \in Attempt : (Owns(a)' => Owns(a)) /\ (Unpaid(a)' => Unpaid(a))
    /\ \A r \in Request : row'[r] = "free" => row[r] = "free"
    /\ UNCHANGED paid

OwnersInv == OneOwner /\ OwnedIsTaken /\ PaidOnce

LEMMA CalmKeeps == ASSUME IInv, Calm PROVE OwnersInv'
<1> USE Names DEF IInv, OwnersInv, Calm
<1>1. OneOwner'
    BY DEF OneOwner
<1>2. OwnedIsTaken'
    BY DEF OwnedIsTaken
<1>3. PaidOnce'
    BY DEF PaidOnce
<1> QED BY <1>1, <1>2, <1>3

LEMMA HandlerIsCalm ==
    ASSUME IInv, Shape', NEW a \in Attempt,
           Arrive(a) \/ ArriveBusy(a) \/ CancelHandler(a) \/ HandlerStep(a)
    PROVE  Calm
<1> USE TypeIsShape DEF IInv, Shape, Calm, Owns, Unpaid, Goes, Submits
<1>1. CASE Arrive(a) \/ ArriveBusy(a)
    BY <1>1 DEF Arrive, ArriveBusy
<1>2. CASE CancelHandler(a)
    BY <1>2 DEF CancelHandler
<1>3. CASE Claimed(a)
    BY <1>3 DEF Claimed
<1>4. CASE NotClaimed(a)
    BY <1>4 DEF NotClaimed
<1>5. CASE StreamEnds(a)
    BY <1>5 DEF StreamEnds
<1>6. CASE Admitted(a)
    BY <1>6 DEF Admitted, StartsJob
<1>7. CASE SlotForHandler(a)
    BY <1>7 DEF SlotForHandler, StartsJob
<1>8. CASE Refused(a)
    BY <1>8 DEF Refused
<1>9. CASE HandlerReleased(a) \/ HandlerForgotten(a)
    BY <1>9 DEF HandlerReleased, HandlerForgotten
<1> QED BY <1>1, <1>2, <1>3, <1>4, <1>5, <1>6, <1>7, <1>8, <1>9 DEF HandlerStep

\* The steps of a job other than the one that calls the model.
LEMMA JobIsCalm ==
    ASSUME IInv, Shape', NEW a \in Attempt,
           JobStep(a), ~JobStarts(a), ~SlotForJob(a)
    PROVE  Calm
<1> USE TypeIsShape DEF IInv, Shape, Calm, Owns, Unpaid, Goes, Submits
<1>1. CASE JobBusy(a) \/ JobReleased(a)
    BY <1>1 DEF JobBusy, JobReleased
<1>2. CASE GenerationEnds(a)
    BY <1>2 DEF GenerationEnds
<1>3. CASE JobCompleted(a) \/ ForgetJob(a)
    BY <1>3 DEF JobCompleted, ForgetJob
<1> QED BY <1>1, <1>2, <1>3 DEF JobStep

\* A call of the model is made by the owner of an unpaid request.
LEMMA GenerationKeepsOwners ==
    ASSUME IInv, Shape', UNCHANGED mode, NEW a \in Attempt, JobStarts(a) \/ SlotForJob(a)
    PROVE  OwnersInv'
<1> USE Names, TypeIsShape DEF IInv, Shape
<1>1. /\ Unpaid(a) /\ paid[RequestOf[a]] = 0 /\ row[RequestOf[a]] # "free"
      /\ paid' \in {paid, [paid EXCEPT ![RequestOf[a]] = 1]}
      /\ UNCHANGED <<row, call>> /\ call[a] = "none" /\ pc' = [pc EXCEPT ![a] = "generating"]
    BY DEF JobStarts, SlotForJob, Generates, Goes, OwnedIsTaken, Owns, Unpaid, Admitting
<1>2. \A b \in Attempt : (Owns(b)' => Owns(b)) /\ (Unpaid(b)' => Unpaid(b))
    BY <1>1 DEF Owns, Unpaid
<1>3. OneOwner'
    BY <1>2 DEF OneOwner
<1>4. OwnedIsTaken'
    <2>1. ASSUME NEW b \in Attempt, Unpaid(b)' PROVE paid'[RequestOf[b]] = 0
        <3>1. a # b
            BY <2>1, <1>1 DEF Unpaid
        <3> QED BY <2>1, <3>1, <1>1, <1>2 DEF OwnedIsTaken, OneOwner, Owns
    <2> QED BY <2>1, <1>1, <1>2 DEF OwnedIsTaken
<1>5. PaidOnce'
    BY <1>1 DEF PaidOnce
<1> QED BY <1>3, <1>4, <1>5 DEF OwnersInv

\* A claim that commits finds the entry free, hence without an owner and
\* unpaid; a release that commits is made by the only owner of an unpaid one.
LEMMA StoreKeepsOwners ==
    ASSUME IInv, Shape', NEW a \in Attempt, StoreStep(a)
    PROVE  OwnersInv'
<1> USE Names, TypeIsShape DEF IInv, Shape
<1>1. CASE CallFails(a) \/ CompleteCommits(a) \/ CompleteRejected(a)
    <2>1. Calm
        BY <1>1 DEF Calm, Owns, Unpaid, Submits, CallFails, CompleteCommits, CompleteRejected,
                    Commits
    <2> QED BY <2>1, CalmKeeps
<1>2. CASE ClaimCommits(a)
    <2>1. CASE call'[a] # "claimed"
        <3>1. Calm
            BY <1>2, <2>1 DEF Calm, Owns, Unpaid, Submits, ClaimCommits, Commits
        <3> QED BY <3>1, CalmKeeps
    <2>2. CASE call'[a] = "claimed"
        <3>1. /\ row[RequestOf[a]] = "free" /\ row' = [row EXCEPT ![RequestOf[a]] = "pending"]
              /\ call' = [call EXCEPT ![a] = "claimed"] /\ UNCHANGED <<pc, paid>>
            BY <1>2, <2>2 DEF Submits, ClaimCommits, Commits
        <3>2. \A b \in Attempt : RequestOf[b] = RequestOf[a] => ~Owns(b)
            BY <3>1 DEF OwnedIsTaken
        <3>3. \A b \in Attempt \ {a} : (Owns(b)' => Owns(b)) /\ (Unpaid(b)' => Unpaid(b))
            BY <3>1 DEF Owns, Unpaid
        <3>4. OneOwner'
            BY <3>2, <3>3 DEF OneOwner
        <3>5. paid[RequestOf[a]] = 0
            BY <3>1 DEF PaidOnce
        <3>6. OwnedIsTaken' /\ PaidOnce'
            BY <3>1, <3>3, <3>5 DEF OwnedIsTaken, PaidOnce
        <3> QED BY <3>4, <3>6 DEF OwnersInv
    <2> QED BY <2>1, <2>2
<1>3. CASE ReleaseCommits(a)
    <2>1. /\ Unpaid(a) /\ Owns(a) /\ call' \in {[call EXCEPT ![a] = c] : c \in {"done", "failed"}}
          /\ \E e \in RowState : row' = [row EXCEPT ![RequestOf[a]] = e]
          /\ UNCHANGED <<pc, paid>>
        BY <1>3 DEF ReleaseCommits, Commits, Submits, Unpaid, Owns, RowState
    <2>2. \A b \in Attempt : (Owns(b)' => Owns(b)) /\ (Unpaid(b)' => Unpaid(b))
        BY <2>1 DEF Owns, Unpaid
    <2>3. ~Owns(a)'
        BY <1>3, <2>1 DEF ReleaseCommits, Commits, Owns, Unpaid, Admitting
    <2>4. OneOwner'
        BY <2>2 DEF OneOwner
    <2>5. OwnedIsTaken'
        BY <2>1, <2>2, <2>3 DEF OwnedIsTaken, OneOwner
    <2>6. PaidOnce'
        BY <2>1 DEF PaidOnce, OwnedIsTaken
    <2> QED BY <2>4, <2>5, <2>6 DEF OwnersInv
<1> QED BY <1>1, <1>2, <1>3 DEF StoreStep

LEMMA ProcessIsCalm ==
    ASSUME IInv, Shape', Process \/ \E r \in Request : Interrupt(r)
    PROVE  Calm
<1> USE TypeIsShape DEF IInv, Shape, Calm, Owns, Unpaid, subjects
<1>1. CASE \E r \in Request : Interrupt(r)
    BY <1>1 DEF Interrupt
<1>2. CASE Drain \/ DrainEnds
    BY <1>2 DEF Drain, DrainEnds
<1>3. CASE DrainTimesOut
    BY <1>3 DEF DrainTimesOut
<1>4. CASE DrainCancels \/ Restart
    BY <1>4 DEF DrainCancels, Restart
<1> QED BY <1>1, <1>2, <1>3, <1>4 DEF Process

LEMMA OwnersKept == ASSUME IInv, Shape', Next PROVE OwnersInv'
<1> USE DEF Next
<1>1. ASSUME NEW a \in Attempt,
             Arrive(a) \/ ArriveBusy(a) \/ CancelHandler(a) \/ HandlerStep(a)
      PROVE  OwnersInv'
    BY <1>1, HandlerIsCalm, CalmKeeps
<1>2. ASSUME NEW a \in Attempt, JobStep(a)
      PROVE  OwnersInv'
    BY <1>2, JobIsCalm, CalmKeeps, GenerationKeepsOwners
<1>3. ASSUME NEW a \in Attempt, StoreStep(a)
      PROVE  OwnersInv'
    BY <1>3, StoreKeepsOwners
<1>4. CASE Process \/ \E r \in Request : Interrupt(r)
    BY <1>4, ProcessIsCalm, CalmKeeps
<1> QED BY <1>1, <1>2, <1>3, <1>4 DEF Step, Process

-----------------------------------------------------------------------------
(* The renewed lease.                                                      *)

\* The steps that touch a lease entry while its owner works are the owner's.
LEMMA HandlerKeepsLeases ==
    ASSUME IInv, Shape', NEW a \in Attempt,
           Arrive(a) \/ ArriveBusy(a) \/ CancelHandler(a) \/ HandlerStep(a)
    PROVE  RenewedWhileWorking'
<1> USE Names, TypeIsShape DEF IInv, Shape, RenewedWhileWorking, TaskOf, Handler, Job, JobPc,
        Goes, Submits
<1>1. CASE Arrive(a) \/ ArriveBusy(a)
    BY <1>1 DEF Arrive, ArriveBusy
<1>2. CASE CancelHandler(a)
    BY <1>2 DEF CancelHandler, StopsRenewal
<1>3. CASE Claimed(a)
    BY <1>3 DEF Claimed, OneOwner, Owns, Unpaid
<1>4. CASE NotClaimed(a) \/ StreamEnds(a) \/ Refused(a)
    BY <1>4 DEF NotClaimed, StreamEnds, Refused
<1>5. CASE Admitted(a)
    BY <1>5 DEF Admitted, StartsJob, OneOwner, Owns, Unpaid
<1>6. CASE SlotForHandler(a)
    BY <1>6 DEF SlotForHandler, StartsJob, OneOwner, Owns, Unpaid
<1>7. CASE HandlerReleased(a) \/ HandlerForgotten(a)
    BY <1>7 DEF HandlerReleased, HandlerForgotten, StopsRenewal
<1> QED BY <1>1, <1>2, <1>3, <1>4, <1>5, <1>6, <1>7 DEF HandlerStep

LEMMA JobKeepsLeases ==
    ASSUME IInv, Shape', NEW a \in Attempt, JobStep(a) \/ StoreStep(a)
    PROVE  RenewedWhileWorking'
<1> USE Names, TypeIsShape DEF IInv, Shape, RenewedWhileWorking, TaskOf, Handler, Job, JobPc,
        Goes, Submits
<1>1. CASE JobStarts(a) \/ SlotForJob(a) \/ JobBusy(a) \/ GenerationEnds(a)
    BY <1>1 DEF JobStarts, SlotForJob, JobBusy, GenerationEnds
<1>2. CASE JobReleased(a) \/ JobCompleted(a) \/ ForgetJob(a)
    BY <1>2 DEF JobReleased, JobCompleted, ForgetJob, StopsRenewal
<1>3. CASE StoreStep(a)
    BY <1>3 DEF StoreStep, CallFails, ClaimCommits, ReleaseCommits, CompleteCommits,
                CompleteRejected, Commits
<1> QED BY <1>1, <1>2, <1>3 DEF JobStep

LEMMA ProcessKeepsLeases ==
    ASSUME IInv, Shape', Process \/ \E r \in Request : Interrupt(r)
    PROVE  RenewedWhileWorking'
<1> USE TypeIsShape DEF IInv, Shape, RenewedWhileWorking, TaskOf, JobPc
<1>1. CASE Drain \/ DrainTimesOut \/ DrainEnds \/ \E r \in Request : Interrupt(r)
    BY <1>1 DEF Drain, DrainTimesOut, DrainEnds, Interrupt, subjects, Handler, Job
<1>2. CASE DrainCancels
    BY <1>2 DEF DrainCancels, Handler, Job
<1>3. CASE Restart
    BY <1>3 DEF Restart
<1> QED BY <1>1, <1>2, <1>3 DEF Process

LEMMA AdmittingKept == ASSUME IInv, Shape', Next PROVE Admitting'
<1> USE Names, TypeIsShape DEF IInv, Shape, Admitting, Goes, Submits, Next
<1>1. ASSUME NEW a \in Attempt, Arrive(a) \/ ArriveBusy(a) \/ CancelHandler(a)
      PROVE  Admitting'
    BY <1>1 DEF Arrive, ArriveBusy, CancelHandler
<1>2. ASSUME NEW a \in Attempt, HandlerStep(a)
      PROVE  Admitting'
    <2>1. CASE Claimed(a) \/ NotClaimed(a) \/ StreamEnds(a) \/ Refused(a)
        BY <2>1 DEF Claimed, NotClaimed, StreamEnds, Refused
    <2>2. CASE Admitted(a) \/ SlotForHandler(a)
        BY <2>2 DEF Admitted, SlotForHandler, StartsJob
    <2>3. CASE HandlerReleased(a) \/ HandlerForgotten(a)
        BY <2>3 DEF HandlerReleased, HandlerForgotten
    <2> QED BY <1>2, <2>1, <2>2, <2>3 DEF HandlerStep
<1>3. ASSUME NEW a \in Attempt, JobStep(a)
      PROVE  Admitting'
    BY <1>3 DEF JobStep, JobStarts, SlotForJob, JobBusy, JobReleased, GenerationEnds,
                JobCompleted, ForgetJob
<1>4. ASSUME NEW a \in Attempt, StoreStep(a)
      PROVE  Admitting'
    BY <1>4 DEF StoreStep, CallFails, ClaimCommits, ReleaseCommits, CompleteCommits,
                CompleteRejected, Commits
<1>5. CASE Process \/ \E r \in Request : Interrupt(r)
    BY <1>5 DEF Process, Drain, DrainTimesOut, DrainCancels, DrainEnds, Restart, Interrupt
<1> QED BY <1>1, <1>2, <1>3, <1>4, <1>5 DEF Step, Process

-----------------------------------------------------------------------------
(* Slots.                                                                  *)

Users == {a \in Attempt : Reserved(a)}

LEMMA UsersAreFinite == IsFiniteSet(Users) /\ Cardinality(Users) \in Nat
BY AdmissionAssumption, FS_Subset, FS_CardinalityType DEF Users

LEMMA SubsetAndRest ==
    ASSUME NEW S, IsFiniteSet(S), NEW T \in SUBSET S
    PROVE  Cardinality(S) = Cardinality(T) + Cardinality(S \ T)
<1>1. /\ IsFiniteSet(T) /\ Cardinality(T) \in Nat
      /\ IsFiniteSet(S \ T) /\ Cardinality(S \ T) \in Nat
    BY FS_Subset, FS_CardinalityType
<1>2. T \cup (S \ T) = S /\ T \cap (S \ T) = {}
    OBVIOUS
<1>3. Cardinality(T \cup (S \ T)) = Cardinality(T) + Cardinality(S \ T) - Cardinality({})
    BY <1>1, <1>2, FS_Union
<1>4. Cardinality({}) = 0
    BY FS_EmptySet
<1> QED BY <1>1, <1>2, <1>3, <1>4

LEMMA SameUsers ==
    ASSUME IInv, UNCHANGED free, \A a \in Attempt : Reserved(a)' <=> Reserved(a)
    PROVE  SlotsConserved'
<1>1. {a \in Attempt : Reserved(a)'} = {a \in Attempt : Reserved(a)}
    OBVIOUS
<1> QED BY <1>1 DEF IInv, SlotsConserved

LEMMA SlotTaken ==
    ASSUME IInv, NEW a \in Attempt, free > 0, free' = free - 1, ~Reserved(a), Reserved(a)',
           \A b \in Attempt \ {a} : Reserved(b)' <=> Reserved(b)
    PROVE  SlotsConserved'
<1>1. {b \in Attempt : Reserved(b)'} = Users \cup {a}
    BY DEF Users
<1>2. Cardinality(Users \cup {a}) = Cardinality(Users) + 1
    BY UsersAreFinite, FS_AddElement DEF Users
<1>3. free \in Nat /\ free + Cardinality(Users) = Slots
    BY DEF IInv, TypeOK, SlotsConserved, Users
<1>4. free' + (Cardinality(Users) + 1) = Slots
    BY <1>3, UsersAreFinite
<1> QED BY <1>1, <1>2, <1>4 DEF SlotsConserved

LEMMA SlotGivenBack ==
    ASSUME IInv, NEW a \in Attempt, free' = free + 1, Reserved(a), ~Reserved(a)',
           \A b \in Attempt \ {a} : Reserved(b)' <=> Reserved(b)
    PROVE  SlotsConserved'
<1>1. {b \in Attempt : Reserved(b)'} = Users \ {a}
    BY DEF Users
<1>2. Cardinality(Users \ {a}) = Cardinality(Users) - 1
    BY UsersAreFinite, FS_RemoveElement DEF Users
<1>3. free \in Nat /\ free + Cardinality(Users) = Slots
    BY DEF IInv, TypeOK, SlotsConserved, Users
<1> QED BY <1>1, <1>2, <1>3, UsersAreFinite DEF SlotsConserved

LEMMA HandlerKeepsSlots ==
    ASSUME IInv, Shape', UNCHANGED mode, NEW a \in Attempt,
           Arrive(a) \/ ArriveBusy(a) \/ CancelHandler(a) \/ HandlerStep(a)
    PROVE  SlotsConserved'
<1> USE TypeIsShape DEF IInv, Shape, Goes
<1>1. CASE Arrive(a) \/ ArriveBusy(a) \/ CancelHandler(a)
    BY <1>1, SameUsers DEF Arrive, ArriveBusy, CancelHandler, Reserved
<1>2. CASE Claimed(a) \/ NotClaimed(a) \/ StreamEnds(a) \/ Refused(a)
    BY <1>2, SameUsers DEF Claimed, NotClaimed, StreamEnds, Refused, Reserved
<1>3. CASE Admitted(a)
    BY <1>3, SameUsers DEF Admitted, StartsJob, Reserved
<1>4. CASE SlotForHandler(a)
    <2>1. /\ ~Reserved(a) /\ Reserved(a)'
          /\ \A b \in Attempt \ {a} : Reserved(b)' <=> Reserved(b)
        BY <1>4 DEF SlotForHandler, StartsJob, Reserved, Admitting
    <2> QED BY <1>4, <2>1, SlotTaken DEF SlotForHandler
<1>5. CASE HandlerReleased(a) \/ HandlerForgotten(a)
    BY <1>5, SameUsers DEF HandlerReleased, HandlerForgotten, Reserved
<1> QED BY <1>1, <1>2, <1>3, <1>4, <1>5 DEF HandlerStep

LEMMA JobKeepsSlots ==
    ASSUME IInv, Shape', UNCHANGED mode, NEW a \in Attempt, JobStep(a) \/ StoreStep(a)
    PROVE  SlotsConserved'
<1> USE TypeIsShape DEF IInv, Shape, Goes
<1>1. CASE JobStarts(a) \/ JobBusy(a) \/ JobReleased(a) \/ GenerationEnds(a) \/ ForgetJob(a)
    BY <1>1, SameUsers
    DEF JobStarts, JobBusy, JobReleased, GenerationEnds, ForgetJob, Reserved
<1>2. CASE SlotForJob(a)
    <2>1. /\ ~Reserved(a) /\ Reserved(a)'
          /\ \A b \in Attempt \ {a} : Reserved(b)' <=> Reserved(b)
        BY <1>2 DEF SlotForJob, Reserved, Admitting
    <2> QED BY <1>2, <2>1, SlotTaken DEF SlotForJob
<1>3. CASE JobCompleted(a)
    <2>1. ~Reserved(a)' /\ \A b \in Attempt \ {a} : Reserved(b)' <=> Reserved(b)
        BY <1>3 DEF JobCompleted, Reserved
    <2>2. CASE Reserved(a)
        BY <1>3, <2>1, <2>2, SlotGivenBack DEF JobCompleted, GivesSlotBack
    <2>3. CASE ~Reserved(a)
        BY <1>3, <2>1, <2>3, SameUsers DEF JobCompleted, GivesSlotBack
    <2> QED BY <2>2, <2>3
<1>4. CASE StoreStep(a)
    BY <1>4, SameUsers DEF StoreStep, CallFails, ClaimCommits, ReleaseCommits, CompleteCommits,
                           CompleteRejected, Commits, Reserved
<1> QED BY <1>1, <1>2, <1>3, <1>4 DEF JobStep

\* A shutdown gives back the slots of the jobs it cancels; a new process has all.
LEMMA ProcessKeepsSlots ==
    ASSUME IInv, Shape', UNCHANGED mode, Process \/ \E r \in Request : Interrupt(r)
    PROVE  SlotsConserved'
<1> USE TypeIsShape DEF IInv, Shape
<1>1. CASE Drain \/ DrainTimesOut \/ DrainEnds \/ \E r \in Request : Interrupt(r)
    BY <1>1, SameUsers DEF Drain, DrainTimesOut, DrainEnds, Interrupt, Reserved
<1>2. CASE DrainCancels
    <2> DEFINE Freed == {a \in awaited : Reserved(a)}
    <2>1. Freed \subseteq Users /\ {a \in Attempt : Reserved(a)'} = Users \ Freed
        BY <1>2 DEF DrainCancels, Users, Reserved, Working, JobPc
    <2>2. IsFiniteSet(Freed) /\ Cardinality(Freed) \in Nat
        BY <2>1, UsersAreFinite, FS_Subset, FS_CardinalityType
    <2>3. IsFiniteSet(Users \ Freed) /\ Cardinality(Users \ Freed) \in Nat
        BY UsersAreFinite, FS_Subset, FS_CardinalityType
    <2>4. Cardinality(Users) = Cardinality(Freed) + Cardinality(Users \ Freed)
        BY <2>1, UsersAreFinite, SubsetAndRest
    <2>5. free' = free + Cardinality(Freed)
        BY <1>2 DEF DrainCancels
    <2>6. free \in Nat /\ free + Cardinality(Users) = Slots
        BY DEF SlotsConserved, Users
    <2> HIDE DEF Freed
    <2>7. free' + Cardinality(Users \ Freed) = Slots
        BY <2>2, <2>3, <2>4, <2>5, <2>6
    <2> QED BY <2>1, <2>7 DEF SlotsConserved
<1>3. CASE Restart
    <2>1. {a \in Attempt : Reserved(a)'} = {}
        BY <1>3 DEF Restart, Reserved
    <2>2. Cardinality({a \in Attempt : Reserved(a)'}) = 0
        BY <2>1, FS_EmptySet
    <2>3. free' = Slots /\ Slots + 0 = Slots
        BY <1>3, AdmissionAssumption DEF Restart
    <2> QED BY <2>2, <2>3 DEF SlotsConserved
<1> QED BY <1>1, <1>2, <1>3 DEF Process

\* Slots that are conserved bound the semaphore.
LEMMA FreeIsBounded == ASSUME Shape', SlotsConserved', free' \in Nat PROVE TypeOK'
<1> DEFINE Later == {a \in Attempt : Reserved(a)'}
<1>1. Cardinality(Later) \in Nat
    BY AdmissionAssumption, FS_Subset, FS_CardinalityType
<1>2. free' + Cardinality(Later) = Slots
    BY DEF SlotsConserved
<1>3. free' \in 0..Slots
    BY <1>1, <1>2, AdmissionAssumption
<1> QED BY <1>3 DEF TypeOK, Shape, PcType, RowState

LEMMA FreeIsNatural == ASSUME IInv, Next PROVE free' \in Nat
<1> USE TypeIsShape DEF IInv, subjects
<1>1. CASE UNCHANGED free
    BY <1>1
<1>2. ASSUME NEW a \in Attempt, SlotForHandler(a) \/ SlotForJob(a)
      PROVE  free' \in Nat
    BY <1>2 DEF SlotForHandler, SlotForJob
<1>3. ASSUME NEW a \in Attempt, JobCompleted(a)
      PROVE  free' \in Nat
    BY <1>3 DEF JobCompleted, GivesSlotBack
<1>4. CASE DrainCancels
    <2>1. {a \in awaited : Reserved(a)} \in SUBSET Attempt
        BY DEF Shape
    <2> QED BY <1>4, <2>1, AdmissionAssumption, FS_Subset, FS_CardinalityType DEF DrainCancels
<1>5. CASE Restart
    BY <1>5, AdmissionAssumption DEF Restart
<1>6. ASSUME NEW a \in Attempt,
             Arrive(a) \/ ArriveBusy(a) \/ CancelHandler(a) \/ HandlerStep(a), ~SlotForHandler(a)
      PROVE  UNCHANGED free
    BY <1>6 DEF HandlerStep, Arrive, ArriveBusy, CancelHandler, Claimed, NotClaimed, StreamEnds,
                Admitted, Refused, HandlerReleased, HandlerForgotten
<1>7. ASSUME NEW a \in Attempt, JobStep(a), ~SlotForJob(a), ~JobCompleted(a)
      PROVE  UNCHANGED free
    BY <1>7 DEF JobStep, JobStarts, JobBusy, JobReleased, GenerationEnds, ForgetJob
<1>8. ASSUME NEW a \in Attempt, StoreStep(a)
      PROVE  UNCHANGED free
    BY <1>8 DEF StoreStep, CallFails, ClaimCommits, ReleaseCommits, CompleteCommits,
                CompleteRejected, Commits
<1>9. CASE Drain \/ DrainTimesOut \/ DrainEnds \/ \E r \in Request : Interrupt(r)
    BY <1>9 DEF Drain, DrainTimesOut, DrainEnds, Interrupt
<1> QED BY <1>1, <1>2, <1>3, <1>4, <1>5, <1>6, <1>7, <1>8, <1>9 DEF Next, Step

LEMMA ShapeKept == ASSUME Shape, Next PROVE Shape'
BY HandlerShape, JobShape, StoreShape, ProcessShape DEF Next, Step, Process

-----------------------------------------------------------------------------
(* The inductive invariant.                                                *)

LEMMA StepKeepsInvariant == ASSUME IInv, Next PROVE IInv'
<1> USE DEF Next
<1>1. Shape'
    BY ShapeKept, TypeIsShape DEF IInv
<1>2. OwnersInv' /\ Admitting'
    BY <1>1, OwnersKept, AdmittingKept
<1>3. RenewedWhileWorking' /\ SlotsConserved'
    <2>1. ASSUME NEW a \in Attempt,
                 Arrive(a) \/ ArriveBusy(a) \/ CancelHandler(a) \/ HandlerStep(a)
          PROVE  RenewedWhileWorking' /\ SlotsConserved'
        BY <1>1, <2>1, HandlerKeepsLeases, HandlerKeepsSlots
    <2>2. ASSUME NEW a \in Attempt, JobStep(a) \/ StoreStep(a)
          PROVE  RenewedWhileWorking' /\ SlotsConserved'
        BY <1>1, <2>2, JobKeepsLeases, JobKeepsSlots
    <2>3. CASE Process \/ \E r \in Request : Interrupt(r)
        BY <1>1, <2>3, ProcessKeepsLeases, ProcessKeepsSlots
    <2> QED BY <2>1, <2>2, <2>3 DEF Step, Process
<1>4. TypeOK'
    BY <1>1, <1>3, FreeIsNatural, FreeIsBounded
<1> QED BY <1>2, <1>3, <1>4 DEF IInv, OwnersInv

LEMMA StutterKeepsInvariant == ASSUME IInv, UNCHANGED <<vars, mode>> PROVE IInv'
<1> USE DEF IInv, vars
<1>1. TypeOK'
    BY DEF TypeOK
<1>2. OneOwner' /\ OwnedIsTaken' /\ PaidOnce' /\ Admitting'
    BY DEF OneOwner, OwnedIsTaken, PaidOnce, Admitting, Owns, Unpaid
<1>3. RenewedWhileWorking'
    BY DEF RenewedWhileWorking, TaskOf, Handler, Job
<1>4. SlotsConserved'
    BY SameUsers DEF Reserved
<1> QED BY <1>1, <1>2, <1>3, <1>4

LEMMA InitIsInvariant == Init => IInv
<1> SUFFICES ASSUME Init PROVE IInv
    OBVIOUS
<1>1. TypeOK
    BY AdmissionAssumption DEF Init, TypeOK, Call
<1>2. OneOwner /\ OwnedIsTaken /\ PaidOnce /\ Admitting /\ RenewedWhileWorking
    BY AdmissionAssumption
    DEF Init, OneOwner, OwnedIsTaken, PaidOnce, Admitting, RenewedWhileWorking, Owns, Unpaid
<1>3. SlotsConserved
    <2>1. {a \in Attempt : Reserved(a)} = {}
        BY DEF Init, Reserved
    <2>2. Cardinality({a \in Attempt : Reserved(a)}) = 0
        BY <2>1, FS_EmptySet
    <2> QED BY <2>2, AdmissionAssumption DEF Init, SlotsConserved
<1> QED BY <1>1, <1>2, <1>3 DEF IInv

\* The inductive invariant: types, one unpaid owner of each claimed request,
\* the lease renewed by the task that works, slots conserved.
THEOREM Invariance == Spec => []IInv
<1>1. IInv /\ [Next]_<<vars, mode>> => IInv'
    BY StepKeepsInvariant, StutterKeepsInvariant
<1> QED BY <1>1, InitIsInvariant, PTL DEF Spec

\* The tables of the process and of the store keep their types, and the
\* semaphore stays within the number of slots.
THEOREM TypeCorrect == Spec => []TypeOK
<1>1. IInv => TypeOK
    BY DEF IInv
<1> QED BY <1>1, Invariance, PTL

\* No interleaving of attempts, reconnects, cancellations, lost answers and
\* restarts pays twice for a UUID, and a paid UUID is not released.
THEOREM NeverPaidTwice == Spec => []PaidOnce
<1>1. IInv => PaidOnce
    BY DEF IInv
<1> QED BY <1>1, Invariance, PTL

\* No path, neither a refusal nor a cancellation nor a shutdown, loses or
\* doubles a generation slot.
THEOREM SlotsAreConserved == Spec => []SlotsConserved
<1>1. IInv => SlotsConserved
    BY DEF IInv
<1> QED BY <1>1, Invariance, PTL

\* The task that works for a claim is the one whose life renews its lease.
THEOREM WorkersRenew == Spec => []RenewedWhileWorking
<1>1. IInv => RenewedWhileWorking
    BY DEF IInv
<1> QED BY <1>1, Invariance, PTL

-----------------------------------------------------------------------------
(* One subject, one model request: for subjects that send each UUID once.  *)
(* With a reconnect it does not hold, see the README.                      *)

LEMMA HandlerKeepsHolder ==
    ASSUME IInv, Shape', Distinct, HeldWhileWorking, NEW a \in Attempt,
           Arrive(a) \/ ArriveBusy(a) \/ CancelHandler(a) \/ HandlerStep(a)
    PROVE  HeldWhileWorking'
<1> USE Names, TypeIsShape
    DEF IInv, Shape, Distinct, HeldWhileWorking, Admission, Goes, Submits, subjects, Subj
<1>1. CASE Arrive(a)
    <2>1. /\ pc' = [pc EXCEPT ![a] = "claiming"]
          /\ holder[Subj(a)] \in {Nothing, RequestOf[a]}
          /\ holder' = [holder EXCEPT ![Subj(a)] = RequestOf[a]]
        BY <1>1 DEF Arrive
    <2> SUFFICES ASSUME NEW b \in Attempt, b # a
                 PROVE  /\ pc[b] = "claiming" \/ Admission(b) => holder'[Subj(b)] = RequestOf[b]
                        /\ pc[b] = "new" => holder'[Subj(b)] # RequestOf[b]
        BY <2>1
    <2>2. RequestOf[b] # RequestOf[a] /\ RequestOf[b] # Nothing
        BY AdmissionAssumption
    <2>3. CASE SubjectOf[RequestOf[b]] = SubjectOf[RequestOf[a]]
        BY <2>1, <2>2, <2>3
    <2>4. CASE SubjectOf[RequestOf[b]] # SubjectOf[RequestOf[a]]
        BY <2>1, <2>4
    <2> QED BY <2>3, <2>4
<1>2. CASE ArriveBusy(a)
    BY <1>2 DEF ArriveBusy
<1>3. CASE CancelHandler(a)
    BY <1>3 DEF CancelHandler
<1>4. CASE Claimed(a)
    BY <1>4 DEF Claimed
<1>5. CASE NotClaimed(a)
    BY <1>5, AdmissionAssumption DEF NotClaimed, FreesSubject
<1>6. CASE StreamEnds(a) \/ Refused(a)
    BY <1>6 DEF StreamEnds, Refused
<1>7. CASE Admitted(a) \/ SlotForHandler(a)
    BY <1>7 DEF Admitted, SlotForHandler, StartsJob
<1>8. CASE HandlerReleased(a) \/ HandlerForgotten(a)
    BY <1>8, AdmissionAssumption DEF HandlerReleased, HandlerForgotten, FreesSubject
<1> QED BY <1>1, <1>2, <1>3, <1>4, <1>5, <1>6, <1>7, <1>8 DEF HandlerStep

LEMMA JobKeepsHolder ==
    ASSUME IInv, Shape', Distinct, HeldWhileWorking, NEW a \in Attempt,
           JobStep(a) \/ StoreStep(a)
    PROVE  HeldWhileWorking'
<1> USE Names, TypeIsShape
    DEF IInv, Shape, Distinct, HeldWhileWorking, Admission, Goes, Submits, subjects, Subj
<1>1. CASE JobStarts(a) \/ SlotForJob(a) \/ JobBusy(a) \/ JobReleased(a)
    BY <1>1 DEF JobStarts, SlotForJob, JobBusy, JobReleased
<1>2. CASE GenerationEnds(a) \/ JobCompleted(a)
    BY <1>2 DEF GenerationEnds, JobCompleted
<1>3. CASE ForgetJob(a)
    BY <1>3, AdmissionAssumption DEF ForgetJob, FreesSubject
<1>4. CASE StoreStep(a)
    BY <1>4 DEF StoreStep, CallFails, ClaimCommits, ReleaseCommits, CompleteCommits,
                CompleteRejected, Commits
<1> QED BY <1>1, <1>2, <1>3, <1>4 DEF JobStep

LEMMA ProcessKeepsHolder ==
    ASSUME IInv, Shape', HeldWhileWorking, Process \/ \E r \in Request : Interrupt(r)
    PROVE  HeldWhileWorking'
<1> USE Names, TypeIsShape DEF IInv, Shape, HeldWhileWorking, Admission, subjects, Subj
<1>1. CASE Drain \/ DrainTimesOut \/ DrainEnds \/ \E r \in Request : Interrupt(r)
    BY <1>1 DEF Drain, DrainTimesOut, DrainEnds, Interrupt
<1>2. CASE DrainCancels
    BY <1>2 DEF DrainCancels
<1>3. CASE Restart
    BY <1>3, AdmissionAssumption DEF Restart
<1> QED BY <1>1, <1>2, <1>3 DEF Process

\* A subject whose UUIDs are each sent once has at most one model request at
\* work, whatever is cancelled, refused or lost.
THEOREM OneRequestAtWork == ASSUME Distinct PROVE Spec => []SubjectExclusive
<1>1. Init => HeldWhileWorking
    BY AdmissionAssumption DEF Init, HeldWhileWorking, Admission, Subj
<1>2. IInv /\ HeldWhileWorking /\ [Next]_<<vars, mode>> => HeldWhileWorking'
    <2> SUFFICES ASSUME IInv, HeldWhileWorking, [Next]_<<vars, mode>>
                 PROVE  HeldWhileWorking'
        OBVIOUS
    <2>1. CASE Next
        <3>1. Shape'
            BY <2>1, ShapeKept, TypeIsShape DEF IInv
        <3> QED BY <2>1, <3>1, HandlerKeepsHolder, JobKeepsHolder, ProcessKeepsHolder
                DEF Next, Step, Process
    <2>2. CASE UNCHANGED <<vars, mode>>
        BY <2>2 DEF vars, HeldWhileWorking, Admission, subjects, Subj
    <2> QED BY <2>1, <2>2
<1>3. HeldWhileWorking => SubjectExclusive
    BY DEF HeldWhileWorking, SubjectExclusive, Distinct, Subj
<1> QED BY <1>1, <1>2, <1>3, Invariance, PTL DEF Spec

-----------------------------------------------------------------------------
(* The ledger of requests is respected.                                    *)

\* What the ledger holds for request r.
Entry(r) ==
    [state    |-> CASE row[r] = "free" -> "free"
                    [] row[r] = "pending" -> "pending"
                    [] OTHER -> "settled",
     shown    |-> <<>>,
     response |-> CASE row[r] = "answered" -> [kind |-> "answer", blocks |-> <<>>]
                    [] row[r] = "interrupted" -> [kind |-> "interrupted", blocks |-> <<>>]
                    [] OTHER -> [kind |-> "none", blocks |-> <<>>]]

\* Entries are opened, freed and settled, and settled ones only forgotten.
RowMove(e, f) ==
    \/ e = f
    \/ e = "free" /\ f = "pending"
    \/ e = "pending" /\ f \in {"free", "answered", "interrupted"}

LEMMA RowsMove == ASSUME Shape, Step, NEW r \in Request PROVE RowMove(row[r], row'[r])
<1> USE Names DEF Shape, RowMove
<1>1. ASSUME NEW a \in Attempt, StoreStep(a)
      PROVE  RowMove(row[r], row'[r])
    BY <1>1 DEF StoreStep, CallFails, ClaimCommits, ReleaseCommits, CompleteCommits,
                CompleteRejected, Commits
<1>2. ASSUME NEW a \in Attempt,
             Arrive(a) \/ ArriveBusy(a) \/ CancelHandler(a) \/ HandlerStep(a)
      PROVE  UNCHANGED row
    BY <1>2 DEF HandlerStep, Arrive, ArriveBusy, CancelHandler, Claimed, NotClaimed, StreamEnds,
                Admitted, SlotForHandler, Refused, HandlerReleased, HandlerForgotten
<1>3. ASSUME NEW a \in Attempt, JobStep(a)
      PROVE  UNCHANGED row
    BY <1>3 DEF JobStep, JobStarts, SlotForJob, JobBusy, JobReleased, GenerationEnds,
                JobCompleted, ForgetJob
<1>4. ASSUME NEW q \in Request, Interrupt(q)
      PROVE  RowMove(row[r], row'[r])
    BY <1>4 DEF Interrupt
<1>5. CASE DrainTimesOut
    BY <1>5 DEF DrainTimesOut
<1>6. CASE Drain \/ DrainCancels \/ DrainEnds \/ Restart
    BY <1>6 DEF Drain, DrainCancels, DrainEnds, Restart
<1> QED BY <1>1, <1>2, <1>3, <1>4, <1>5, <1>6 DEF Step

\* Without blocks there is one sequence of them.
LEMMA NoBlocks ==
    /\ <<>> \in Store!BlockSeq
    /\ \A response \in {Store!Answer(<<>>), Store!Interrupted} :
          response \in Store!OwnerResponse \cup {Store!Interrupted} /\ Store!Keeps(response, <<>>)
<1>1. <<>> \in Store!BlockSeq
    BY DEF Store!BlockSeq
<1>2. Store!Extends(<<>>, <<>>)
    BY DEF Store!Extends
<1> QED BY <1>1, <1>2
        DEF Store!OwnerResponse, Store!Answer, Store!Interrupted, Store!Keeps

LEMMA EntryMoves ==
    ASSUME NEW r \in Request, RowMove(row[r], row'[r])
    PROVE  Store!Move(Entry(r), Entry(r)')
<1>1. CASE row[r] = row'[r]
    BY <1>1 DEF Store!Move, Entry
<1>2. CASE row'[r] = "pending"
    <2>1. Entry(r)' = Store!Pending(<<>>)
        BY <1>2 DEF Entry, Store!Pending, Store!NoResponse
    <2> QED BY <2>1 DEF Store!Move, Store!Opens
<1>3. CASE row'[r] = "free"
    <2>1. Entry(r)' = Store!Free
        BY <1>3 DEF Entry, Store!Free, Store!NoResponse
    <2> QED BY <2>1 DEF Store!Move, Store!Forgets
<1>4. CASE row[r] = "pending" /\ row'[r] \in {"answered", "interrupted"}
    <2>1. Entry(r).state = "pending" /\ Entry(r).shown = <<>>
        BY <1>4 DEF Entry
    <2>2. \E response \in {Store!Answer(<<>>), Store!Interrupted} :
             Entry(r)' = Store!Settled(<<>>, response)
        BY <1>4 DEF Entry, Store!Settled, Store!Answer, Store!Interrupted
    <2> QED BY <2>1, <2>2, NoBlocks DEF Store!Move, Store!Settles
<1> QED BY <1>1, <1>2, <1>3, <1>4 DEF RowMove

\* Every step asks of the request store a move that the abstract ledger
\* offers, for each entry, or leaves it alone.
THEOREM Implementation == Spec => RespectsStore
<1>1. Init => Store!Init
    <2> SUFFICES ASSUME Init PROVE Store!Init
        OBVIOUS
    <2>1. \A r \in Request : Entry(r) = Store!Free
        BY DEF Init, Entry, Store!Free, Store!NoResponse
    <2> QED BY <2>1 DEF Store!Init, Entry
<1>2. IInv /\ [Next]_<<vars, mode>> => [Store!Next]_([r \in Request |-> Entry(r)])
    <2> SUFFICES ASSUME IInv, Next PROVE Store!Next
        <3>1. UNCHANGED <<vars, mode>> => UNCHANGED [r \in Request |-> Entry(r)]
            BY DEF vars, Entry
        <3> QED BY <3>1
    <2>1. \A r \in Request : Store!Move(Entry(r), Entry(r)')
        BY RowsMove, EntryMoves, TypeIsShape DEF IInv, Next
    <2> QED BY <2>1 DEF Store!Next, Entry
<1> QED BY <1>1, <1>2, Invariance, PTL DEF Spec, RespectsStore, Store!Spec, Entry

=============================================================================
