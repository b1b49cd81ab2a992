----------------------------- MODULE Requests_proofs -----------------------------
(***************************************************************************)
(* What a configuration request meets.  The guard, and the values of the   *)
(* deployments it admits, for every set of requests and of hostnames; the  *)
(* files its commands come from, for all applications, templates, addons   *)
(* and scripts that follow their schemas.                                  *)
(***************************************************************************)
EXTENDS Deployments, Library, SequenceTheorems, FiniteSetTheorems, WellFoundedInduction, TLAPS

----------------------------------------------------------------------------
(* The guard.                                                              *)

\* A key is the hostname of its request.
KeysFit == \A r \in Request : key[r] \in {host[r], Nobody}

\* Who is guarded has the entry of its hostname.
GuardedHaveEntry == \A r \in Request : Guarded(r) => active[key[r]] = r

\* An entry belongs to a guarded request, under its key.
EntriesAreGuarded ==
    \A h \in Hostname :
        active[h] # Nobody => Guarded(active[h]) /\ key[active[h]] = h

\* A restart has no key.
RestartsHaveNoKey == \A r \in Request : kind[r] = "restart" => key[r] = Nobody

\* A request gets its key when it is sent.
NoKeyBefore == \A r \in Request : phase[r] = "unsent" => key[r] = Nobody

IInv ==
    /\ TypeOK
    /\ KeysFit
    /\ GuardedHaveEntry
    /\ EntriesAreGuarded
    /\ RestartsHaveNoKey
    /\ NoKeyBefore

LEMMA InitEstablishes == Init => IInv
<1> SUFFICES ASSUME Init PROVE IInv
  OBVIOUS
<1>1. 0 \in 0 .. MaxReboots
  BY SizeAssumption
<1>2. TypeOK
  BY <1>1 DEF Init, TypeOK, Phases
<1> QED BY <1>2 DEF Init, IInv, KeysFit, GuardedHaveEntry, EntriesAreGuarded,
                    RestartsHaveNoKey, NoKeyBefore, Guarded, HeldPhases

(* A step of r that neither gives nor takes an entry. *)
LEMMA EntriesStay ==
    ASSUME IInv, NEW r \in Request, NEW p \in Phases,
           phase' = [phase EXCEPT ![r] = p], p # "unsent",
           p \in HeldPhases <=> phase[r] \in HeldPhases,
           UNCHANGED <<kind, host, key, active>>,
           rejected' \subseteq Request, accepted' \subseteq Request,
           reboots' \in 0 .. MaxReboots
    PROVE  IInv'
<1> USE DEF IInv
<1>1. TypeOK'
  BY DEF TypeOK
<1>2. \A s \in Request : Guarded(s)' <=> Guarded(s)
  BY DEF TypeOK, Guarded
<1>3. GuardedHaveEntry' /\ EntriesAreGuarded'
  BY <1>2 DEF GuardedHaveEntry, EntriesAreGuarded, TypeOK
<1>4. KeysFit' /\ RestartsHaveNoKey' /\ NoKeyBefore'
  BY DEF KeysFit, RestartsHaveNoKey, NoKeyBefore, TypeOK
<1> QED BY <1>1, <1>3, <1>4

(* A step of r that ends its work here and deletes the entry under its key. *)
LEMMA EntryGoes ==
    ASSUME IInv, NEW r \in Request, phase[r] \in HeldPhases,
           NEW p \in Phases \ HeldPhases, p # "unsent",
           phase' = [phase EXCEPT ![r] = p],
           active' = Released(r),
           UNCHANGED <<kind, host, key, rejected, reboots>>,
           accepted' \subseteq Request
    PROVE  IInv'
<1> USE DEF IInv
<1>1. TypeOK'
  BY DEF TypeOK, Released
<1>2. \A s \in Request \ {r} : Guarded(s)' <=> Guarded(s)
  BY DEF TypeOK, Guarded
<1>3. ~ Guarded(r)'
  BY DEF TypeOK, Guarded
<1>4. ASSUME NEW s \in Request, Guarded(s)'
      PROVE  active'[key'[s]] = s
  <2>1. s # r /\ Guarded(s)
    BY <1>2, <1>3, <1>4
  <2>2. active[key[s]] = s /\ key[s] \in Hostname
    BY <2>1 DEF GuardedHaveEntry, TypeOK, Guarded
  <2>3. key[s] # key[r]
    <3> SUFFICES ASSUME key[s] = key[r] PROVE FALSE
      OBVIOUS
    <3>1. Guarded(r)
      BY <2>1, RestartsHaveNoKey DEF Guarded, RestartsHaveNoKey
    <3> QED BY <3>1, <2>1, <2>2 DEF GuardedHaveEntry
  <2> QED BY <2>2, <2>3 DEF Released
<1>5. ASSUME NEW h \in Hostname, NEW s, s = active'[h], s # Nobody
      PROVE  s \in Request /\ Guarded(s)' /\ key'[s] = h
  <2>1. h # key[r] /\ s = active[h]
    BY <1>5 DEF Released
  <2>2. Guarded(s) /\ key[s] = h /\ s \in Request
    BY <2>1, <1>5 DEF EntriesAreGuarded, TypeOK
  <2> QED BY <1>2, <2>1, <2>2
<1>6. KeysFit' /\ RestartsHaveNoKey' /\ NoKeyBefore'
  BY DEF KeysFit, RestartsHaveNoKey, NoKeyBefore, TypeOK, HeldPhases
<1>7. GuardedHaveEntry'
  BY <1>4 DEF GuardedHaveEntry
<1>8. EntriesAreGuarded'
  BY <1>5 DEF EntriesAreGuarded, Guarded
<1> QED BY <1>1, <1>6, <1>7, <1>8

LEMMA AskKeeps ==
    ASSUME IInv, NEW r \in Request, Ask(r)
    PROVE  IInv'
<1> USE DEF IInv, Ask, Moves, answers, inputs
<1>1. key[r] = Nobody /\ ~ Guarded(r) /\ ~ Guarded(r)'
  BY DEF NoKeyBefore, Guarded, HeldPhases, TypeOK
<1>2. TypeOK'
  BY DEF TypeOK, Phases
<1>3. \A s \in Request \ {r} : /\ Guarded(s)' <=> Guarded(s)
                               /\ key'[s] = key[s]
  BY DEF TypeOK, Guarded
<1>4. GuardedHaveEntry'
  BY <1>1, <1>3 DEF GuardedHaveEntry
<1>5. EntriesAreGuarded'
  BY <1>1, <1>3 DEF EntriesAreGuarded, TypeOK
<1>6. KeysFit' /\ RestartsHaveNoKey' /\ NoKeyBefore'
  BY DEF KeysFit, RestartsHaveNoKey, NoKeyBefore, TypeOK
<1> QED BY <1>2, <1>4, <1>5, <1>6

LEMMA AcquireKeeps ==
    ASSUME IInv, NEW r \in Request, Acquire(r)
    PROVE  IInv'
<1> USE DEF IInv, Acquire, Moves, answers, inputs
<1>1. PICK p \in HeldPhases : phase' = [phase EXCEPT ![r] = p]
  BY DEF HeldPhases
<1>2. phase[r] = "asking" /\ ~ Guarded(r)
  BY DEF Guarded, HeldPhases
<1>3. TypeOK'
  BY <1>1 DEF TypeOK, Phases, HeldPhases
<1>4. \A s \in Request \ {r} : Guarded(s)' <=> Guarded(s)
  BY <1>1 DEF TypeOK, Guarded
<1>5. ASSUME NEW s \in Request, Guarded(s)'
      PROVE  active'[key'[s]] = s
  <2>1. key[s] \in Hostname
    BY <1>5 DEF Guarded, TypeOK
  <2>2. CASE s = r
    BY <2>1, <2>2
  <2>3. CASE s # r
    <3>1. active[key[s]] = s /\ s # Nobody
      BY <1>4, <1>5, <2>3, NamesAssumption DEF GuardedHaveEntry
    <3>2. key[s] # key[r]
      BY <3>1, <2>1, NamesAssumption
    <3> QED BY <2>1, <3>1, <3>2
  <2> QED BY <2>2, <2>3
<1>6. ASSUME NEW h \in Hostname, NEW s, s = active'[h], s # Nobody
      PROVE  s \in Request /\ Guarded(s)' /\ key'[s] = h
  <2>1. CASE h = key[r]
    <3>1. s = r /\ key[r] # Nobody
      BY <1>6, <2>1, NamesAssumption
    <3>2. kind[r] # "restart"
      BY <3>1 DEF RestartsHaveNoKey
    <3>3. phase'[r] \in HeldPhases
      BY <1>1 DEF TypeOK
    <3> QED BY <2>1, <3>1, <3>2, <3>3 DEF Guarded
  <2>2. CASE h # key[r]
    <3>1. s = active[h]
      BY <1>6, <2>2
    <3>2. Guarded(s) /\ key[s] = h /\ s \in Request
      BY <3>1, <1>6 DEF EntriesAreGuarded, TypeOK
    <3> QED BY <3>2, <1>2, <1>4
  <2> QED BY <2>1, <2>2
<1>7. KeysFit' /\ RestartsHaveNoKey' /\ NoKeyBefore'
  BY <1>1 DEF KeysFit, RestartsHaveNoKey, NoKeyBefore, TypeOK, HeldPhases
<1>8. GuardedHaveEntry'
  BY <1>5 DEF GuardedHaveEntry
<1>9. EntriesAreGuarded'
  BY <1>6 DEF EntriesAreGuarded, Guarded
<1> QED BY <1>3, <1>7, <1>8, <1>9

(* A step of r that has no key and touches no entry. *)
LEMMA KeylessKeeps ==
    ASSUME IInv, NEW r \in Request, key[r] = Nobody,
           NEW p \in Phases, phase' = [phase EXCEPT ![r] = p],
           UNCHANGED <<kind, host, key, active, rejected, reboots>>,
           accepted' \subseteq Request
    PROVE  IInv'
<1> USE DEF IInv
<1>1. TypeOK'
  BY DEF TypeOK
<1>2. \A s \in Request : Guarded(s)' <=> Guarded(s)
  BY DEF TypeOK, Guarded
<1>3. GuardedHaveEntry' /\ EntriesAreGuarded'
  BY <1>2 DEF GuardedHaveEntry, EntriesAreGuarded, TypeOK
<1>4. KeysFit' /\ RestartsHaveNoKey' /\ NoKeyBefore'
  BY DEF KeysFit, RestartsHaveNoKey, NoKeyBefore, TypeOK
<1> QED BY <1>1, <1>3, <1>4

LEMMA RebootKeeps ==
    ASSUME IInv, Reboot
    PROVE  IInv'
<1> USE DEF IInv, Reboot, answers
<1>1. TypeOK'
  <2>1. reboots' \in 0 .. MaxReboots
    BY SizeAssumption DEF TypeOK
  <2>2. phase' \in [Request -> Phases]
    BY DEF TypeOK, Phases
  <2> QED BY <2>1, <2>2 DEF TypeOK
<1>2. \A s \in Request : ~ Guarded(s)'
  BY DEF Guarded, HeldPhases
<1>3. GuardedHaveEntry' /\ EntriesAreGuarded'
  BY <1>2 DEF GuardedHaveEntry, EntriesAreGuarded
<1>4. KeysFit' /\ RestartsHaveNoKey' /\ NoKeyBefore'
  BY DEF KeysFit, RestartsHaveNoKey, NoKeyBefore
<1> QED BY <1>1, <1>3, <1>4

LEMMA NextKeeps == IInv /\ [Next]_vars => IInv'
<1> SUFFICES ASSUME IInv, [Next]_vars PROVE IInv'
  OBVIOUS
<1> USE DEF Moves, answers, inputs
<1>t. TypeOK
  BY DEF IInv
<1>1. ASSUME NEW r \in Request, Ask(r) PROVE IInv'
  BY <1>1, AskKeeps
<1>2. ASSUME NEW r \in Request, Restart(r) PROVE IInv'
  <2>1. key[r] = Nobody
    BY <1>2 DEF Restart, IInv, RestartsHaveNoKey
  <2> QED BY <1>2, <1>t, <2>1, KeylessKeeps DEF Restart, Phases, TypeOK
<1>3. ASSUME NEW r \in Request, Reject(r) PROVE IInv'
  BY <1>3, <1>t, EntriesStay DEF Reject, Phases, HeldPhases, TypeOK
<1>4. ASSUME NEW r \in Request, Acquire(r) PROVE IInv'
  BY <1>4, AcquireKeeps
<1>5. ASSUME NEW r \in Request, PrepareFails(r) PROVE IInv'
  BY <1>5, <1>t, EntryGoes DEF PrepareFails, Phases, HeldPhases, TypeOK
<1>6. ASSUME NEW r \in Request, Dispatch(r) PROVE IInv'
  BY <1>6, <1>t, EntriesStay DEF Dispatch, Phases, HeldPhases, TypeOK
<1>7. ASSUME NEW r \in Request, Settle(r) PROVE IInv'
  BY <1>7, <1>t, EntryGoes DEF Settle, Phases, HeldPhases, TypeOK
<1>8. ASSUME NEW r \in Request, CloneFails(r) PROVE IInv'
  <2>1. PICK p \in {"over", "at_clone"} : phase' = [phase EXCEPT ![r] = p]
    BY <1>8 DEF CloneFails
  <2> QED BY <1>8, <1>t, <2>1, EntryGoes DEF CloneFails, Phases, HeldPhases, TypeOK
<1>9. ASSUME NEW r \in Request, HandToClone(r) PROVE IInv'
  BY <1>9, <1>t, EntryGoes DEF HandToClone, Phases, HeldPhases, TypeOK
<1>10. ASSUME NEW r \in Request, CloneEnds(r) PROVE IInv'
  BY <1>10, <1>t, EntriesStay DEF CloneEnds, Phases, HeldPhases, TypeOK
<1>11. ASSUME NEW r \in Request, RestartEnds(r) PROVE IInv'
  <2>1. key[r] = Nobody
    BY <1>11 DEF RestartEnds, IInv, RestartsHaveNoKey
  <2> QED BY <1>11, <1>t, <2>1, KeylessKeeps DEF RestartEnds, Phases, TypeOK
<1>12. CASE Reboot
  BY <1>12, RebootKeeps
<1>13. CASE UNCHANGED vars
  BY <1>13 DEF vars, IInv, TypeOK, KeysFit, GuardedHaveEntry, EntriesAreGuarded,
               RestartsHaveNoKey, NoKeyBefore, Guarded
<1> QED BY <1>1, <1>2, <1>3, <1>4, <1>5, <1>6, <1>7, <1>8, <1>9, <1>10, <1>11,
           <1>12, <1>13 DEF Next, Proceed

\* The variables of HostnameGuard keep their types.
THEOREM TypeCorrect == Spec => []TypeOK
<1>1. IInv => TypeOK
  BY DEF IInv
<1> QED BY <1>1, InitEstablishes, NextKeeps, PTL DEF Spec

\* Of the configuration tasks with a known hostname the deployer carries at most
\* one per hostname, for every number of requests and restarts of the deployer.
THEOREM GuardExcludes == Spec => []OneAtATime
<1>1. IInv => OneAtATime
  <2> SUFFICES ASSUME IInv, NEW r \in Request, NEW s \in Request,
                      Guarded(r), Guarded(s), host[r] = host[s]
               PROVE  r = s
    BY DEF OneAtATime
  <2>1. key[r] = key[s]
    BY DEF IInv, KeysFit, Guarded
  <2> QED BY <2>1 DEF IInv, GuardedHaveEntry
<1> QED BY <1>1, InitEstablishes, NextKeeps, PTL DEF Spec

\* A request is rejected only while another task works on its hostname: the
\* guard of the deployer never holds an entry of a task that is over.
THEOREM RejectionsAreRight == Spec => NeverWronglyRejected
<1> DEFINE Right == \A r \in rejected' \ rejected :
                        \E s \in Request \ {r} : Guarded(s) /\ host[s] = host[r]
<1>1. IInv /\ [Next]_vars => [Right]_vars
  <2> SUFFICES ASSUME IInv, Next, NEW r \in rejected' \ rejected
               PROVE  \E s \in Request \ {r} : Guarded(s) /\ host[s] = host[r]
    OBVIOUS
  <2>1. r \in Request /\ Reject(r)
    BY DEF Next, Ask, Restart, Proceed, Reject, Acquire, PrepareFails, Dispatch, Settle,
           CloneFails, HandToClone, CloneEnds, RestartEnds, Reboot, answers
  <2>2. key[r] \in Hostname /\ key[r] = host[r] /\ active[key[r]] \in Request
    BY <2>1 DEF Reject, IInv, TypeOK, KeysFit
  <2>3. /\ Guarded(active[key[r]])
        /\ key[active[key[r]]] = key[r]
    BY <2>1, <2>2 DEF Reject, IInv, EntriesAreGuarded
  <2>4. active[key[r]] # r
    BY <2>1, <2>3 DEF Reject, Moves, Guarded, HeldPhases
  <2>5. host[active[key[r]]] = host[r]
    BY <2>2, <2>3, NamesAssumption DEF IInv, KeysFit
  <2> QED BY <2>2, <2>3, <2>4, <2>5
<1> QED BY <1>1, InitEstablishes, NextKeeps, PTL DEF Spec, NeverWronglyRejected

----------------------------------------------------------------------------
(* The deployments.                                                         *)

(* Reading and writing values is beside the guard.                           *)
LEMMA ValuesAreBeside == [DeploymentsNext]_all => [Next]_vars
<1>1. UNCHANGED all => UNCHANGED vars
  BY DEF all
<1>2. ASSUME DeploymentsNext PROVE [Next]_vars
  <2>1. ASSUME NEW r \in Request, Goes(r) PROVE Proceed(r) \/ UNCHANGED vars
    BY <2>1 DEF Goes, Proceed, ReadBaseline, Start, ToClone, End
  <2> QED BY <1>2, <2>1 DEF DeploymentsNext, Next, Again
<1> QED BY <1>1, <1>2

(* The deployments are admitted by the guard: whatever is read, sent and      *)
(* written beside it, HostnameGuard is implemented, and with it every         *)
(* property of its specification holds (webapp-ve-route-handlers.mts:484).    *)
THEOREM DeploymentsAreAdmitted == DeploymentsSpec => Spec
<1>1. DeploymentsInit => Init
  BY DEF DeploymentsInit
<1> QED BY <1>1, ValuesAreBeside, PTL DEF DeploymentsSpec, Spec

Lasting == Name \ (Transient \cup Upload)

\* The notes hold values that requests gave, of names that can be given again.
NotesAreGiven ==
    /\ notes = [h \in Hostname |-> notes[h]]
    /\ \A h \in Hostname :
          DOMAIN notes[h] \subseteq Lasting /\ \A n \in DOMAIN notes[h] : notes[h][n] \in Request

\* Who has read the notes and is still at it has read what is there.
BaseIsCurrent ==
    AllGuarded =>
        \A r \in Request :
            phase[r] \in {"preparing", "running"} /\ base[r] # {} => base[r] = {notes[host[r]]}

\* A run goes with what its task had read.
SentFromBase ==
    AllGuarded =>
        \A r \in Request : phase[r] = "running" /\ base[r] # {} => sent[r] = Inputs(r, base[r])

\* Only the deployer itself goes by way of a clone.
ClonesUpgrade == \A r \in Request : phase[r] \in {"cloning", "at_clone"} => kind[r] = "self_upgrade"

Tables ==
    /\ base = [r \in Request |-> base[r]] /\ sent = [r \in Request |-> sent[r]]
    /\ \A r \in Request : /\ DOMAIN sent[r] \subseteq Name
                          /\ phase[r] \in {"unsent", "asking"} => base[r] = {}

ValuesInv ==
    IInv /\ ClonesUpgrade /\ NotesAreGiven /\ BaseIsCurrent /\ SentFromBase /\ Tables

(* A snapshot holds no name that identifies a container, a run or a file.    *)
LEMMA SnapshotIsGiven ==
    ASSUME Tables, NEW r \in Request
    PROVE  /\ DOMAIN Snapshot(r) \subseteq Lasting
           /\ \A n \in DOMAIN Snapshot(r) : Snapshot(r)[n] \in Request
BY DEF Tables, Snapshot, Lasting

(* Reading the one snapshot there is gives that snapshot; merged, it keeps   *)
(* what the request does not give.                                           *)
LEMMA MergeKeeps ==
    ASSUME NEW r \in Request, NEW b, NEW n \in DOMAIN b \ Given[r]
    PROVE  n \in DOMAIN Merged(r, {b}) /\ Merged(r, {b})[n] = b[n]
<1>1. Read({b}) = b
  BY DEF Read
<1> QED BY <1>1 DEF Merged

(* A run that goes with what it read writes it back.                         *)
LEMMA SnapshotKeeps ==
    ASSUME NEW r \in Request, NEW b, sent[r] = Inputs(r, {b}), DOMAIN b \subseteq Lasting,
           \A n \in DOMAIN b : b[n] \in Request,
           NEW n \in DOMAIN b \ Given[r]
    PROVE  n \in DOMAIN Snapshot(r) /\ Snapshot(r)[n] = b[n]
<1>1. n \in DOMAIN Merged(r, {b}) /\ Merged(r, {b})[n] = b[n]
  BY MergeKeeps
<1>2. n \in Name /\ n \notin Transient \cup Upload
  BY DEF Lasting
<1>3. DOMAIN sent[r] = Name /\ sent[r][n] = <<b[n]>>
  BY <1>1, <1>2 DEF Inputs
<1>4. sent[r][n][1] \in Request /\ sent[r][n][1] = b[n]
  BY <1>3
<1> QED BY <1>2, <1>3, <1>4 DEF Snapshot

(* Who has not asked by name so far, never will have.                        *)
LEMMA GuardedBefore == ASSUME IInv, [Next]_vars, AllGuarded' PROVE AllGuarded
<1> SUFFICES ASSUME NEW s \in Request, phase[s] \notin {"unsent", "asking"}
             PROVE  kind[s] = "configuration" /\ key[s] # Nobody
  BY DEF AllGuarded
<1>1. kind' = kind
  BY DEF Next, Ask, Restart, Proceed, Reject, Acquire, PrepareFails, Dispatch, Settle,
         CloneFails, HandToClone, CloneEnds, RestartEnds, Reboot, inputs, vars
<1>2. phase'[s] \notin {"unsent", "asking"}
  BY DEF Next, Ask, Restart, Proceed, Reject, Acquire, PrepareFails, Dispatch, Settle,
         CloneFails, HandToClone, CloneEnds, RestartEnds, Reboot, vars, Moves, IInv, TypeOK
<1>3. key'[s] = key[s]
  BY DEF Next, Ask, Restart, Proceed, Reject, Acquire, PrepareFails, Dispatch, Settle,
         CloneFails, HandToClone, CloneEnds, RestartEnds, Reboot, vars, Moves, IInv, TypeOK
<1> QED BY <1>1, <1>2, <1>3 DEF AllGuarded

LEMMA ClonesStay == ASSUME IInv, ClonesUpgrade, [Next]_vars PROVE ClonesUpgrade'
<1>1. kind' = kind
  BY DEF Next, Ask, Restart, Proceed, Reject, Acquire, PrepareFails, Dispatch, Settle,
         CloneFails, HandToClone, CloneEnds, RestartEnds, Reboot, inputs, vars
<1>2. \A r \in Request : phase'[r] \in {"cloning", "at_clone"} =>
         phase[r] \in {"cloning", "at_clone"} \/ kind[r] = "self_upgrade"
  BY DEF Next, Ask, Restart, Proceed, Reject, Acquire, PrepareFails, Dispatch, Settle,
         CloneFails, HandToClone, CloneEnds, RestartEnds, Reboot, vars, Moves, IInv, TypeOK
<1> QED BY <1>1, <1>2 DEF ClonesUpgrade

(* While all are guarded, who replaces the notes of a hostname is alone.     *)
LEMMA WritersAreAlone ==
    ASSUME IInv, ClonesUpgrade, AllGuarded, NEW r \in Request, NEW s \in Request, End(s),
           phase[r] \in {"preparing", "running"}, host[r] = host[s]
    PROVE  r = s
<1>1. /\ kind[r] = "configuration" /\ key[r] # Nobody
      /\ kind[s] = "configuration" /\ key[s] # Nobody
  BY DEF AllGuarded, End, Settle, CloneEnds, RestartEnds, Moves
<1>2. phase[s] = "running"
  BY <1>1 DEF End, Settle, CloneEnds, RestartEnds, Moves, ClonesUpgrade
<1>3. Guarded(r) /\ Guarded(s)
  BY <1>1, <1>2 DEF Guarded, HeldPhases
<1>4. key[r] = key[s]
  BY <1>1 DEF IInv, KeysFit
<1> QED BY <1>3, <1>4 DEF IInv, GuardedHaveEntry

(* Only an end writes notes, those of its own hostname.                      *)
LEMMA ValuesStep == ASSUME ValuesInv, [DeploymentsNext]_all PROVE ValuesInv'
<1>1. /\ IInv /\ IInv' /\ ClonesUpgrade' /\ [Next]_vars /\ host \in [Request -> Hostname]
      /\ phase \in [Request -> Phases] /\ UNCHANGED host
  <2>1. [Next]_vars
    BY ValuesAreBeside
  <2>2. UNCHANGED host
    BY <2>1 DEF Next, Ask, Restart, Proceed, Reject, Acquire, PrepareFails, Dispatch, Settle,
       CloneFails, HandToClone, CloneEnds, RestartEnds, Reboot, inputs, vars
  <2> QED BY <2>1, <2>2, NextKeeps, ClonesStay DEF ValuesInv, IInv, TypeOK
<1> USE <1>1 DEF ValuesInv
<1>2. AllGuarded' => AllGuarded
  BY GuardedBefore
<1>3. ASSUME UNCHANGED values,
             \A r \in Request :
                /\ phase'[r] \in {"unsent", "asking"} => phase[r] \in {"unsent", "asking"}
                /\ phase'[r] = "preparing" => phase[r] \in {"unsent", "asking", "preparing"}
                /\ phase'[r] = "running" => phase[r] = "running" \/ ~AllGuarded'
      PROVE  ValuesInv'
  <2>1. NotesAreGiven' /\ Tables'
    BY <1>3 DEF values, NotesAreGiven, Tables
  <2>2. BaseIsCurrent' /\ SentFromBase'
    BY <1>2, <1>3 DEF values, BaseIsCurrent, SentFromBase, Tables
  <2> QED BY <2>1, <2>2
<1>4. ASSUME NEW r \in Request, Reject(r) \/ Acquire(r) \/ PrepareFails(r) \/ Ask(r),
             UNCHANGED values
      PROVE  ValuesInv'
  BY <1>3, <1>4 DEF Reject, Acquire, PrepareFails, Ask, Moves
<1>5. ASSUME NEW r \in Request, kind[r] = "restart", Dispatch(r), UNCHANGED values
      PROVE  ValuesInv'
  <2>1. ~AllGuarded'
    BY <1>5 DEF Dispatch, Moves, inputs, AllGuarded
  <2> QED BY <1>3, <1>5, <2>1 DEF Dispatch, Moves
<1>6. ASSUME NEW r \in Request, ReadBaseline(r) PROVE ValuesInv'
  <2>1. /\ base' = [base EXCEPT ![r] = {notes[host[r]]}] /\ UNCHANGED <<phase, notes, sent>>
        /\ phase[r] = "preparing"
    BY <1>6 DEF ReadBaseline, vars
  <2>2. NotesAreGiven' /\ Tables'
    BY <2>1 DEF NotesAreGiven, Tables
  <2>3. \A s \in Request : base'[s] = IF s = r THEN {notes[host[r]]} ELSE base[s]
    BY <2>1 DEF Tables
  <2>4. BaseIsCurrent' /\ SentFromBase'
    BY <1>2, <2>1, <2>3 DEF BaseIsCurrent, SentFromBase
  <2> QED BY <2>2, <2>4
<1>7. ASSUME NEW r \in Request, Start(r) PROVE ValuesInv'
  <2>1. /\ sent' = [sent EXCEPT ![r] = Inputs(r, base[r])] /\ UNCHANGED <<notes, base>>
        /\ phase' = [phase EXCEPT ![r] = "running"] /\ phase[r] = "preparing"
    BY <1>7 DEF Start, Dispatch, Moves
  <2>2. DOMAIN Inputs(r, base[r]) = Name
    BY DEF Inputs
  <2>3. \A s \in Request : sent'[s] = IF s = r THEN Inputs(r, base[r]) ELSE sent[s]
    BY <2>1 DEF Tables
  <2>4. NotesAreGiven' /\ Tables'
    BY <2>1, <2>2, <2>3 DEF NotesAreGiven, Tables
  <2>5. BaseIsCurrent' /\ SentFromBase'
    BY <1>2, <2>1, <2>3 DEF BaseIsCurrent, SentFromBase
  <2> QED BY <2>4, <2>5
<1>8. ASSUME NEW r \in Request, ToClone(r) PROVE ValuesInv'
  <2>1. /\ sent' = [sent EXCEPT ![r] = Inputs(r, {notes[host[r]]})] \/ UNCHANGED sent
        /\ UNCHANGED <<notes, base>>
    BY <1>8 DEF ToClone
  <2>2. /\ phase'[r] \in {"at_clone", "over"}
        /\ \A s \in Request : s # r => phase'[s] = phase[s]
    BY <1>8 DEF ToClone, HandToClone, CloneFails, Moves
  <2>3. DOMAIN Inputs(r, {notes[host[r]]}) = Name
    BY DEF Inputs
  <2>4. /\ sent' = [s \in Request |-> sent'[s]]
        /\ \A s \in Request : s # r => sent'[s] = sent[s]
        /\ DOMAIN sent'[r] \subseteq Name
    BY <2>1, <2>3 DEF Tables
  <2>5. NotesAreGiven' /\ Tables'
    BY <2>1, <2>2, <2>4 DEF NotesAreGiven, Tables
  <2>6. BaseIsCurrent' /\ SentFromBase'
    BY <1>2, <2>1, <2>2, <2>4 DEF BaseIsCurrent, SentFromBase
  <2> QED BY <2>5, <2>6
<1>9. ASSUME NEW r \in Request, End(r) PROVE ValuesInv'
  <2>1. /\ notes' \in {notes, [notes EXCEPT ![host[r]] = Snapshot(r)]}
        /\ base' = [base EXCEPT ![r] = {}] /\ UNCHANGED sent
        /\ phase'[r] = "over" /\ \A s \in Request : s # r => phase'[s] = phase[s]
    BY <1>9 DEF End, Writes, Settle, CloneEnds, RestartEnds, Moves
  <2>2. NotesAreGiven'
    <3>1. \A h \in Hostname : notes'[h] \in {notes[h], Snapshot(r)}
      BY <2>1 DEF NotesAreGiven
    <3>2. notes' = [h \in Hostname |-> notes'[h]]
      BY <2>1 DEF NotesAreGiven
    <3> QED BY <3>1, <3>2, SnapshotIsGiven DEF NotesAreGiven
  <2>3. \A s \in Request : base'[s] = IF s = r THEN {} ELSE base[s]
    BY <2>1 DEF Tables
  <2>4. Tables'
    BY <2>1, <2>3 DEF Tables
  <2>5. ASSUME AllGuarded', NEW s \in Request, phase'[s] \in {"preparing", "running"},
               base'[s] # {}
        PROVE  base'[s] = {notes'[host[s]]}
    <3>1. s # r /\ phase[s] = phase'[s] /\ base'[s] = base[s] /\ AllGuarded
      BY <1>2, <2>1, <2>3, <2>5
    <3>2. host[s] # host[r]
      BY <1>9, <2>5, <3>1, WritersAreAlone
    <3>3. notes'[host[s]] = notes[host[s]]
      BY <2>1, <3>2 DEF NotesAreGiven
    <3> QED BY <2>5, <3>1, <3>3 DEF BaseIsCurrent
  <2>6. SentFromBase'
    BY <1>2, <2>1, <2>3 DEF SentFromBase
  <2> QED BY <2>2, <2>4, <2>5, <2>6 DEF BaseIsCurrent
<1>10. ASSUME NEW r \in Request, Again(r) PROVE ValuesInv'
  <2>1. PICK s \in accepted : sent' = [sent EXCEPT ![r] = sent[s]]
    BY <1>10 DEF Again
  <2>2. s \in Request
    BY <2>1 DEF IInv, TypeOK
  <2>3. /\ UNCHANGED <<notes, base>> /\ phase' = [phase EXCEPT ![r] = "preparing"]
        /\ kind[r] = "restart" /\ kind' = kind
    BY <1>10 DEF Again, Restart, Moves, inputs
  <2>4. NotesAreGiven' /\ Tables'
    BY <2>1, <2>2, <2>3 DEF NotesAreGiven, Tables
  <2>5. ~AllGuarded'
    BY <2>3 DEF AllGuarded
  <2> QED BY <2>4, <2>5 DEF BaseIsCurrent, SentFromBase
<1>11. ASSUME Reboot, UNCHANGED values PROVE ValuesInv'
  BY <1>3, <1>11 DEF Reboot
<1>12. CASE UNCHANGED all
  BY <1>3, <1>12 DEF all, vars
<1> QED BY <1>4, <1>5, <1>6, <1>7, <1>8, <1>9, <1>10, <1>11, <1>12 DEF DeploymentsNext, Goes

(* A reconfiguration that could read the notes keeps every value it was not  *)
(* asked to change, as it stands when it replaces them: between the reading  *)
(* and the end of its run nobody else replaces the notes, as long as all     *)
(* tasks asked the guard by name (webapp-ve-route-handlers.mts:767).         *)
THEOREM GivenValuesStay == DeploymentsSpec => KeepsWhatWasGiven
<1> DEFINE Keeps == notes' # notes /\ AllGuarded =>
        \A r \in Request :
            LET h == host[r] IN
            (/\ phase[r] = "running" /\ phase'[r] = "over" /\ base[r] # {}
             /\ notes'[h] # notes[h])
               => \A n \in DOMAIN notes[h] \ Given[r] :
                    n \in DOMAIN notes'[h] /\ notes'[h][n] = notes[h][n]
<1>1. DeploymentsInit => ValuesInv
  <2> SUFFICES ASSUME DeploymentsInit PROVE ValuesInv
    OBVIOUS
  <2>1. IInv /\ ClonesUpgrade
    BY InitEstablishes DEF DeploymentsInit, Init, ClonesUpgrade
  <2>2. DOMAIN NoParams = {}
    BY DEF NoParams
  <2> QED BY <2>1, <2>2 DEF DeploymentsInit, ValuesInv, NotesAreGiven, BaseIsCurrent,
                            SentFromBase, Tables
<1>2. ValuesInv /\ [DeploymentsNext]_all => ValuesInv'
  BY ValuesStep
<1>3. ValuesInv /\ [DeploymentsNext]_all => [Keeps]_all
  <2> SUFFICES ASSUME ValuesInv, DeploymentsNext, notes' # notes, AllGuarded,
                      NEW r \in Request, phase[r] = "running", phase'[r] = "over",
                      base[r] # {}, notes'[host[r]] # notes[host[r]],
                      NEW n \in DOMAIN notes[host[r]] \ Given[r]
               PROVE  n \in DOMAIN notes'[host[r]] /\ notes'[host[r]][n] = notes[host[r]][n]
    OBVIOUS
  <2>1. PICK s \in Request : End(s)
    BY DEF DeploymentsNext, Goes, ReadBaseline, Start, ToClone, Again, values
  <2>2. s = r
    <3>1. phase'[r] = phase[r] \/ s = r
      BY <2>1 DEF End, Settle, CloneEnds, RestartEnds, Moves, ValuesInv, IInv, TypeOK
    <3> QED BY <3>1
  <2>3. host[r] \in Hostname /\ notes'[host[r]] = Snapshot(r)
    BY <2>1, <2>2 DEF End, Writes, ValuesInv, NotesAreGiven, IInv, TypeOK
  <2>4. base[r] = {notes[host[r]]} /\ sent[r] = Inputs(r, base[r])
    BY DEF ValuesInv, BaseIsCurrent, SentFromBase
  <2> QED BY <2>3, <2>4, SnapshotKeeps DEF ValuesInv, NotesAreGiven
<1> QED BY <1>1, <1>2, <1>3, PTL DEF DeploymentsSpec, KeepsWhatWasGiven

----------------------------------------------------------------------------
(* Numbers.                                                                 *)

\* The least of some numbers.
LEMMA LeastNumber ==
    ASSUME NEW T \in SUBSET Nat, T # {}
    PROVE  \E x \in T : \A y \in T : x <= y
<1> DEFINE R == OpToRel(<, Nat)
<1>1. IsWellFoundedOn(R, Nat)
  BY NatLessThanWellFounded
<1>2. \A x, y \in Nat : <<x, y>> \in R <=> x < y
  BY DEF OpToRel
<1> HIDE DEF R
<1>3. PICK x \in T : \A y \in T : ~ (<<y, x>> \in R)
  BY <1>1, WFMin
<1>4. \A y \in T : ~ (y < x)
  BY <1>2, <1>3
<1>5. \A y \in T : x <= y
  BY <1>4, SMT
<1> QED BY <1>5

\* Induction, with the set of the numbers for which something holds.
LEMMA AllNumbers ==
    ASSUME NEW S, 0 \in S, \A n \in Nat : n \in S => n + 1 \in S
    PROVE  Nat \subseteq S
<1> SUFFICES ASSUME Nat \ S # {} PROVE FALSE
  OBVIOUS
<1>1. PICK x \in Nat \ S : \A y \in Nat \ S : x <= y
  BY LeastNumber
<1>2. x # 0 /\ x - 1 \in Nat /\ x - 1 \notin Nat \ S
  BY <1>1
<1> QED BY <1>1, <1>2

\* What holds at first and is kept by each step holds all along.
LEMMA AllAlong ==
    ASSUME NEW w, NEW L \in Nat, NEW S, w[0] \in S,
           \A n \in 1 .. L : w[n - 1] \in S => w[n] \in S
    PROVE  \A n \in 0 .. L : w[n] \in S
<1> DEFINE T == {n \in Nat : n <= L => w[n] \in S}
<1>1. 0 \in T
  OBVIOUS
<1>2. ASSUME NEW n \in Nat, n \in T PROVE n + 1 \in T
  <2> SUFFICES ASSUME n + 1 <= L PROVE w[n + 1] \in S
    OBVIOUS
  <2>1. n + 1 \in 1 .. L /\ (n + 1) - 1 = n /\ w[n] \in S
    BY <1>2
  <2> QED BY <2>1
<1> HIDE DEF T
<1>3. Nat \subseteq T
  BY <1>1, <1>2, AllNumbers
<1> QED BY <1>3 DEF T

Top(S) == CHOOSE x \in S : \A y \in S : x >= y

\* The greatest of some numbers that are bounded.
LEMMA GreatestNumber ==
    ASSUME NEW T, NEW n \in Int, \A x \in T : x \in Int /\ x <= n, NEW y \in T
    PROVE  Top(T) \in T /\ \A x \in T : Top(T) >= x
<1> DEFINE U == {u \in Nat : n - u \in T}
<1>1. ASSUME NEW x \in T PROVE n - x \in U /\ n - (n - x) = x
  <2>1. x \in Int /\ x <= n
    OBVIOUS
  <2> QED BY <2>1
<1>2. PICK u \in U : \A o \in U : u <= o
  BY <1>1, LeastNumber
<1>3. n - u \in T /\ u \in Nat
  BY <1>2
<1>4. ASSUME NEW x \in T PROVE n - u >= x
  <2>1. x \in Int /\ x <= n /\ u <= n - x
    BY <1>1, <1>2
  <2> QED BY <1>3, <2>1
<1> QED BY <1>3, <1>4 DEF Top

----------------------------------------------------------------------------
(* The lists of templates an application is read with.                      *)

\* The first of some places of a list, or the place behind it.
LEMMA FirstPlaces ==
    ASSUME NEW S, NEW ts \in Seq(S), NEW at, at \subseteq DOMAIN ts
    PROVE  /\ FirstOf(at, ts) \in 1 .. Len(ts) + 1
           /\ \/ FirstOf(at, ts) \in at
              \/ at = {} /\ FirstOf(at, ts) = Len(ts) + 1
           /\ \A k \in at : FirstOf(at, ts) <= k
<1> DEFINE T == at \cup {Len(ts) + 1}
<1>1. T \in SUBSET Nat /\ T # {} /\ T \subseteq 1 .. Len(ts) + 1 /\ Len(ts) \in Nat
  OBVIOUS
<1> HIDE DEF T
<1>4. PICK x \in T : \A y \in T : x <= y
  BY <1>1, LeastNumber
<1>7. FirstOf(at, ts) \in T /\ \A y \in T : FirstOf(at, ts) <= y
  BY <1>4 DEF FirstOf, Min, T
<1>8. at \subseteq T /\ Len(ts) + 1 \in T /\ \A y \in T : y \in at \/ y = Len(ts) + 1
  BY DEF T
<1> DEFINE f == FirstOf(at, ts)
<1> HIDE DEF f
<1>9. f \in 1 .. Len(ts) + 1 /\ (\A k \in at : f <= k)
  BY <1>1, <1>7, <1>8 DEF f
<1>10. f \notin at => f = Len(ts) + 1 /\ \A k \in at : FALSE
  <2> SUFFICES ASSUME f \notin at PROVE f = Len(ts) + 1 /\ \A k \in at : FALSE
    OBVIOUS
  <2>1. f = Len(ts) + 1
    BY <1>7, <1>8 DEF f
  <2>2. ASSUME NEW k \in at PROVE FALSE
    <3>1. f <= k /\ k \in 1 .. Len(ts)
      BY <1>9
    <3> QED BY <1>1, <2>1, <3>1
  <2> QED BY <2>1, <2>2
<1> QED BY <1>9, <1>10 DEF f

\* The place of a category among the stages is a number, 0 for none.
LEMMA RanksAreNumbers == \A category : Rank(category) \in Nat
<1> SUFFICES ASSUME NEW category PROVE Rank(category) \in Nat
  OBVIOUS
<1>1. DOMAIN CategoryOrder = 1 .. 8
  BY DEF CategoryOrder
<1> QED BY <1>1 DEF Rank

\* r is ts with x put at place p.
IsPut(r, ts, p, x) ==
    /\ DOMAIN r = 1 .. Len(ts) + 1
    /\ r[p] = x
    /\ \A k \in 1 .. Len(ts) : k < p => r[k] = ts[k]
    /\ \A k \in 1 .. Len(ts) + 1 : p < k => r[k] = ts[k - 1]

LEMMA PutIn ==
    ASSUME NEW S, NEW ts \in Seq(S), NEW p \in 1 .. Len(ts) + 1, NEW x \in S
    PROVE  InsertAt(ts, p, x) \in Seq(S) /\ IsPut(InsertAt(ts, p, x), ts, p, x)
<1> DEFINE L == Len(ts)
           a == SubSeq(ts, 1, p - 1)
           b == SubSeq(ts, p, L)
           ax == a \o <<x>>
           r == ax \o b
<1>1. L \in Nat /\ p \in Nat /\ p - 1 \in 0 .. L /\ \A k \in 1 .. L : ts[k] \in S
  OBVIOUS
<1>2. a \in Seq(S) /\ Len(a) = p - 1 /\ \A k \in 1 .. p - 1 : a[k] = ts[k]
  BY <1>1, SubSeqProperties
<1>3. b \in Seq(S) /\ Len(b) = L - p + 1 /\ \A k \in 1 .. L - p + 1 : b[k] = ts[p + k - 1]
  BY <1>1, SubSeqProperties
<1>4. <<x>> \in Seq(S) /\ Len(<<x>>) = 1 /\ <<x>>[1] = x
  OBVIOUS
<1> HIDE DEF a, b, L
<1>5. /\ ax \in Seq(S) /\ Len(ax) = p
      /\ \A k \in 1 .. p : ax[k] = IF k <= p - 1 THEN a[k] ELSE <<x>>[k - (p - 1)]
  <2>1. Len(a) + Len(<<x>>) = p
    BY <1>1, <1>2, <1>4
  <2> QED BY <1>2, <1>4, <2>1, ConcatProperties
<1>6. ax[p] = x /\ \A k \in 1 .. p - 1 : ax[k] = ts[k]
  <2>1. p \in 1 .. p /\ ~ (p <= p - 1) /\ p - (p - 1) = 1
    BY <1>1
  <2>2. \A k \in 1 .. p - 1 : k \in 1 .. p /\ k <= p - 1
    BY <1>1
  <2> QED BY <1>2, <1>4, <1>5, <2>1, <2>2
<1> HIDE DEF ax
<1>7. /\ r \in Seq(S) /\ Len(r) = L + 1
      /\ \A k \in 1 .. L + 1 : r[k] = IF k <= p THEN ax[k] ELSE b[k - p]
  <2>1. Len(ax) + Len(b) = L + 1 /\ Len(ax) = p
    BY <1>1, <1>3, <1>5
  <2>2. /\ r \in Seq(S) /\ Len(r) = Len(ax) + Len(b)
        /\ \A k \in 1 .. Len(ax) + Len(b) :
              r[k] = IF k <= Len(ax) THEN ax[k] ELSE b[k - Len(ax)]
    BY <1>3, <1>5, ConcatProperties
  <2> HIDE DEF r
  <2> QED BY <2>1, <2>2
<1>8. InsertAt(ts, p, x) = r
  BY DEF InsertAt, r, ax, a, b, L
<1> HIDE DEF r
<1>9. r[p] = x /\ \A k \in 1 .. L : k < p => r[k] = ts[k]
  BY <1>1, <1>6, <1>7, p \in 1 .. L + 1 DEF L
<1>10. ASSUME NEW k \in 1 .. L + 1, p < k PROVE r[k] = ts[k - 1]
  <2>1. ~ (k <= p) /\ k - p \in 1 .. L - p + 1 /\ p + (k - p) - 1 = k - 1
    BY <1>1, <1>10
  <2>2. r[k] = b[k - p] /\ b[k - p] = ts[p + (k - p) - 1]
    BY <1>3, <1>7, <1>10, <2>1
  <2> QED BY <2>1, <2>2
<1> QED BY <1>1, <1>7, <1>8, <1>9, <1>10 DEF L, IsPut

\* Where a template is put in a list.
PlaceFor(template, ts, atStart) ==
    IF atStart THEN CategoryStartIndex(ts, template.category)
    ELSE CategoryInsertIndex(ts, template.category)

\* Whichever of the two places a template is put at, the list keeps the order of
\* the stages: the place is behind all of an earlier stage and before all of a
\* later one (application-persistence-handler.mts:1070, 1104).
LEMMA PlacesKeepStages ==
    ASSUME NEW ts \in Seq(ListedTemplate), InStageOrder(ts),
           NEW template \in ListedTemplate, NEW atStart \in BOOLEAN
    PROVE  LET p == PlaceFor(template, ts, atStart)
           IN  /\ p \in 1 .. Len(ts) + 1
               /\ InStageOrder(InsertAt(ts, p, template))
<1> DEFINE c == template.category
           p == IF atStart THEN CategoryStartIndex(ts, c)
                ELSE CategoryInsertIndex(ts, c)
           R(k) == Rank(ts[k].category)
           later == {k \in DOMAIN ts : R(k) > Rank(c)}
           same == {k \in DOMAIN ts : ts[k].category = c}
           L == Len(ts)
<1>1. L \in Nat /\ DOMAIN ts = 1 .. L /\ Rank(c) \in Nat /\ \A k : R(k) \in Nat
  BY RanksAreNumbers
<1>2. ASSUME NEW k \in DOMAIN ts, NEW j \in DOMAIN ts, k < j, R(k) > 0, R(j) > 0
      PROVE  R(k) <= R(j)
  BY <1>2 DEF InStageOrder
<1>3. later \subseteq DOMAIN ts /\ same \subseteq DOMAIN ts
  OBVIOUS
<1>4. CategoryInsertIndex(ts, c) =
         IF Rank(c) = 0 THEN L + 1 ELSE FirstOf(later, ts)
  BY DEF CategoryInsertIndex
<1>5. CategoryStartIndex(ts, c) =
         IF same # {} THEN FirstOf(same, ts) ELSE CategoryInsertIndex(ts, c)
  BY DEF CategoryStartIndex
<1>6. \/ p = L + 1 /\ Rank(c) = 0
      \/ p = FirstOf(later, ts) /\ Rank(c) # 0
      \/ p = FirstOf(same, ts) /\ same # {}
  BY <1>4, <1>5
<1> HIDE DEF p, later, same, R, L, c
\* Before the place is nothing of a later stage, and behind it nothing of an earlier one.
<1>7. /\ p \in 1 .. L + 1
      /\ Rank(c) > 0 => /\ \A k \in 1 .. L : k < p /\ R(k) > 0 => R(k) <= Rank(c)
                        /\ \A k \in 1 .. L : p <= k /\ R(k) > 0 => Rank(c) <= R(k)
  <2>1. CASE p = L + 1 /\ Rank(c) = 0
    BY <1>1, <2>1
  <2>2. CASE p = FirstOf(later, ts)
    <3>1. /\ p \in 1 .. L + 1 /\ (p \in later \/ (later = {} /\ p = L + 1))
          /\ \A k \in later : p <= k
      BY <1>3, <2>2, FirstPlaces DEF L
    <3>2. ASSUME NEW k \in 1 .. L, k < p PROVE R(k) <= Rank(c)
      <4>1. k \notin later
        BY <1>1, <3>1, <3>2
      <4> QED BY <1>1, <4>1 DEF later
    <3>3. ASSUME NEW k \in 1 .. L, p <= k, R(k) > 0 PROVE Rank(c) <= R(k)
      <4>1. p \in later
        BY <1>1, <3>1, <3>3
      <4>2. p \in DOMAIN ts /\ R(p) > Rank(c)
        BY <4>1 DEF later
      <4>3. p = k \/ R(p) <= R(k)
        <5>1. R(p) > 0 /\ (p = k \/ p < k)
          BY <1>1, <3>1, <3>3, <4>2
        <5> QED BY <1>1, <1>2, <3>3, <4>2, <5>1
      <4> QED BY <1>1, <4>2, <4>3
    <3> QED BY <3>1, <3>2, <3>3
  <2>3. CASE p = FirstOf(same, ts) /\ same # {}
    <3>1. p \in same /\ p \in 1 .. L + 1
      BY <1>3, <2>3, FirstPlaces DEF L
    <3>2. p \in DOMAIN ts /\ R(p) = Rank(c)
      BY <3>1 DEF same, R
    <3>3. ASSUME Rank(c) > 0, NEW k \in 1 .. L, k < p, R(k) > 0 PROVE R(k) <= Rank(c)
      BY <1>1, <1>2, <3>2, <3>3
    <3>4. ASSUME Rank(c) > 0, NEW k \in 1 .. L, p <= k, R(k) > 0 PROVE Rank(c) <= R(k)
      <4>1. p = k \/ p < k
        BY <1>1, <3>2, <3>4
      <4>2. p < k => R(p) <= R(k)
        BY <1>1, <1>2, <3>2, <3>4
      <4> QED BY <1>1, <3>2, <4>1, <4>2
    <3> QED BY <3>1, <3>3, <3>4
  <2> QED BY <1>6, <2>1, <2>2, <2>3
<1> DEFINE r == InsertAt(ts, p, template)
           Q(k) == Rank(r[k].category)
<1>8. /\ DOMAIN r = 1 .. L + 1 /\ r[p] = template
      /\ \A k \in 1 .. L : k < p => r[k] = ts[k]
      /\ \A k \in 1 .. L + 1 : p < k => r[k] = ts[k - 1]
  <2>1. IsPut(r, ts, p, template)
    BY <1>7, PutIn DEF L
  <2> QED BY <2>1 DEF L, IsPut
<1> HIDE DEF r
<1>9. ASSUME NEW j \in DOMAIN r, NEW k \in DOMAIN r, j < k, Q(j) > 0, Q(k) > 0
      PROVE  Q(j) <= Q(k)
  <2>0. j \in 1 .. L + 1 /\ k \in 1 .. L + 1 /\ p \in 1 .. L + 1 /\ L \in Nat
    BY <1>1, <1>7, <1>8
  <2>1. CASE k < p
    <3>1. j \in 1 .. L /\ k \in 1 .. L /\ j < p
      BY <1>9, <2>0, <2>1
    <3>2. Q(j) = R(j) /\ Q(k) = R(k)
      BY <1>8, <2>1, <3>1 DEF R
    <3> QED BY <1>1, <1>2, <1>9, <3>1, <3>2
  <2>2. CASE k = p
    <3>1. j \in 1 .. L /\ j < p
      BY <1>9, <2>0, <2>2
    <3>2. Q(j) = R(j) /\ Q(k) = Rank(c)
      BY <1>8, <2>2, <3>1 DEF R, c
    <3> QED BY <1>7, <1>9, <3>1, <3>2
  <2>3. CASE p < k
    <3>1. k - 1 \in 1 .. L /\ p <= k - 1
      BY <2>0, <2>3
    <3>2. Q(k) = R(k - 1)
      BY <1>8, <2>0, <2>3 DEF R
    <3>3. CASE j < p
      <4>1. j \in 1 .. L /\ j < k - 1
        BY <2>0, <3>1, <3>3
      <4>2. Q(j) = R(j)
        BY <1>8, <3>3, <4>1 DEF R
      <4> QED BY <1>1, <1>2, <1>9, <3>1, <3>2, <4>1, <4>2
    <3>4. CASE j = p
      <4>1. Q(j) = Rank(c)
        BY <1>8, <3>4 DEF c
      <4> QED BY <1>7, <1>9, <3>1, <3>2, <4>1
    <3>5. CASE p < j
      <4>1. j - 1 \in 1 .. L /\ j - 1 < k - 1
        BY <1>9, <2>0, <3>5
      <4>2. Q(j) = R(j - 1)
        BY <1>8, <2>0, <3>5 DEF R
      <4> QED BY <1>1, <1>2, <1>9, <3>1, <3>2, <4>1, <4>2
    <3> QED BY <2>0, <3>3, <3>4, <3>5
  <2> QED BY <2>0, <2>1, <2>2, <2>3
<1>10. InStageOrder(r)
  BY <1>9 DEF InStageOrder
<1> QED BY <1>7, <1>10 DEF PlaceFor, r, p, c, L

\* Every template once.
Once(ts) == \A j, k \in DOMAIN ts : ts[j].name = ts[k].name => j = k

\* What is gathered for a task.
Gathered ==
    {g \in [list : Seq(ListedTemplate), twice : SUBSET STRING] :
        InStageOrder(g.list) /\ Once(g.list)}

\* A template is put into its place of the list, or is known as met twice.
LEMMA Adding ==
    ASSUME NEW g \in Gathered, NEW t \in ListedTemplate, NEW atStart \in BOOLEAN
    PROVE  AddTemplate(g, t, PlaceFor(t, g.list, atStart)) \in Gathered
<1> DEFINE ts == g.list
           p == PlaceFor(t, ts, atStart)
           r == InsertAt(ts, p, t)
<1>1. /\ g \in [list : Seq(ListedTemplate), twice : SUBSET STRING] /\ ts \in Seq(ListedTemplate)
      /\ InStageOrder(ts) /\ Once(ts) /\ t.name \in STRING
  BY DEF Gathered, ListedTemplate
<1>2. CASE IsTemplateDuplicate(g, t.name)
  <2>1. AddTemplate(g, t, p) = [g EXCEPT !.twice = @ \cup {t.name}]
    BY <1>2 DEF AddTemplate
  <2> QED BY <1>1, <2>1 DEF Gathered
<1>3. CASE ~ IsTemplateDuplicate(g, t.name)
  <2>1. p \in 1 .. Len(ts) + 1 /\ InStageOrder(r)
    BY <1>1, PlacesKeepStages
  <2>2. AddTemplate(g, t, p) = [g EXCEPT !.list = r]
    BY <1>3 DEF AddTemplate
  <2> HIDE DEF p, ts
  <2>3. /\ r \in Seq(ListedTemplate) /\ DOMAIN r = 1 .. Len(ts) + 1 /\ r[p] = t
        /\ \A k \in 1 .. Len(ts) : k < p => r[k] = ts[k]
        /\ \A k \in 1 .. Len(ts) + 1 : p < k => r[k] = ts[k - 1]
    <3>1. r \in Seq(ListedTemplate) /\ IsPut(r, ts, p, t)
      BY <1>1, <2>1, PutIn
    <3> QED BY <3>1 DEF IsPut
  <2>4. \A k \in DOMAIN ts : ts[k].name # t.name
    BY <1>3 DEF IsTemplateDuplicate, Names, ts
  <2> HIDE DEF r
  <2>5. Once(r)
    <3> SUFFICES ASSUME NEW j \in DOMAIN r, NEW k \in DOMAIN r, r[j].name = r[k].name
                 PROVE  j = k
      BY DEF Once
    <3> DEFINE From(m) == IF m < p THEN m ELSE m - 1
    <3>1. DOMAIN ts = 1 .. Len(ts) /\ Len(ts) \in Nat
      BY <1>1
    <3>2. ASSUME NEW m \in DOMAIN r, m # p PROVE From(m) \in DOMAIN ts /\ r[m] = ts[From(m)]
      BY <2>1, <2>3, <3>1, <3>2
    <3>3. CASE j = p \/ k = p
      BY <2>3, <2>4, <3>2, <3>3
    <3>4. CASE j # p /\ k # p
      <4>1. From(j) = From(k)
        BY <1>1, <3>2, <3>4 DEF Once
      <4> QED BY <2>1, <2>3, <3>1, <3>4, <4>1
    <3> QED BY <3>3, <3>4
  <2> DEFINE u == [g EXCEPT !.list = r]
  <2>6. u \in [list : Seq(ListedTemplate), twice : SUBSET STRING] /\ u.list = r
    BY <1>1, <2>3
  <2> HIDE DEF u
  <2>7. u \in Gathered
    BY <2>1, <2>5, <2>6 DEF Gathered
  <2> QED BY <2>2, <2>7 DEF u, p, ts
<1> QED BY <1>2, <1>3 DEF p

\* So is the template of an entry, whatever category it names.
LEMMA Placing ==
    ASSUME NEW g \in Gathered, NEW e \in PartEntry, NEW c \in Category
    PROVE  Place(g, e, c) \in Gathered
<1> DEFINE chosen == IF e.category = {} THEN c ELSE CHOOSE d \in e.category : TRUE
           t == [name |-> e.name, category |-> chosen]
<1>1. chosen \in Category /\ e.name \in STRING /\ e.start \in BOOLEAN
  BY DEF PartEntry
<1> HIDE DEF chosen
<1>2. t \in ListedTemplate
  BY <1>1 DEF ListedTemplate
<1>3. Place(g, e, c) = AddTemplate(g, t, PlaceFor(t, g.list, e.start))
  BY DEF Place, PlaceFor, chosen
<1> HIDE DEF t
<1> QED BY <1>1, <1>2, <1>3, Adding

----------------------------------------------------------------------------
(* A fold over a sequence goes through the sets of its first places.        *)

\* What is gathered from the places of a set, the greatest last.
Gathers(h, g, F, s) == h[s] = IF s = {} THEN g ELSE F[<<h[s \ {Top(s)}], Top(s)>>]

GathersUp(G, F, g, L) ==
    \E h \in [SUBSET (1 .. L) -> G] : \A s \in SUBSET (1 .. L) : Gathers(h, g, F, s)

\* There is such a gathering for every number of places.
LEMMA GatheringExists ==
    ASSUME NEW G, NEW F \in [G \X Nat -> G], NEW g \in G, NEW L \in Nat
    PROVE  GathersUp(G, F, g, L)
<1> DEFINE S == {n \in Nat : \E h \in [SUBSET (1 .. n) -> G] :
                                \A s \in SUBSET (1 .. n) : Gathers(h, g, F, s)}
<1>1. 0 \in S
  <2> DEFINE h == [s \in SUBSET (1 .. 0) |-> g]
  <2>1. \A s \in SUBSET (1 .. 0) : s = {}
    OBVIOUS
  <2>2. \A s \in SUBSET (1 .. 0) : Gathers(h, g, F, s)
    BY <2>1 DEF Gathers
  <2>3. h \in [SUBSET (1 .. 0) -> G]
    OBVIOUS
  <2> HIDE DEF h
  <2> QED BY <2>2, <2>3
<1>2. ASSUME NEW n \in Nat, n \in S PROVE n + 1 \in S
  <2>1. PICK h \in [SUBSET (1 .. n) -> G] : \A s \in SUBSET (1 .. n) : Gathers(h, g, F, s)
    BY <1>2
  <2> DEFINE q == [s \in SUBSET (1 .. n + 1) |->
                     IF n + 1 \in s THEN F[<<h[s \ {n + 1}], n + 1>>] ELSE h[s]]
  <2>2. ASSUME NEW s \in SUBSET (1 .. n + 1)
        PROVE  s \ {n + 1} \in SUBSET (1 .. n) /\ (n + 1 \notin s => s \in SUBSET (1 .. n))
    OBVIOUS
  <2>3. q \in [SUBSET (1 .. n + 1) -> G]
    BY <2>2
  <2>4. ASSUME NEW s \in SUBSET (1 .. n) PROVE q[s] = h[s]
    <3>1. s \in SUBSET (1 .. n + 1) /\ n + 1 \notin s
      OBVIOUS
    <3> QED BY <3>1
  <2>5. \A s \in SUBSET (1 .. n + 1) : n + 1 \in s => q[s] = F[<<h[s \ {n + 1}], n + 1>>]
    OBVIOUS
  <2> HIDE DEF q
  <2>6. ASSUME NEW s \in SUBSET (1 .. n + 1) PROVE Gathers(q, g, F, s)
    <3>1. CASE n + 1 \in s
      <4>0. n + 1 \in Int /\ \A x \in s : x \in Int /\ x <= n + 1
        OBVIOUS
      <4>1. Top(s) \in s /\ \A x \in s : Top(s) >= x
        BY <3>1, <4>0, GreatestNumber
      <4> DEFINE m == Top(s)
      <4>2. m \in s /\ m >= n + 1
        BY <3>1, <4>1
      <4> HIDE DEF m
      <4>3. m \in Int /\ m <= n + 1
        BY <4>0, <4>2
      <4>4. m = n + 1
        BY <4>2, <4>3
      <4> QED BY <2>2, <2>4, <2>5, <3>1, <4>4 DEF Gathers, m
    <3>2. CASE n + 1 \notin s
      <4>1. s \in SUBSET (1 .. n) /\ Gathers(h, g, F, s) /\ q[s] = h[s]
        BY <2>1, <2>2, <2>4, <3>2
      <4>2. s \ {Top(s)} \in SUBSET (1 .. n)
        BY <4>1
      <4> QED BY <2>4, <4>1, <4>2 DEF Gathers
    <3> QED BY <3>1, <3>2
  <2> QED BY <2>3, <2>6
<1> HIDE DEF S
<1>3. L \in S
  BY <1>1, <1>2, AllNumbers
<1> QED BY <1>3 DEF S, GathersUp

\* What a step keeps is kept to the last place.
LEMMA GatheringEnds ==
    ASSUME NEW G, NEW L \in Nat, NEW h, h[{}] \in G,
           \A n \in 1 .. L : LET s == 1 .. n IN
               h[s \ {Top(s)}] \in G /\ Top(s) = n => h[s] \in G
    PROVE  h[1 .. L] \in G
<1> DEFINE w == [n \in 0 .. L |-> h[1 .. n]]
<1>1. w[0] \in G
  <2>1. 1 .. 0 = {}
    OBVIOUS
  <2> QED BY <2>1
<1>2. ASSUME NEW n \in 1 .. L, w[n - 1] \in G PROVE w[n] \in G
  <2> DEFINE s == 1 .. n
  <2>1. n \in s /\ \A x \in s : x \in Int /\ x <= n
    OBVIOUS
  <2>2. Top(s) \in s /\ \A x \in s : Top(s) >= x
    BY <2>1, GreatestNumber
  <2>3. Top(s) = n
    BY <2>1, <2>2
  <2>4. s \ {n} = 1 .. n - 1 /\ n - 1 \in 0 .. L
    OBVIOUS
  <2>5. w[n - 1] = h[1 .. n - 1] /\ w[n] = h[s]
    BY <2>4
  <2> HIDE DEF w
  <2> QED BY <1>2, <2>3, <2>4, <2>5
<1> HIDE DEF w
<1>3. \A n \in 0 .. L : w[n] \in G
  BY <1>1, <1>2, AllAlong
<1>4. L \in 0 .. L
  OBVIOUS
<1> QED BY <1>3, <1>4 DEF w

\* A place of a set of places is no greater than the list is long.
LEMMA GreatestPlace ==
    ASSUME NEW L \in Nat, NEW s \in SUBSET (1 .. L), s # {}
    PROVE  Top(s) \in s
<1>1. L \in Int /\ \A x \in s : x \in Int /\ x <= L
  OBVIOUS
<1> QED BY <1>1, GreatestNumber

\* A list of entries (application-persistence-handler.mts:962).
LEMMA ListGathered ==
    ASSUME NEW g \in Gathered, NEW es \in Seq(PartEntry), NEW c \in Category
    PROVE  ProcessTemplateList(g, es, c) \in Gathered
<1> DEFINE L == Len(es)
           F == [x \in Gathered \X Nat |->
                   IF x[2] \in 1 .. L THEN Place(x[1], es[x[2]], c) ELSE x[1]]
           Walk(u) == [s \in SUBSET (1 .. L) |->
                         IF s = {} THEN g ELSE Place(u[s \ {Top(s)}], es[Top(s)], c)]
           w == CHOOSE u : u = Walk(u)
<1>1. L \in Nat /\ DOMAIN es = 1 .. L /\ \A n \in 1 .. L : es[n] \in PartEntry
  OBVIOUS
<1>2. F \in [Gathered \X Nat -> Gathered]
  <2> SUFFICES ASSUME NEW x \in Gathered \X Nat, x[2] \in 1 .. L
               PROVE  Place(x[1], es[x[2]], c) \in Gathered
    OBVIOUS
  <2>1. x[1] \in Gathered /\ es[x[2]] \in PartEntry
    BY <1>1
  <2> QED BY <2>1, Placing
<1>3. \A x \in Gathered, n \in 1 .. L : F[<<x, n>>] = Place(x, es[n], c)
  <2> SUFFICES ASSUME NEW x \in Gathered, NEW n \in 1 .. L
               PROVE  F[<<x, n>>] = Place(x, es[n], c)
    OBVIOUS
  <2>1. <<x, n>> \in Gathered \X Nat /\ <<x, n>>[1] = x /\ <<x, n>>[2] = n
    BY <1>1
  <2> QED BY <2>1
<1>4. ProcessTemplateList(g, es, c) = w[1 .. L]
  BY <1>1 DEF ProcessTemplateList, FoldLeft, MapThenFoldSet, Max, Top
<1> HIDE DEF F, L
<1>5. PICK h \in [SUBSET (1 .. L) -> Gathered] : \A s \in SUBSET (1 .. L) : Gathers(h, g, F, s)
  <2>1. GathersUp(Gathered, F, g, L)
    BY <1>1, <1>2, GatheringExists
  <2> QED BY <2>1 DEF GathersUp
<1>6. ASSUME NEW s \in SUBSET (1 .. L), s # {}
      PROVE  h[s] = Place(h[s \ {Top(s)}], es[Top(s)], c)
  <2>1. Top(s) \in 1 .. L
    BY <1>1, <1>6, GreatestPlace
  <2>2. h[s \ {Top(s)}] \in Gathered
    BY <1>5
  <2> QED BY <1>3, <1>5, <1>6, <2>1, <2>2 DEF Gathers
<1>7. h[{}] = g
  BY <1>5 DEF Gathers
<1>8. h = Walk(h)
  BY <1>5, <1>6, <1>7
<1>9. w = Walk(w)
  BY <1>8
<1> HIDE DEF w
<1>10. w[{}] \in Gathered
  BY <1>9
<1>11. ASSUME NEW n \in 1 .. L, w[(1 .. n) \ {Top(1 .. n)}] \in Gathered, Top(1 .. n) = n
       PROVE  w[1 .. n] \in Gathered
  <2> DEFINE s == 1 .. n
  <2>1. s \in SUBSET (1 .. L) /\ s # {} /\ n \in 1 .. L
    <3>1. n \in Nat /\ 1 <= n /\ n <= L
      BY <1>1
    <3>2. n \in s /\ s \subseteq 1 .. L
      BY <1>1, <3>1
    <3> QED BY <3>2
  <2>2. w[1 .. n] = Place(w[(1 .. n) \ {Top(1 .. n)}], es[n], c)
    BY <1>9, <1>11, <2>1
  <2>3. es[n] \in PartEntry
    BY <1>1
  <2> QED BY <1>11, <2>2, <2>3, Placing
<1>12. w[1 .. L] \in Gathered
  BY <1>1, <1>10, <1>11, GatheringEnds
<1> QED BY <1>4, <1>12

\* What one category of a part adds to a task.
OfCategory(g, lists, c) ==
    IF c \in DOMAIN lists THEN ProcessTemplateList(g, lists[c], c) ELSE g

\* The lists of a part, one stage after the other.
LEMMA CategoriesGathered ==
    ASSUME NEW g \in Gathered, NEW lists, \A c \in DOMAIN lists : lists[c] \in Seq(PartEntry)
    PROVE  ByCategory(g, lists) \in Gathered
<1> DEFINE L == 8
           C(n) == CategoryOrder[n]
           F == [x \in Gathered \X Nat |->
                   IF x[2] \in 1 .. L THEN OfCategory(x[1], lists, C(x[2])) ELSE x[1]]
           Walk(u) == [s \in SUBSET (1 .. L) |->
                         IF s = {} THEN g ELSE OfCategory(u[s \ {Top(s)}], lists, C(Top(s)))]
           w == CHOOSE u : u = Walk(u)
<1>1. L \in Nat /\ DOMAIN CategoryOrder = 1 .. L /\ \A n \in 1 .. L : C(n) \in Category
  <2>1. L \in Nat /\ DOMAIN CategoryOrder = 1 .. L
    BY DEF CategoryOrder
  <2> QED BY <2>1 DEF Category
<1>2. ASSUME NEW x \in Gathered, NEW n \in 1 .. L PROVE OfCategory(x, lists, C(n)) \in Gathered
  BY <1>1, ListGathered DEF OfCategory
<1>3. F \in [Gathered \X Nat -> Gathered]
  <2> SUFFICES ASSUME NEW x \in Gathered \X Nat, x[2] \in 1 .. L
               PROVE  OfCategory(x[1], lists, C(x[2])) \in Gathered
    OBVIOUS
  <2> QED BY <1>2
<1>4. \A x \in Gathered, n \in 1 .. L : F[<<x, n>>] = OfCategory(x, lists, C(n))
  <2> SUFFICES ASSUME NEW x \in Gathered, NEW n \in 1 .. L
               PROVE  F[<<x, n>>] = OfCategory(x, lists, C(n))
    OBVIOUS
  <2>1. <<x, n>> \in Gathered \X Nat /\ <<x, n>>[1] = x /\ <<x, n>>[2] = n
    BY <1>1
  <2> QED BY <2>1
<1>5. ByCategory(g, lists) = w[1 .. L]
  BY <1>1 DEF ByCategory, FoldLeft, MapThenFoldSet, Max, Top, OfCategory
<1> HIDE DEF F, L, C
<1>6. PICK h \in [SUBSET (1 .. L) -> Gathered] : \A s \in SUBSET (1 .. L) : Gathers(h, g, F, s)
  <2>1. GathersUp(Gathered, F, g, L)
    BY <1>1, <1>3, GatheringExists
  <2> QED BY <2>1 DEF GathersUp
<1>7. ASSUME NEW s \in SUBSET (1 .. L), s # {}
      PROVE  h[s] = OfCategory(h[s \ {Top(s)}], lists, C(Top(s)))
  <2>1. Top(s) \in 1 .. L
    BY <1>1, <1>7, GreatestPlace
  <2>2. h[s \ {Top(s)}] \in Gathered
    BY <1>6
  <2> QED BY <1>4, <1>6, <1>7, <2>1, <2>2 DEF Gathers
<1>8. h[{}] = g
  BY <1>6 DEF Gathers
<1>9. h = Walk(h)
  BY <1>6, <1>7, <1>8
<1>10. w = Walk(w)
  BY <1>9
<1> HIDE DEF w
<1>11. w[{}] \in Gathered
  BY <1>10
<1>12. ASSUME NEW n \in 1 .. L, w[(1 .. n) \ {Top(1 .. n)}] \in Gathered, Top(1 .. n) = n
       PROVE  w[1 .. n] \in Gathered
  <2> DEFINE s == 1 .. n
  <2>1. s \in SUBSET (1 .. L) /\ s # {} /\ n \in 1 .. L
    <3>1. n \in Nat /\ 1 <= n /\ n <= L
      BY <1>1
    <3>2. n \in s /\ s \subseteq 1 .. L
      BY <1>1, <3>1
    <3> QED BY <3>2
  <2>2. w[1 .. n] = OfCategory(w[(1 .. n) \ {Top(1 .. n)}], lists, C(n))
    BY <1>10, <1>12, <2>1
  <2> QED BY <1>2, <1>12, <2>2
<1>13. w[1 .. L] \in Gathered
  BY <1>1, <1>11, <1>12, GatheringEnds
<1> QED BY <1>5, <1>13

----------------------------------------------------------------------------
(* What every application of the chain adds.                                *)

\* An application's own part of a task.
LEMMA OwnGathered ==
    ASSUME NEW g \in Gathered, NEW part, IsPart(part)
    PROVE  OwnPart(g, part) \in Gathered
<1>1. CASE part.flat
  <2>1. part.lists["root"] \in Seq(PartEntry) /\ "root" \in Category
    BY <1>1 DEF IsPart, Category
  <2> QED BY <1>1, <2>1, ListGathered DEF OwnPart
<1>2. CASE ~ part.flat
  <2> DEFINE e == [g EXCEPT !.list = <<>>]
             k == IF part.noExtend THEN e ELSE g
  <2>0. g \in [list : Seq(ListedTemplate), twice : SUBSET STRING] /\ <<>> \in Seq(ListedTemplate)
    BY DEF Gathered
  <2>1. e \in [list : Seq(ListedTemplate), twice : SUBSET STRING] /\ e.list = <<>>
    BY <2>0
  <2> HIDE DEF e
  <2>2. InStageOrder(<<>>) /\ Once(<<>>)
    BY DEF InStageOrder, Once
  <2>3. e \in Gathered
    BY <2>1, <2>2 DEF Gathered
  <2>4. k \in Gathered /\ \A c \in DOMAIN part.lists : part.lists[c] \in Seq(PartEntry)
    BY <2>3 DEF IsPart
  <2>5. OwnPart(g, part) = ByCategory(k, part.lists)
    BY <1>2 DEF OwnPart, e
  <2> HIDE DEF k
  <2> QED BY <2>4, <2>5, CategoriesGathered
<1> QED BY <1>1, <1>2

\* A task nobody contributed to.
LEMMA NothingGathered == NoTemplates \in Gathered
<1>1. NoTemplates \in [list : Seq(ListedTemplate), twice : SUBSET STRING]
  BY DEF NoTemplates
<1>2. NoTemplates.list = <<>>
  BY DEF NoTemplates
<1>3. InStageOrder(<<>>) /\ Once(<<>>)
  BY DEF InStageOrder, Once
<1> QED BY <1>1, <1>2, <1>3 DEF Gathered

\* What may be gathered for some of the tasks.
GatheredTasks == UNION {[D -> Gathered] : D \in SUBSET STRING}

\* All parts of an application, its checks included.
LEMMA ApplicationGathered ==
    ASSUME NEW ts \in GatheredTasks, NEW parts, IsParts(parts)
    PROVE  ProcessTemplates(ts, parts) \in GatheredTasks
<1>1. PICK D \in SUBSET STRING : ts \in [D -> Gathered]
  BY DEF GatheredTasks
<1> DEFINE own == OwnTemplates(ts, parts)
           both == DOMAIN ts \cup DOMAIN parts
<1>2. both \subseteq STRING
  BY <1>1 DEF IsParts
<1>3. own \in [both -> Gathered]
  <2>1. ASSUME NEW t \in both
        PROVE  LET g == IF t \in DOMAIN ts THEN ts[t] ELSE NoTemplates
               IN  (IF t \in DOMAIN parts THEN OwnPart(g, parts[t]) ELSE g) \in Gathered
    <3> DEFINE g == IF t \in DOMAIN ts THEN ts[t] ELSE NoTemplates
    <3>1. g \in Gathered
      BY <1>1, NothingGathered
    <3> HIDE DEF g
    <3>2. t \in DOMAIN parts => OwnPart(g, parts[t]) \in Gathered
      BY <3>1, OwnGathered DEF IsParts
    <3>3. (IF t \in DOMAIN parts THEN OwnPart(g, parts[t]) ELSE g) \in Gathered
      BY <3>1, <3>2
    <3> QED BY <3>3 DEF g
  <2> QED BY <2>1 DEF OwnTemplates
<1> HIDE DEF own
<1>4. WithChecks(own, parts) \in [both -> Gathered]
  <2>1. CASE "check" \notin DOMAIN parts \/ parts["check"].flat
    BY <1>3, <2>1 DEF WithChecks
  <2>2. CASE ~ ("check" \notin DOMAIN parts \/ parts["check"].flat)
    <3>1. \A c \in DOMAIN parts["check"].lists : parts["check"].lists[c] \in Seq(PartEntry)
      BY <2>2 DEF IsParts, IsPart
    <3>2. \A t \in both : ByCategory(own[t], parts["check"].lists) \in Gathered
      BY <1>3, <3>1, CategoriesGathered
    <3> QED BY <1>3, <2>2, <3>2 DEF WithChecks
  <2> QED BY <2>1, <2>2
<1> QED BY <1>2, <1>4 DEF ProcessTemplates, own, GatheredTasks

\* What the applications of a chain make of the tasks.
LEMMA TasksGathered ==
    ASSUME NEW Apps, \A parts \in Apps : IsParts(parts),
           NEW chain \in Seq(Apps)
    PROVE  \A t \in DOMAIN TaskTemplates(chain) : TaskTemplates(chain)[t] \in Gathered
<1> DEFINE L == Len(chain)
           G == GatheredTasks
           none == [t \in {} |-> NoTemplates]
           F == [x \in G \X Nat |->
                   IF x[2] \in 1 .. L THEN ProcessTemplates(x[1], chain[x[2]]) ELSE x[1]]
           Walk(u) == [s \in SUBSET (1 .. L) |->
                         IF s = {} THEN none
                         ELSE ProcessTemplates(u[s \ {Top(s)}], chain[Top(s)])]
           w == CHOOSE u : u = Walk(u)
<1>1. L \in Nat /\ DOMAIN chain = 1 .. L /\ \A n \in 1 .. L : chain[n] \in Apps
  OBVIOUS
<1>2. ASSUME NEW x \in G, NEW n \in 1 .. L PROVE ProcessTemplates(x, chain[n]) \in G
  <2>1. IsParts(chain[n])
    BY <1>1
  <2> QED BY <2>1, ApplicationGathered
<1>3. none \in G
  <2>1. none \in [{} -> Gathered] /\ {} \in SUBSET STRING
    OBVIOUS
  <2> QED BY <2>1 DEF GatheredTasks
<1>4. F \in [G \X Nat -> G]
  <2> SUFFICES ASSUME NEW x \in G \X Nat, x[2] \in 1 .. L
               PROVE  ProcessTemplates(x[1], chain[x[2]]) \in G
    OBVIOUS
  <2>1. x[1] \in G
    OBVIOUS
  <2> QED BY <1>2, <2>1
<1>5. \A x \in G, n \in 1 .. L : F[<<x, n>>] = ProcessTemplates(x, chain[n])
  <2> SUFFICES ASSUME NEW x \in G, NEW n \in 1 .. L
               PROVE  F[<<x, n>>] = ProcessTemplates(x, chain[n])
    OBVIOUS
  <2>1. <<x, n>> \in G \X Nat /\ <<x, n>>[1] = x /\ <<x, n>>[2] = n
    BY <1>1
  <2> QED BY <2>1
<1>6. TaskTemplates(chain) = w[1 .. L]
  BY <1>1 DEF TaskTemplates, FoldLeft, MapThenFoldSet, Max, Top
<1> HIDE DEF F, G, L, none
<1>7. PICK h \in [SUBSET (1 .. L) -> G] : \A s \in SUBSET (1 .. L) : Gathers(h, none, F, s)
  <2>1. GathersUp(G, F, none, L)
    BY <1>1, <1>3, <1>4, GatheringExists
  <2> QED BY <2>1 DEF GathersUp
<1>8. ASSUME NEW s \in SUBSET (1 .. L), s # {}
      PROVE  h[s] = ProcessTemplates(h[s \ {Top(s)}], chain[Top(s)])
  <2>1. Top(s) \in 1 .. L
    BY <1>1, <1>8, GreatestPlace
  <2>2. h[s \ {Top(s)}] \in G
    BY <1>7
  <2> QED BY <1>5, <1>7, <1>8, <2>1, <2>2 DEF Gathers
<1>9. h[{}] = none
  BY <1>7 DEF Gathers
<1>10. h = Walk(h)
  BY <1>7, <1>8, <1>9
<1>11. w = Walk(w)
  BY <1>10
<1> HIDE DEF w
<1>12. w[{}] \in G
  BY <1>3, <1>11
<1>13. ASSUME NEW n \in 1 .. L, w[(1 .. n) \ {Top(1 .. n)}] \in G, Top(1 .. n) = n
       PROVE  w[1 .. n] \in G
  <2> DEFINE s == 1 .. n
  <2>1. s \in SUBSET (1 .. L) /\ s # {} /\ n \in 1 .. L
    <3>1. n \in Nat /\ 1 <= n /\ n <= L
      BY <1>1
    <3>2. n \in s /\ s \subseteq 1 .. L
      BY <1>1, <3>1
    <3> QED BY <3>2
  <2>2. w[1 .. n] = ProcessTemplates(w[(1 .. n) \ {Top(1 .. n)}], chain[n])
    BY <1>11, <1>13, <2>1
  <2> QED BY <1>2, <1>13, <2>2
<1>14. w[1 .. L] \in G
  BY <1>1, <1>12, <1>13, GatheringEnds
<1>15. \A t \in DOMAIN w[1 .. L] : w[1 .. L][t] \in Gathered
  <2>1. PICK D \in SUBSET STRING : w[1 .. L] \in [D -> Gathered]
    BY <1>14 DEF G, GatheredTasks
  <2> QED BY <2>1
<1> QED BY <1>6, <1>15

\* Whatever the applications of a chain contribute to a task, by name or at the
\* start of a stage, in their own lists or by their checks, at whatever length of
\* the chain: the templates of the task come in the order of the stages and none
\* of them twice (application-persistence-handler.mts:860, 1070).
THEOREM TemplatesInStageOrder ==
    ASSUME NEW Apps, \A parts \in Apps : IsParts(parts),
           NEW chain \in Seq(Apps)
    PROVE  LET tasks == TaskTemplates(chain)
           IN  \A t \in DOMAIN tasks :
                   InStageOrder(tasks[t].list) /\ Once(tasks[t].list)
<1> DEFINE tasks == TaskTemplates(chain)
<1>1. \A t \in DOMAIN tasks : tasks[t] \in Gathered
  BY TasksGathered
<1> HIDE DEF tasks
<1>2. \A t \in DOMAIN tasks : InStageOrder(tasks[t].list) /\ Once(tasks[t].list)
  BY <1>1 DEF Gathered
<1> QED BY <1>2 DEF tasks


----------------------------------------------------------------------------
(* Lists.                                                                   *)

LEMMA ListFacts ==
    ASSUME NEW s, IsList(s)
    PROVE  Len(s) \in Nat /\ DOMAIN s = 1 .. Len(s) /\ ToSet(s) = {s[i] : i \in 1 .. Len(s)}
<1>1. s \in Seq(ToSet(s))
  BY DEF IsList
<1>2. Len(s) \in Nat /\ DOMAIN s = 1 .. Len(s)
  BY <1>1
<1> QED BY <1>2 DEF ToSet

LEMMA ListMade ==
    ASSUME NEW n \in Nat, NEW s, s = [i \in 1 .. n |-> s[i]]
    PROVE  IsList(s) /\ Len(s) = n /\ DOMAIN s = 1 .. n
<1>1. \A i \in 1 .. n : s[i] \in ToSet(s)
  BY DEF ToSet
<1>2. s \in Seq(ToSet(s)) /\ Len(s) = n /\ DOMAIN s = 1 .. n
  BY <1>1
<1> QED BY <1>2 DEF IsList

LEMMA NoElements == IsList(<<>>) /\ Len(<<>>) = 0 /\ ToSet(<<>>) = {}
<1>1. <<>> \in Seq({}) /\ Len(<<>>) = 0 /\ DOMAIN <<>> = {}
  OBVIOUS
<1>2. ToSet(<<>>) = {}
  BY <1>1 DEF ToSet
<1> QED BY <1>1, <1>2 DEF IsList

LEMMA SequencesAreLists ==
    ASSUME NEW S, NEW s \in Seq(S)
    PROVE  IsList(s) /\ ToSet(s) \subseteq S
<1>1. Len(s) \in Nat /\ DOMAIN s = 1 .. Len(s) /\ s = [i \in 1 .. Len(s) |-> s[i]]
      /\ \A i \in DOMAIN s : s[i] \in S
  OBVIOUS
<1>2. IsList(s)
  BY <1>1, ListMade
<1> QED BY <1>1, <1>2 DEF ToSet

LEMMA ListOf ==
    ASSUME NEW s, IsList(s), NEW S, ToSet(s) \subseteq S
    PROVE  s \in Seq(S)
<1>1. s \in Seq(ToSet(s))
  BY DEF IsList
<1>2. s = [i \in 1 .. Len(s) |-> s[i]] /\ Len(s) \in Nat /\ \A i \in 1 .. Len(s) : s[i] \in S
  BY <1>1
<1> QED BY <1>2, IsASeq

\* r is s, followed by t.
IsJoin(r, s, t) ==
    /\ IsList(r) /\ Len(r) = Len(s) + Len(t) /\ DOMAIN r = 1 .. Len(s) + Len(t)
    /\ \A i \in 1 .. Len(s) : r[i] = s[i]
    /\ \A i \in 1 .. Len(t) : r[Len(s) + i] = t[i]
    /\ ToSet(r) = ToSet(s) \cup ToSet(t)

LEMMA Joined ==
    ASSUME NEW s, NEW t, IsList(s), IsList(t)
    PROVE  IsJoin(s \o t, s, t)
<1> DEFINE S == ToSet(s) \cup ToSet(t)
           r == s \o t
<1>1. s \in Seq(S) /\ t \in Seq(S)
  BY ListOf
<1>2. Len(s) \in Nat /\ Len(t) \in Nat
  BY <1>1
<1> HIDE DEF S
<1>3. /\ r \in Seq(S) /\ Len(r) = Len(s) + Len(t)
      /\ \A i \in 1 .. Len(s) + Len(t) : r[i] = IF i <= Len(s) THEN s[i] ELSE t[i - Len(s)]
  BY <1>1, ConcatProperties
<1> HIDE DEF r
<1>4. IsList(r) /\ DOMAIN r = 1 .. Len(s) + Len(t)
  BY <1>3, SequencesAreLists, ListFacts
<1>5. \A i \in 1 .. Len(s) : r[i] = s[i]
  BY <1>2, <1>3
<1>6. \A i \in 1 .. Len(t) : r[Len(s) + i] = t[i]
  <2> SUFFICES ASSUME NEW i \in 1 .. Len(t) PROVE r[Len(s) + i] = t[i]
    OBVIOUS
  <2>1. Len(s) + i \in 1 .. Len(s) + Len(t) /\ ~ (Len(s) + i <= Len(s)) /\ Len(s) + i - Len(s) = i
    BY <1>2
  <2> QED BY <1>3, <2>1
<1>7. ToSet(r) = ToSet(s) \cup ToSet(t)
  <2>1. ToSet(r) = {r[i] : i \in 1 .. Len(s) + Len(t)}
    BY <1>4 DEF ToSet
  <2>2. ToSet(s) = {s[i] : i \in 1 .. Len(s)} /\ ToSet(t) = {t[i] : i \in 1 .. Len(t)}
    BY ListFacts
  <2>3. ASSUME NEW x \in ToSet(r) PROVE x \in ToSet(s) \cup ToSet(t)
    <3>1. PICK i \in 1 .. Len(s) + Len(t) : x = r[i]
      BY <2>1, <2>3
    <3>2. CASE i <= Len(s)
      BY <1>2, <1>5, <2>2, <3>1, <3>2
    <3>3. CASE ~ (i <= Len(s))
      <4>1. i - Len(s) \in 1 .. Len(t) /\ Len(s) + (i - Len(s)) = i
        BY <1>2, <3>3
      <4>2. r[i] = t[i - Len(s)]
        BY <1>6, <4>1
      <4> QED BY <2>2, <3>1, <4>1, <4>2
    <3> QED BY <3>2, <3>3
  <2>4. ToSet(s) \subseteq ToSet(r)
    <3>1. \A i \in 1 .. Len(s) : i \in 1 .. Len(s) + Len(t)
      BY <1>2
    <3> QED BY <1>5, <2>1, <2>2, <3>1
  <2>5. ToSet(t) \subseteq ToSet(r)
    <3>1. \A i \in 1 .. Len(t) : Len(s) + i \in 1 .. Len(s) + Len(t)
      BY <1>2
    <3> QED BY <1>6, <2>1, <2>2, <3>1
  <2> QED BY <2>3, <2>4, <2>5
<1> QED BY <1>3, <1>4, <1>5, <1>6, <1>7 DEF IsJoin, r

LEMMA OneElement == \A x : IsList(<<x>>) /\ Len(<<x>>) = 1 /\ ToSet(<<x>>) = {x}
<1> SUFFICES ASSUME NEW x PROVE IsList(<<x>>) /\ Len(<<x>>) = 1 /\ ToSet(<<x>>) = {x}
  OBVIOUS
<1>1. <<x>> \in Seq({x}) /\ Len(<<x>>) = 1 /\ DOMAIN <<x>> = {1} /\ <<x>>[1] = x
  OBVIOUS
<1>2. IsList(<<x>>)
  BY <1>1, SequencesAreLists
<1> QED BY <1>1, <1>2 DEF ToSet

LEMMA AppendJoins ==
    ASSUME NEW s, IsList(s), NEW x
    PROVE  IsJoin(Append(s, x), s, <<x>>)
<1>1. Append(s, x) = s \o <<x>>
  <2> DEFINE S == ToSet(s) \cup {x}
  <2>1. s \in Seq(S) /\ x \in S
    BY ListOf
  <2> HIDE DEF S
  <2> QED BY <2>1
<1>2. IsList(<<x>>)
  BY OneElement
<1> QED BY <1>1, <1>2, Joined


\* What concatenation keeps, it keeps for any number of lists.
LEMMA Flattened ==
    ASSUME NEW Z, <<>> \in Z, \A a, b \in Z : a \o b \in Z,
           NEW ss, IsList(ss), ToSet(ss) \subseteq Z
    PROVE  FlattenSeq(ss) \in Z
<1> DEFINE L == Len(ss)
           Walk(u) == [i \in 1 .. L |-> IF i = 1 THEN ss[i] ELSE u[i - 1] \o ss[i]]
           w == CHOOSE u : u = Walk(u)
<1>1. L \in Nat /\ DOMAIN ss = 1 .. L /\ \A i \in 1 .. L : ss[i] \in Z
  BY ListFacts
<1>2. CASE L = 0
  <2>1. ss \in Seq(ToSet(ss)) /\ Len(ss) = 0
    BY <1>2 DEF IsList
  <2>2. ss = <<>>
    BY <2>1
  <2> QED BY <1>2, <2>2 DEF FlattenSeq
<1>3. CASE L # 0
  <2>1. FlattenSeq(ss) = w[L]
    BY <1>3 DEF FlattenSeq
  <2> DEFINE Walks(n, u) == u = [i \in 1 .. n |-> IF i = 1 THEN ss[i] ELSE u[i - 1] \o ss[i]]
             S == {n \in Nat : \E u : Walks(n, u)}
  <2> HIDE DEF L
  <2>2. 0 \in S
    <3> DEFINE u == [i \in 1 .. 0 |-> <<>>]
    <3>1. Walks(0, u)
      OBVIOUS
    <3> HIDE DEF u, Walks
    <3> QED BY <3>1
  <2>3. ASSUME NEW n \in Nat, n \in S PROVE n + 1 \in S
    <3>1. PICK u : Walks(n, u)
      BY <2>3
    <3> DEFINE v == [i \in 1 .. n + 1 |-> IF i = 1 THEN ss[i] ELSE u[i - 1] \o ss[i]]
    <3>2. \A i \in 1 .. n : v[i] = u[i]
      <4> SUFFICES ASSUME NEW i \in 1 .. n PROVE v[i] = u[i]
        OBVIOUS
      <4>1. i \in 1 .. n + 1
        OBVIOUS
      <4>2. u[i] = IF i = 1 THEN ss[i] ELSE u[i - 1] \o ss[i]
        BY <3>1
      <4> QED BY <4>1, <4>2
    <3>3. \A i \in 1 .. n + 1 : i # 1 => i - 1 \in 1 .. n
      OBVIOUS
    <3>4. v = [i \in 1 .. n + 1 |-> IF i = 1 THEN ss[i] ELSE u[i - 1] \o ss[i]]
      OBVIOUS
    <3> HIDE DEF v
    <3>5. \A i \in 1 .. n + 1 : v[i] = IF i = 1 THEN ss[i] ELSE v[i - 1] \o ss[i]
      BY <3>2, <3>3, <3>4
    <3>6. DOMAIN v = 1 .. n + 1 /\ v = [i \in 1 .. n + 1 |-> v[i]]
      BY <3>4
    <3>7. Walks(n + 1, v)
      BY <3>5, <3>6
    <3> HIDE DEF Walks
    <3> QED BY <3>7
  <2> HIDE DEF S
  <2>4. L \in S
    BY <1>1, <2>2, <2>3, AllNumbers
  <2>5. w = Walk(w)
    <3>1. PICK u : Walks(L, u)
      BY <2>4 DEF S
    <3>2. u = Walk(u)
      BY <3>1
    <3> HIDE DEF Walk
    <3> QED BY <3>2
  <2> HIDE DEF w
  <2>6. w[1] = ss[1] /\ 1 \in 1 .. L
    BY <1>1, <1>3, <2>5
  <2>7. ASSUME NEW n \in 2 .. L, w[n - 1] \in Z PROVE w[n] \in Z
    <3>1. n \in 1 .. L /\ n # 1
      BY <1>1
    <3>2. w[n] = w[n - 1] \o ss[n]
      BY <2>5, <3>1
    <3> QED BY <1>1, <2>7, <3>1, <3>2
  <2> DEFINE x == [n \in 0 .. L - 1 |-> w[n + 1]]
  <2>8. x[0] \in Z
    BY <1>1, <1>3, <2>6
  <2>9. ASSUME NEW n \in 1 .. L - 1, x[n - 1] \in Z PROVE x[n] \in Z
    <3>1. n + 1 \in 2 .. L /\ n \in 0 .. L - 1 /\ n - 1 \in 0 .. L - 1 /\ (n - 1) + 1 = n
          /\ (n + 1) - 1 = n
      BY <1>1
    <3>2. w[(n + 1) - 1] \in Z
      BY <2>9, <3>1
    <3> QED BY <2>7, <3>1, <3>2
  <2>10. L - 1 \in Nat /\ L - 1 \in 0 .. L - 1 /\ (L - 1) + 1 = L
    BY <1>1, <1>3
  <2> HIDE DEF x
  <2>11. x[L - 1] \in Z
    BY <2>8, <2>9, <2>10, AllAlong
  <2> QED BY <2>1, <2>10, <2>11 DEF x
<1> QED BY <1>2, <1>3

LEMMA FlattenedLists ==
    ASSUME NEW ss, IsList(ss), NEW X,
           \A i \in DOMAIN ss : IsList(ss[i]) /\ ToSet(ss[i]) \subseteq X
    PROVE  IsList(FlattenSeq(ss)) /\ ToSet(FlattenSeq(ss)) \subseteq X
<1>1. \A i \in DOMAIN ss : ss[i] \in Seq(X)
  BY ListOf
<1>2. ToSet(ss) \subseteq Seq(X)
  BY <1>1 DEF ToSet
<1>3. <<>> \in Seq(X) /\ \A a, b \in Seq(X) : a \o b \in Seq(X)
  OBVIOUS
<1>4. FlattenSeq(ss) \in Seq(X)
  BY <1>2, <1>3, Flattened
<1> QED BY <1>4, SequencesAreLists

\* What is taken from a list.
LEMMA Taken ==
    ASSUME NEW s, IsList(s), NEW S
    PROVE  IsList(Only(s, S)) /\ ToSet(Only(s, S)) \subseteq ToSet(s) \cap S
<1> DEFINE ss == [i \in DOMAIN s |-> IF s[i] \in S THEN <<s[i]>> ELSE <<>>]
           X == ToSet(s) \cap S
<1>1. Len(s) \in Nat /\ DOMAIN s = 1 .. Len(s)
  BY ListFacts
<1>2. ss = [i \in 1 .. Len(s) |-> ss[i]]
  BY <1>1
<1>3. ASSUME NEW i \in DOMAIN s PROVE IsList(ss[i]) /\ ToSet(ss[i]) \subseteq X
  <2>1. s[i] \in ToSet(s)
    BY DEF ToSet
  <2>2. CASE s[i] \in S
    BY <2>1, <2>2, OneElement
  <2>3. CASE s[i] \notin S
    BY <2>3, NoElements
  <2> QED BY <2>2, <2>3
<1>4. DOMAIN ss = DOMAIN s
  OBVIOUS
<1> HIDE DEF ss
<1>5. IsList(ss)
  BY <1>1, <1>2, ListMade
<1>6. IsList(FlattenSeq(ss)) /\ ToSet(FlattenSeq(ss)) \subseteq X
  BY <1>3, <1>4, <1>5, FlattenedLists
<1> QED BY <1>6 DEF Only, ss


----------------------------------------------------------------------------
(* A load of a task.                                                        *)

LEMMA OverBoth ==
    \A f, g : DOMAIN Over(f, g) = DOMAIN f \cup DOMAIN g
<1> QED BY DEF Over

LEMMA ParametersJoined ==
    ASSUME NEW s, NEW t, AreParameters(s), AreParameters(t)
    PROVE  AreParameters(s \o t) /\ Ids(s \o t) = Ids(s) \cup Ids(t)
<1> DEFINE r == s \o t
<1>1. IsList(s) /\ IsList(t) /\ \A i \in DOMAIN s : "id" \in DOMAIN s[i]
  BY DEF AreParameters
<1>2. \A i \in DOMAIN t : "id" \in DOMAIN t[i]
  BY DEF AreParameters
<1>3. IsJoin(r, s, t)
  BY <1>1, Joined
<1> HIDE DEF r
<1>4. IsList(r) /\ ToSet(r) = ToSet(s) \cup ToSet(t)
  BY <1>3 DEF IsJoin
<1>5. \A x \in ToSet(s) \cup ToSet(t) : "id" \in DOMAIN x
  BY <1>1, <1>2 DEF ToSet
<1>6. \A i \in DOMAIN r : r[i] \in ToSet(r)
  BY DEF ToSet
<1>7. AreParameters(r)
  BY <1>4, <1>5, <1>6 DEF AreParameters
<1>8. \A q : Ids(q) = {x.id : x \in ToSet(q)}
  BY DEF Ids, ToSet
<1>9. Ids(r) = Ids(s) \cup Ids(t)
  BY <1>4, <1>8
<1> QED BY <1>7, <1>9 DEF r

LoadFields == {"parameters", "inputs", "resolved", "commands", "defaults", "processed",
               "visited", "errors"}

IsLoad(l) ==
    LoadFields \subseteq DOMAIN l /\ AreParameters(l.parameters) /\ IsList(l.commands)

\* Nothing is lost of a load.
Grown(l, m) ==
    /\ IsLoad(m) /\ m.inputs = l.inputs /\ l.errors \subseteq m.errors
    /\ Ids(l.parameters) \subseteq Ids(m.parameters)

\* Nor is a command or an output added.
Kept(l, m) ==
    /\ Grown(l, m) /\ m.commands = l.commands /\ m.visited = l.visited
    /\ m.resolved = l.resolved

LEMMA KeptItself == \A l : IsLoad(l) => Kept(l, l)
<1> QED BY DEF Kept, Grown

LEMMA KeptTwice == \A l, m, n : Kept(l, m) /\ Kept(m, n) => Kept(l, n)
<1> QED BY DEF Kept, Grown

LEMMA Complained ==
    ASSUME NEW l, IsLoad(l), NEW E
    PROVE  Kept(l, Complaints(l, E)) /\ E \subseteq Complaints(l, E).errors
<1> DEFINE m == Complaints(l, E)
<1>1. DOMAIN m = DOMAIN l /\ m.errors = l.errors \cup E
  BY DEF IsLoad, LoadFields, Complaints
<1>2. /\ m.parameters = l.parameters /\ m.inputs = l.inputs /\ m.resolved = l.resolved
      /\ m.commands = l.commands /\ m.visited = l.visited
  BY DEF IsLoad, LoadFields, Complaints
<1> HIDE DEF m
<1>3. IsLoad(m)
  BY <1>1, <1>2 DEF IsLoad
<1>4. Kept(l, m) /\ E \subseteq m.errors
  BY <1>1, <1>2, <1>3 DEF Kept, Grown
<1> QED BY <1>4 DEF m

LEMMA ComplainedOnce ==
    ASSUME NEW l, IsLoad(l), NEW what
    PROVE  Kept(l, Complain(l, what)) /\ Complain(l, what).errors # {}
<1>1. Kept(l, Complaints(l, {what})) /\ {what} \subseteq Complaints(l, {what}).errors
  BY Complained
<1> QED BY <1>1 DEF Complain

LEMMA Marked ==
    ASSUME NEW l, IsLoad(l), NEW name, NEW category, NEW template
    PROVE  Kept(l, MarkProcessed(l, name, category, template))
<1> DEFINE m == MarkProcessed(l, name, category, template)
<1>1. DOMAIN m = DOMAIN l /\ m.errors = l.errors /\ m.visited = l.visited
  BY DEF IsLoad, LoadFields, MarkProcessed
<1>2. /\ m.parameters = l.parameters /\ m.inputs = l.inputs /\ m.resolved = l.resolved
      /\ m.commands = l.commands
  BY DEF IsLoad, LoadFields, MarkProcessed
<1> HIDE DEF m
<1>3. IsLoad(m)
  BY <1>1, <1>2 DEF IsLoad
<1>4. Kept(l, m)
  BY <1>1, <1>2, <1>3 DEF Kept, Grown
<1> QED BY <1>4 DEF m

\* A template's parameters come behind those there are.
LEMMA ParametersAdded ==
    ASSUME NEW l, IsLoad(l), NEW name, NEW template, AreParameters(template.parameters)
    PROVE  Kept(l, ValidateAndAddParameters(l, name, template))
<1> DEFINE ps == template.parameters
           fresh == {i \in DOMAIN ps : /\ ps[i].id \notin Ids(l.parameters)
                                       /\ \A j \in 1 .. i - 1 : ps[j].id # ps[i].id}
           places == [i \in DOMAIN ps |-> i]
           added == Only(places, fresh)
           One(p) == [p EXCEPT !.default = @ \/ p.choices = "one"]
           new == [k \in DOMAIN added |-> One(ps[added[k]])]
           m == [l EXCEPT !.parameters = @ \o new]
           E == {<<"no description", ps[i].id>> : i \in {j \in fresh : ~ps[j].described}}
<1>1. IsList(ps) /\ \A i \in DOMAIN ps : "id" \in DOMAIN ps[i]
  BY DEF AreParameters
<1>2. Len(ps) \in Nat /\ DOMAIN ps = 1 .. Len(ps)
  BY <1>1, ListFacts
<1>3. places = [i \in 1 .. Len(ps) |-> places[i]]
  BY <1>2
<1>4. IsList(places)
  <2> HIDE DEF places
  <2> QED BY <1>2, <1>3, ListMade
<1>5. ToSet(places) \subseteq DOMAIN ps
  BY DEF ToSet
<1>6. IsList(added) /\ ToSet(added) \subseteq DOMAIN ps
  <2> HIDE DEF places, fresh
  <2> QED BY <1>4, <1>5, Taken
<1>7. Len(added) \in Nat /\ DOMAIN added = 1 .. Len(added)
      /\ \A k \in DOMAIN added : added[k] \in DOMAIN ps
  <2> HIDE DEF added
  <2>1. Len(added) \in Nat /\ DOMAIN added = 1 .. Len(added)
    BY <1>6, ListFacts
  <2>2. \A k \in DOMAIN added : added[k] \in ToSet(added)
    BY DEF ToSet
  <2> QED BY <1>6, <2>1, <2>2
<1> HIDE DEF added, places, fresh
<1>8. \A k \in DOMAIN added : "id" \in DOMAIN new[k]
  BY <1>1, <1>7
<1>9. new = [k \in 1 .. Len(added) |-> new[k]] /\ DOMAIN new = DOMAIN added
  BY <1>7
<1> HIDE DEF new
<1>10. AreParameters(new)
  BY <1>7, <1>8, <1>9, ListMade DEF AreParameters
<1>11. /\ AreParameters(l.parameters \o new)
       /\ Ids(l.parameters) \subseteq Ids(l.parameters \o new)
  BY <1>10, ParametersJoined DEF IsLoad
<1>12. /\ DOMAIN m = DOMAIN l /\ m.parameters = l.parameters \o new /\ m.inputs = l.inputs
       /\ m.resolved = l.resolved /\ m.commands = l.commands /\ m.visited = l.visited
       /\ m.errors = l.errors
  BY DEF IsLoad, LoadFields
<1> HIDE DEF m
<1>13. IsLoad(m)
  BY <1>11, <1>12 DEF IsLoad
<1>14. Kept(l, m)
  BY <1>11, <1>12, <1>13 DEF Kept, Grown
<1>15. ValidateAndAddParameters(l, name, template) = Complaints(m, E)
  BY DEF ValidateAndAddParameters, m, E, new, added, fresh, places, One, ps
<1> HIDE DEF E
<1>16. Kept(m, Complaints(m, E))
  BY <1>13, Complained
<1> QED BY <1>14, <1>15, <1>16, KeptTwice

----------------------------------------------------------------------------
(* The variables of scripts and commands.                                   *)

\* What is known when a command is met.
KnownTo(l) == BuiltInVariables \cup Ids(l.parameters) \cup DOMAIN l.resolved

LEMMA VariablesChecked ==
    ASSUME NEW l, IsLoad(l), NEW of, NEW uses
    PROVE  /\ Kept(l, CheckVariables(l, of, uses))
           /\ CheckVariables(l, of, uses).errors = {} => uses \subseteq KnownTo(l)
<1>1. Kept(l, l) /\ Kept(l, Complain(l, <<"undefined variable", of>>))
  BY KeptItself, ComplainedOnce
<1>2. Complain(l, <<"undefined variable", of>>).errors # {}
  BY ComplainedOnce
<1> QED BY <1>1, <1>2 DEF CheckVariables, KnownTo

LEMMA ScriptChecked ==
    ASSUME NEW l, IsLoad(l), NEW files, NEW command, command.kind = "script"
    PROVE  /\ Kept(l, ValidateScriptContent(l, files, command))
           /\ ValidateScriptContent(l, files, command).errors = {}
                 => VariablesOf(files, command) \subseteq KnownTo(l)
<1>1. CASE command.of \in DOMAIN files.scripts
  <2>1. VariablesOf(files, command) = files.scripts[command.of]
    BY <1>1 DEF VariablesOf
  <2>2. ValidateScriptContent(l, files, command) =
           CheckVariables(l, command.of, files.scripts[command.of])
    BY <1>1 DEF ValidateScriptContent
  <2> QED BY <2>1, <2>2, VariablesChecked
<1>2. CASE command.of \notin DOMAIN files.scripts
  <2>1. ValidateScriptContent(l, files, command) = Complain(l, <<"no script", command.of>>)
    BY <1>2 DEF ValidateScriptContent
  <2> QED BY <2>1, ComplainedOnce
<1> QED BY <1>1, <1>2

LEMMA LibrariesChecked ==
    ASSUME NEW l, IsLoad(l), NEW files, NEW libs
    PROVE  Kept(l, ValidateLibraryContent(l, files, libs))
<1> QED BY Complained DEF ValidateLibraryContent

Checked(l, files, item) ==
    LET command == item.command
    IN  CASE command.kind = "script" ->
               ValidateLibraryContent(ValidateScriptContent(l, files, command),
                                      files, ToSet(command.libraries))
          [] command.kind = "command" -> CheckVariables(l, item.name, command.uses)
          [] OTHER -> l

\* A command all of whose checks pass uses what is known.
LEMMA CommandChecked ==
    ASSUME NEW l, IsLoad(l), NEW files, NEW item
    PROVE  /\ Kept(l, Checked(l, files, item))
           /\ Checked(l, files, item).errors = {}
                 => VariablesOf(files, item.command) \subseteq KnownTo(l)
<1> DEFINE c == item.command
<1>1. CASE c.kind = "script"
  <2> DEFINE m == ValidateScriptContent(l, files, c)
             n == ValidateLibraryContent(m, files, ToSet(c.libraries))
  <2>1. Kept(l, m) /\ (m.errors = {} => VariablesOf(files, c) \subseteq KnownTo(l))
    BY <1>1, ScriptChecked
  <2>2. IsLoad(m)
    BY <2>1 DEF Kept, Grown
  <2>3. Kept(m, n)
    BY <2>2, LibrariesChecked
  <2>4. Checked(l, files, item) = n
    BY <1>1 DEF Checked
  <2> HIDE DEF m, n
  <2>5. n.errors = {} => m.errors = {}
    BY <2>3 DEF Kept, Grown
  <2> QED BY <2>1, <2>3, <2>4, <2>5, KeptTwice
<1>2. CASE c.kind = "command"
  <2>1. VariablesOf(files, c) = c.uses
    BY <1>2 DEF VariablesOf
  <2>2. Checked(l, files, item) = CheckVariables(l, item.name, c.uses)
    BY <1>2 DEF Checked
  <2> QED BY <2>1, <2>2, VariablesChecked
<1>3. CASE c.kind # "script" /\ c.kind # "command"
  <2>1. VariablesOf(files, c) = {}
    BY <1>3 DEF VariablesOf
  <2>2. Checked(l, files, item) = l
    BY <1>3 DEF Checked
  <2> QED BY <2>1, <2>2, KeptItself
<1> QED BY <1>1, <1>2, <1>3


----------------------------------------------------------------------------
(* What the commands of a template give values to.                          *)

CommandGives(command) ==
    Ids(command.outputs)
    \cup {p.id : p \in {q \in ToSet(command.properties) : ~OnlyDefault(q)}}

\* A template announces nothing that none of its commands gives.
LEMMA AnnouncedIds ==
    ASSUME NEW template, IsTemplate(template), NEW o \in ToSet(AllOutputs(template))
    PROVE  \E c \in DOMAIN template.commands : o.id \in CommandGives(template.commands[c])
<1> DEFINE cs == template.commands
           Outputs(command) ==
               [i \in DOMAIN command.outputs |->
                   [id |-> command.outputs[i].id, optional |-> command.outputs[i].optional,
                    late |-> FALSE]]
           Properties(command) ==
               [i \in DOMAIN command.properties |->
                   [id |-> command.properties[i].id, optional |-> FALSE,
                    late |-> OnlyDefault(command.properties[i])]]
           ss == [c \in DOMAIN cs |-> Outputs(cs[c]) \o Properties(cs[c])]
           X == UNION {ToSet(ss[c]) : c \in DOMAIN cs}
           announced == Announced(template)
<1>1. IsList(cs) /\ \A c \in DOMAIN cs : IsCommand(cs[c])
  BY DEF IsTemplate
<1>2. Len(cs) \in Nat /\ DOMAIN cs = 1 .. Len(cs)
  BY <1>1, ListFacts
<1>3. ASSUME NEW c \in DOMAIN cs PROVE IsJoin(ss[c], Outputs(cs[c]), Properties(cs[c]))
  <2> DEFINE a == Outputs(cs[c])
             b == Properties(cs[c])
  <2>1. IsList(cs[c].outputs) /\ IsList(cs[c].properties)
    BY <1>1 DEF IsCommand
  <2>2. /\ Len(cs[c].outputs) \in Nat /\ DOMAIN cs[c].outputs = 1 .. Len(cs[c].outputs)
        /\ Len(cs[c].properties) \in Nat /\ DOMAIN cs[c].properties = 1 .. Len(cs[c].properties)
    BY <2>1, ListFacts
  <2>3. a = [i \in 1 .. Len(cs[c].outputs) |-> a[i]]
    BY <2>2
  <2>4. b = [i \in 1 .. Len(cs[c].properties) |-> b[i]]
    BY <2>2
  <2>5. ss[c] = a \o b
    OBVIOUS
  <2> HIDE DEF a, b, ss
  <2>6. IsList(a) /\ IsList(b)
    BY <2>2, <2>3, <2>4, ListMade
  <2>7. IsJoin(ss[c], a, b)
    BY <2>5, <2>6, Joined
  <2> QED BY <2>7 DEF a, b
<1>4. announced = FlattenSeq(ss)
  BY DEF Announced
<1>5. ss = [c \in 1 .. Len(cs) |-> ss[c]] /\ DOMAIN ss = DOMAIN cs
  BY <1>2
<1>6. IsList(announced) /\ ToSet(announced) \subseteq X
  <2> HIDE DEF announced
  <2>1. \A c \in DOMAIN ss : IsList(ss[c]) /\ ToSet(ss[c]) \subseteq X
    BY <1>3, <1>5 DEF IsJoin
  <2> HIDE DEF ss, X
  <2>2. IsList(ss)
    BY <1>2, <1>5, ListMade
  <2> QED BY <1>4, <2>1, <2>2, FlattenedLists
<1>7. AllOutputs(template) = Only(announced, {x \in ToSet(announced) : ~x.late})
  BY DEF AllOutputs
<1>8. o \in X /\ ~o.late
  <2> HIDE DEF announced, X
  <2> DEFINE W == {x \in ToSet(announced) : ~x.late}
  <2>1. o \in ToSet(Only(announced, W))
    BY <1>7
  <2> HIDE DEF W
  <2>2. o \in ToSet(announced) /\ o \in W
    BY <1>6, <2>1, Taken
  <2> QED BY <1>6, <2>2 DEF W
<1>9. PICK c \in DOMAIN cs : o \in ToSet(ss[c])
  BY <1>8
<1>10. o \in ToSet(Outputs(cs[c])) \/ o \in ToSet(Properties(cs[c]))
  <2> HIDE DEF ss
  <2> QED BY <1>3, <1>9 DEF IsJoin
<1>11. CASE o \in ToSet(Outputs(cs[c]))
  <2>1. PICK i \in DOMAIN cs[c].outputs : o = Outputs(cs[c])[i]
    BY <1>11 DEF ToSet
  <2>2. o.id \in Ids(cs[c].outputs)
    BY <2>1 DEF Ids
  <2> QED BY <2>2 DEF CommandGives
<1>12. CASE o \in ToSet(Properties(cs[c]))
  <2>1. PICK i \in DOMAIN cs[c].properties : o = Properties(cs[c])[i]
    BY <1>12 DEF ToSet
  <2> DEFINE q == cs[c].properties[i]
  <2>2. o.id = q.id /\ o.late = OnlyDefault(q)
    BY <2>1
  <2>3. q \in ToSet(cs[c].properties)
    BY DEF ToSet
  <2> HIDE DEF q
  <2>4. ~OnlyDefault(q)
    BY <1>8, <2>2
  <2>5. o.id \in CommandGives(cs[c])
    BY <2>2, <2>3, <2>4 DEF CommandGives
  <2> QED BY <2>5
<1> QED BY <1>10, <1>11, <1>12

----------------------------------------------------------------------------
(* The walk through the commands of a template and of those nested in it.   *)

LEMMA Parted ==
    ASSUME NEW s, IsList(s), s # <<>>
    PROVE  /\ IsList(Tail(s)) /\ Len(Tail(s)) = Len(s) - 1 /\ Len(s) \in Nat /\ Len(s) > 0
           /\ Head(s) = s[1] /\ \A i \in 1 .. Len(Tail(s)) : Tail(s)[i] = s[i + 1]
           /\ ToSet(s) = {Head(s)} \cup ToSet(Tail(s))
<1> DEFINE S == ToSet(s)
           t == Tail(s)
<1>1. s \in Seq(S)
  BY DEF IsList
<1>2. Len(s) \in Nat /\ DOMAIN s = 1 .. Len(s) /\ S = {s[i] : i \in 1 .. Len(s)}
  BY ListFacts
<1> HIDE DEF S
<1>3. t \in Seq(S) /\ Len(t) = Len(s) - 1 /\ Len(s) > 0 /\ Head(s) = s[1]
      /\ \A i \in 1 .. Len(t) : t[i] = s[i + 1]
  BY <1>1
<1> HIDE DEF t
<1>4. IsList(t)
  BY <1>3, SequencesAreLists
<1>5. ToSet(t) = {t[i] : i \in 1 .. Len(t)}
  BY <1>4, ListFacts
<1>6. ASSUME NEW x \in S PROVE x = s[1] \/ x \in ToSet(t)
  <2>1. PICK i \in 1 .. Len(s) : x = s[i]
    BY <1>2
  <2>2. CASE i # 1
    <3>1. i - 1 \in 1 .. Len(t) /\ (i - 1) + 1 = i
      BY <1>2, <1>3, <2>2
    <3>2. t[i - 1] = s[i]
      BY <1>3, <3>1
    <3> QED BY <1>5, <2>1, <3>1, <3>2
  <2> QED BY <2>1, <2>2
<1>7. ASSUME NEW x \in ToSet(t) PROVE x \in S
  <2>1. PICK i \in 1 .. Len(t) : x = t[i]
    BY <1>5
  <2>2. i + 1 \in 1 .. Len(s)
    BY <1>2, <1>3
  <2> QED BY <1>2, <1>3, <2>1, <2>2
<1>8. s[1] \in S
  BY <1>2, <1>3
<1> QED BY <1>2, <1>3, <1>4, <1>6, <1>7, <1>8 DEF S, t

\* Commands still to be gone through: those of a template, and behind them
\* those of the templates it is nested in.
IsItems(todo) ==
    /\ IsList(todo)
    /\ \A t \in ToSet(todo) :
          IsCommand(t.command) /\ "addon_action" \notin CommandGives(t.command)
    /\ \A p, q \in 1 .. Len(todo) : p <= q => todo[q].name \in todo[p].within

\* Somebody gives the variable of the i-th command a value.
Settled(l, i, v) ==
    \/ v \in BuiltInVariables \cup l.inputs \cup Ids(l.parameters)
    \/ \E j \in DOMAIN l.commands :
          LET from == l.commands[j]
          IN  /\ from.skipped = "" /\ v \in from.gives
              /\ j <= i \/ from.template \in l.commands[i].within

\* A command still to come gives the variable a value, in one of the templates.
Comes(todo, within, v) ==
    \E t \in ToSet(todo) : t.name \in within /\ v \in CommandGives(t.command)

HasGiver(l, todo, v) ==
    \/ v \in l.inputs
    \/ \E c \in ToSet(l.commands) : c.skipped = "" /\ v \in c.gives
    \/ \E t \in ToSet(todo) : v \in CommandGives(t.command)

Sourced(l, todo) ==
    /\ \A v \in DOMAIN l.resolved : HasGiver(l, todo, v)
    /\ l.errors = {} =>
          \A i \in DOMAIN l.commands : l.commands[i].skipped = "" =>
              \A v \in l.commands[i].uses :
                  Settled(l, i, v) \/ Comes(todo, l.commands[i].within, v)

\* What is still to come of `todo' is in `next', or among the commands added.
Passes(todo, next, new) ==
    \A t \in ToSet(todo) :
        \/ t \in ToSet(next)
        \/ CommandGives(t.command) = {}
        \/ \E c \in ToSet(new) : c.skipped = "" /\ c.template = t.name
                                 /\ c.gives = CommandGives(t.command)

LEMMA Places ==
    ASSUME NEW a \in Nat, NEW b \in Nat
    PROVE  /\ \A i \in 1 .. a + b : i \notin 1 .. a => i - a \in 1 .. b /\ a + (i - a) = i
           /\ \A k \in 1 .. b : a + k \in 1 .. a + b
           /\ \A i \in 1 .. a : i \in 1 .. a + b
<1> QED OBVIOUS

\* The commands of l, and behind them those that are new.
LEMMA SourcedOn ==
    ASSUME NEW l, NEW m, NEW todo, NEW next, NEW new,
           IsLoad(l), Grown(l, m), IsList(new), IsJoin(m.commands, l.commands, new),
           Sourced(l, todo), Passes(todo, next, new),
           \A v \in DOMAIN m.resolved \ DOMAIN l.resolved : HasGiver(m, next, v),
           m.errors = {} => \A k \in 1 .. Len(new) : new[k].skipped = "" =>
               \A v \in new[k].uses :
                   Settled(m, Len(l.commands) + k, v) \/ Comes(next, new[k].within, v)
    PROVE  Sourced(m, next)
<1> DEFINE L == Len(l.commands)
<1>1. /\ L \in Nat /\ DOMAIN l.commands = 1 .. L /\ Len(new) \in Nat /\ DOMAIN new = 1 .. Len(new)
      /\ ToSet(new) = {new[k] : k \in 1 .. Len(new)}
  BY ListFacts DEF IsLoad
<1>2. /\ DOMAIN m.commands = 1 .. L + Len(new)
      /\ \A i \in 1 .. L : m.commands[i] = l.commands[i]
      /\ \A k \in 1 .. Len(new) : m.commands[L + k] = new[k]
      /\ ToSet(m.commands) = ToSet(l.commands) \cup ToSet(new)
  BY DEF IsJoin
<1> HIDE DEF L
<1>6. L \in Nat /\ Len(new) \in Nat /\ DOMAIN m.commands = 1 .. L + Len(new)
  BY <1>1, <1>2
<1>7. DOMAIN l.commands = 1 .. L /\ \A i \in 1 .. L : m.commands[i] = l.commands[i]
  BY <1>1, <1>2
<1>8. \A k \in 1 .. Len(new) : m.commands[L + k] = new[k]
  BY <1>2
<1>3. m.inputs = l.inputs /\ l.errors \subseteq m.errors
      /\ Ids(l.parameters) \subseteq Ids(m.parameters)
  BY DEF Grown
<1>4. ASSUME NEW v \in DOMAIN m.resolved PROVE HasGiver(m, next, v)
  <2>1. CASE v \notin DOMAIN l.resolved
    BY <2>1
  <2>2. CASE v \in DOMAIN l.resolved
    <3>1. HasGiver(l, todo, v)
      BY <2>2 DEF Sourced
    <3>2. CASE v \in l.inputs \/ \E c \in ToSet(l.commands) : c.skipped = "" /\ v \in c.gives
      BY <1>2, <1>3, <3>2 DEF HasGiver
    <3>3. CASE \E t \in ToSet(todo) : v \in CommandGives(t.command)
      <4>1. PICK t \in ToSet(todo) : v \in CommandGives(t.command)
        BY <3>3
      <4>2. \/ t \in ToSet(next)
            \/ \E c \in ToSet(new) : c.skipped = "" /\ c.gives = CommandGives(t.command)
        BY <4>1 DEF Passes
      <4> QED BY <1>2, <4>1, <4>2 DEF HasGiver
    <3> QED BY <3>1, <3>2, <3>3 DEF HasGiver
  <2> QED BY <2>1, <2>2
<1>5. ASSUME m.errors = {}, NEW i \in DOMAIN m.commands, m.commands[i].skipped = "",
             NEW v \in m.commands[i].uses
      PROVE  Settled(m, i, v) \/ Comes(next, m.commands[i].within, v)
  <2>1. l.errors = {}
    BY <1>3, <1>5
  <2>2. CASE i \in 1 .. L
    <3> DEFINE by == l.commands[i]
    <3>1. m.commands[i] = by /\ by.skipped = "" /\ v \in by.uses /\ i \in DOMAIN l.commands
      BY <1>1, <1>2, <1>5, <2>2
    <3>2. Settled(l, i, v) \/ Comes(todo, by.within, v)
      BY <2>1, <3>1 DEF Sourced
    <3>3. CASE Settled(l, i, v)
      <4>1. CASE v \in BuiltInVariables \cup l.inputs \cup Ids(l.parameters)
        <5>1. v \in BuiltInVariables \cup m.inputs \cup Ids(m.parameters)
          BY <1>3, <4>1
        <5> QED BY <5>1 DEF Settled
      <4>2. CASE ~(v \in BuiltInVariables \cup l.inputs \cup Ids(l.parameters))
        <5>1. PICK j \in DOMAIN l.commands :
                /\ l.commands[j].skipped = "" /\ v \in l.commands[j].gives
                /\ j <= i \/ l.commands[j].template \in l.commands[i].within
          BY <3>3, <4>2 DEF Settled
        <5>2. j \in DOMAIN m.commands /\ m.commands[j] = l.commands[j]
          BY <1>6, <1>7, Places
        <5> QED BY <3>1, <5>1, <5>2 DEF Settled
      <4> QED BY <4>1, <4>2
    <3>4. CASE Comes(todo, by.within, v)
      <4>1. PICK t \in ToSet(todo) : t.name \in by.within /\ v \in CommandGives(t.command)
        BY <3>4 DEF Comes
      <4>2. CASE t \in ToSet(next)
        BY <3>1, <4>1, <4>2 DEF Comes
      <4>3. CASE t \notin ToSet(next)
        <5>1. PICK c \in ToSet(new) : c.skipped = "" /\ c.template = t.name
                                      /\ c.gives = CommandGives(t.command)
          BY <4>1, <4>3 DEF Passes
        <5>2. PICK k \in 1 .. Len(new) : c = new[k]
          BY <1>1
        <5>3. L + k \in DOMAIN m.commands /\ m.commands[L + k] = c
          BY <1>6, <1>8, <5>2, Places
        <5> QED BY <3>1, <4>1, <5>1, <5>3 DEF Settled
      <4> QED BY <4>2, <4>3
    <3> QED BY <3>2, <3>3, <3>4
  <2>3. CASE ~(i \in 1 .. L)
    <3>1. i - L \in 1 .. Len(new) /\ L + (i - L) = i
      BY <1>6, <2>3, Places
    <3>2. m.commands[i] = new[i - L]
      BY <1>8, <3>1
    <3> QED BY <1>5, <3>1, <3>2 DEF L
  <2> QED BY <2>2, <2>3
<1> QED BY <1>4, <1>5 DEF Sourced


----------------------------------------------------------------------------
(* A template is entered.                                                   *)

AreFiles(files) == \A n \in DOMAIN files.templates : IsFile("template", files.templates[n])

CommandFields == {"template", "within", "category", "skipped", "uses", "gives"}

\* A command of the category that does not set what tells the notes' script
\* that an addon goes.
Belongs(c, category) ==
    /\ CommandFields \subseteq DOMAIN c
    /\ c.category = category /\ "addon_action" \notin c.gives

\* The commands of l come first in m; the others are of the category.
Longer(l, m, category) ==
    /\ Grown(l, m)
    /\ Len(l.commands) <= Len(m.commands)
    /\ \A i \in 1 .. Len(l.commands) : m.commands[i] = l.commands[i]
    /\ \A i \in Len(l.commands) + 1 .. Len(m.commands) :
          Belongs(m.commands[i], category)

LEMMA LongerTwice ==
    ASSUME NEW l, NEW m, NEW n, NEW category, IsLoad(l),
           Longer(l, m, category), Longer(m, n, category)
    PROVE  Longer(l, n, category)
<1>1. Grown(l, n)
  BY DEF Longer, Grown
<1>2. IsLoad(m) /\ IsLoad(n)
  BY DEF Longer, Grown
<1>3. Len(l.commands) \in Nat /\ Len(m.commands) \in Nat /\ Len(n.commands) \in Nat
  BY <1>2, ListFacts DEF IsLoad
<1>4. /\ Len(l.commands) <= Len(m.commands) /\ Len(m.commands) <= Len(n.commands)
      /\ \A i \in 1 .. Len(l.commands) : m.commands[i] = l.commands[i]
      /\ \A i \in 1 .. Len(m.commands) : n.commands[i] = m.commands[i]
      /\ \A i \in Len(l.commands) + 1 .. Len(m.commands) :
            Belongs(m.commands[i], category)
      /\ \A i \in Len(m.commands) + 1 .. Len(n.commands) :
            Belongs(n.commands[i], category)
  BY DEF Longer
<1> DEFINE a == Len(l.commands)
           b == Len(m.commands)
           c == Len(n.commands)
<1>5. a <= c /\ \A i \in 1 .. a : i \in 1 .. b
  BY <1>3, <1>4
<1>6. \A i \in a + 1 .. c : (i \in a + 1 .. b /\ i \in 1 .. b) \/ i \in b + 1 .. c
  BY <1>3
<1> HIDE DEF a, b, c
<1>7. \A i \in 1 .. a : n.commands[i] = l.commands[i]
  BY <1>4, <1>5 DEF a, b
<1>8. \A i \in a + 1 .. c : Belongs(n.commands[i], category)
  BY <1>4, <1>6 DEF a, b, c
<1> QED BY <1>1, <1>5, <1>7, <1>8 DEF Longer, a, c

\* New commands of the category.
LEMMA LongerBy ==
    ASSUME NEW l, NEW m, NEW new, NEW category, IsLoad(l), Grown(l, m), IsList(new),
           IsJoin(m.commands, l.commands, new),
           \A c \in ToSet(new) : Belongs(c, category)
    PROVE  Longer(l, m, category)
<1> DEFINE L == Len(l.commands)
           N == Len(new)
<1>1. L \in Nat /\ N \in Nat /\ ToSet(new) = {new[k] : k \in 1 .. N}
  BY ListFacts DEF IsLoad
<1>2. /\ Len(m.commands) = L + N
      /\ \A i \in 1 .. L : m.commands[i] = l.commands[i]
      /\ \A k \in 1 .. N : m.commands[L + k] = new[k]
  BY DEF IsJoin
<1> HIDE DEF L, N
<1>3. L <= L + N /\ \A i \in L + 1 .. L + N : i - L \in 1 .. N /\ L + (i - L) = i
  BY <1>1
<1>4. ASSUME NEW i \in L + 1 .. L + N
      PROVE  Belongs(m.commands[i], category)
  <2>1. m.commands[i] = new[i - L] /\ new[i - L] \in ToSet(new)
    BY <1>1, <1>2, <1>3
  <2> QED BY <2>1
<1> QED BY <1>2, <1>3, <1>4 DEF Longer, L

\* No command is new, and nothing is known that was not.
LEMMA SourcedStill ==
    ASSUME NEW l, NEW m, NEW todo, NEW category, IsLoad(l), Grown(l, m),
           m.commands = l.commands, m.resolved = l.resolved, Sourced(l, todo)
    PROVE  Sourced(m, todo) /\ Longer(l, m, category)
<1>1. IsList(<<>>) /\ Len(<<>>) = 0 /\ ToSet(<<>>) = {}
  BY NoElements
<1>2. IsList(l.commands)
  BY DEF IsLoad
<1>3. IsJoin(m.commands, l.commands, <<>>)
  <2>1. Len(l.commands) \in Nat /\ DOMAIN l.commands = 1 .. Len(l.commands)
    BY <1>2, ListFacts
  <2> QED BY <1>1, <1>2, <2>1 DEF IsJoin
<1>4. Passes(todo, todo, <<>>)
  BY DEF Passes
<1> DEFINE new == <<>>
<1>7. IsList(new) /\ Len(new) = 0 /\ IsJoin(m.commands, l.commands, new)
      /\ Passes(todo, todo, new)
  BY <1>1, <1>3, <1>4
<1> HIDE DEF new
<1>8. 1 .. Len(new) = {}
  BY <1>7
<1>5. Sourced(m, todo)
  <2>1. \A v \in DOMAIN m.resolved \ DOMAIN l.resolved : HasGiver(m, todo, v)
    OBVIOUS
  <2>2. \A k \in 1 .. Len(new) : new[k].skipped = "" =>
           \A v \in new[k].uses :
               Settled(m, Len(l.commands) + k, v) \/ Comes(todo, new[k].within, v)
    BY <1>8
  <2> QED BY <1>7, <2>1, <2>2, SourcedOn
<1>6. Longer(l, m, category)
  BY <1>1, <1>3, LongerBy
<1> QED BY <1>5, <1>6

\* What a template's commands give is announced.
LEMMA OutputsApplied ==
    ASSUME NEW l, IsLoad(l), NEW files, NEW name, NEW template, IsTemplate(template)
    PROVE  LET m == ApplyOutputs(l, files, name, template)
           IN  /\ Grown(l, m) /\ m.commands = l.commands /\ m.visited = l.visited
               /\ \A v \in DOMAIN m.resolved \ DOMAIN l.resolved :
                     \E c \in DOMAIN template.commands : v \in CommandGives(template.commands[c])
<1> DEFINE outputs == ToSet(AllOutputs(template))
           refused == {o \in outputs : o.id \in DOMAIN l.resolved
                                         /\ ~MayReplace(l, files, o, template)}
           set     == [id \in {o.id : o \in outputs \ refused} |-> name]
           x       == [l EXCEPT !.resolved = Over(set, @)]
           E       == {<<"set twice", o.id>> : o \in refused}
           m       == ApplyOutputs(l, files, name, template)
<1>1. m = Complaints(x, E)
  BY DEF ApplyOutputs
<1>2. /\ DOMAIN x = DOMAIN l /\ x.parameters = l.parameters /\ x.inputs = l.inputs
      /\ x.resolved = Over(set, l.resolved) /\ x.commands = l.commands /\ x.visited = l.visited
      /\ x.errors = l.errors
  BY DEF IsLoad, LoadFields
<1>3. DOMAIN x.resolved = {o.id : o \in outputs \ refused} \cup DOMAIN l.resolved
  <2>1. DOMAIN set = {o.id : o \in outputs \ refused}
    OBVIOUS
  <2> HIDE DEF set
  <2> QED BY <1>2, <2>1, OverBoth
<1>4. \A o \in outputs : \E c \in DOMAIN template.commands :
            o.id \in CommandGives(template.commands[c])
  BY AnnouncedIds
<1>5. \A v \in DOMAIN x.resolved \ DOMAIN l.resolved :
         \E c \in DOMAIN template.commands : v \in CommandGives(template.commands[c])
  <2> HIDE DEF outputs, refused, x
  <2> QED BY <1>3, <1>4
<1> HIDE DEF x, E, m
<1>6. IsLoad(x) /\ Grown(l, x)
  BY <1>2 DEF IsLoad, Grown
<1>7. Kept(x, m)
  BY <1>1, <1>6, Complained
<1>8. Grown(l, m) /\ m.commands = l.commands /\ m.visited = l.visited /\ m.resolved = x.resolved
  BY <1>2, <1>6, <1>7 DEF Kept, Grown
<1> QED BY <1>5, <1>8 DEF m

LEMMA TemplatesAreQuiet ==
    ASSUME NEW template, IsFile("template", template)
    PROVE  /\ IsTemplate(template)
           /\ \A c \in DOMAIN template.commands :
                 /\ IsCommand(template.commands[c])
                 /\ "addon_action" \notin CommandGives(template.commands[c])
<1> DEFINE cs == template.commands
<1>1. IsTemplate(template)
  BY DEF IsFile, IsContent
<1>2. \A c \in DOMAIN cs : IsCommand(cs[c])
  BY <1>1 DEF IsTemplate
<1>3. Gives("template", template)
        = UNION {Ids(c.outputs) \cup Ids(c.properties) : c \in ToSet(cs)}
  BY DEF Gives
<1>4. ASSUME NEW c \in DOMAIN cs PROVE "addon_action" \notin CommandGives(cs[c])
  <2>1. cs[c] \in ToSet(cs)
    BY DEF ToSet
  <2>2. CommandGives(cs[c]) \subseteq Ids(cs[c].outputs) \cup Ids(cs[c].properties)
    BY DEF CommandGives, Ids, ToSet
  <2> DEFINE x == cs[c]
  <2> HIDE DEF x
  <2>3. Ids(x.outputs) \cup Ids(x.properties) \subseteq Gives("template", template)
    BY <1>3, <2>1 DEF x
  <2> QED BY <2>2, <2>3 DEF IsFile, x
<1> QED BY <1>1, <1>2, <1>4


\* The commands of a template that is skipped.
LEMMA Skipped ==
    ASSUME NEW l, IsLoad(l), NEW files, NEW items, IsItems(items), NEW category, NEW template,
           NEW why, why # "", NEW todo, Sourced(l, todo)
    PROVE  LET m == SkipCommands(l, files, items, category, template, why)
           IN  /\ Grown(l, m) /\ m.visited = l.visited
               /\ Sourced(m, todo) /\ Longer(l, m, category)
<1> DEFINE new == [c \in DOMAIN items |-> CommandOf(items[c], category, files, why)]
           m == SkipCommands(l, files, items, category, template, why)
<1>1. /\ m.commands = l.commands \o new /\ m.visited = l.visited /\ DOMAIN m = DOMAIN l
      /\ m.parameters = l.parameters /\ m.inputs = l.inputs /\ m.errors = l.errors
      /\ m.resolved = l.resolved
  BY DEF IsLoad, LoadFields, SkipCommands
<1> HIDE DEF m
<1>2. /\ Len(items) \in Nat /\ DOMAIN items = 1 .. Len(items)
      /\ \A i \in DOMAIN items : items[i] \in ToSet(items)
  BY ListFacts DEF IsItems, ToSet
<1>3. new = [c \in 1 .. Len(items) |-> new[c]]
  BY <1>2
<1>4. \A c \in DOMAIN items : new[c] = CommandOf(items[c], category, files, why)
  OBVIOUS
<1> HIDE DEF new
<1>5. IsList(new) /\ Len(new) = Len(items) /\ DOMAIN new = 1 .. Len(items)
  BY <1>2, <1>3, ListMade
<1>6. \A k \in 1 .. Len(new) :
         new[k].skipped = why /\ Belongs(new[k], category)
  <2> SUFFICES ASSUME NEW k \in 1 .. Len(new)
               PROVE  new[k].skipped = why /\ Belongs(new[k], category)
    OBVIOUS
  <2>1. k \in DOMAIN items /\ items[k] \in ToSet(items)
    BY <1>2, <1>5
  <2>2. new[k] = CommandOf(items[k], category, files, why)
    BY <1>4, <2>1
  <2>3. "addon_action" \notin CommandGives(items[k].command)
    BY <2>1 DEF IsItems
  <2> DEFINE x == items[k]
             c == new[k]
  <2>4. c = CommandOf(x, category, files, why)
    BY <2>2
  <2>6. "addon_action" \notin CommandGives(x.command)
    BY <2>3
  <2> HIDE DEF x, c
  <2>5. /\ CommandFields \subseteq DOMAIN c
        /\ c.skipped = why /\ c.category = category /\ c.gives = CommandGives(x.command)
    BY <2>4 DEF CommandOf, CommandGives, CommandFields
  <2> QED BY <2>5, <2>6 DEF c, Belongs
<1>7. \A c \in ToSet(new) : Belongs(c, category)
  BY <1>5, <1>6 DEF ToSet
<1>8. IsJoin(m.commands, l.commands, new)
  BY <1>1, <1>5, Joined DEF IsLoad
<1>9. IsLoad(m) /\ Grown(l, m)
  BY <1>1, <1>8 DEF IsLoad, Grown, IsJoin
<1>10. Longer(l, m, category)
  BY <1>5, <1>7, <1>8, <1>9, LongerBy
<1>11. Sourced(m, todo)
  <2>1. \A v \in DOMAIN m.resolved \ DOMAIN l.resolved : HasGiver(m, todo, v)
    BY <1>1
  <2>2. \A k \in 1 .. Len(new) : new[k].skipped = "" =>
           \A v \in new[k].uses :
               Settled(m, Len(l.commands) + k, v) \/ Comes(todo, new[k].within, v)
    BY <1>6
  <2>3. Passes(todo, todo, new)
    BY DEF Passes
  <2> QED BY <1>5, <1>8, <1>9, <2>1, <2>2, <2>3, SourcedOn
<1> QED BY <1>1, <1>9, <1>10, <1>11 DEF m

LEMMA ItemsOfTemplate ==
    ASSUME NEW template, IsFile("template", template), NEW name, NEW within
    PROVE  LET items == Items(name, within, template)
           IN  /\ IsItems(items) /\ Len(items) = Len(template.commands)
               /\ \A t \in ToSet(items) : t.name = name /\ t.within = within \cup {name}
               /\ \A c \in DOMAIN template.commands :
                     \E t \in ToSet(items) : t.name = name /\ t.command = template.commands[c]
<1> DEFINE cs == template.commands
           items == Items(name, within, template)
<1>1. /\ IsList(cs)
      /\ \A c \in DOMAIN cs : IsCommand(cs[c]) /\ "addon_action" \notin CommandGives(cs[c])
  BY TemplatesAreQuiet DEF IsTemplate
<1>2. Len(cs) \in Nat /\ DOMAIN cs = 1 .. Len(cs)
  BY <1>1, ListFacts
<1>3. items = [c \in DOMAIN cs |->
                   [name |-> name, within |-> within \cup {name}, command |-> cs[c]]]
  BY DEF Items
<1>4. /\ items = [c \in 1 .. Len(cs) |-> items[c]]
      /\ \A c \in 1 .. Len(cs) : /\ items[c].name = name /\ items[c].within = within \cup {name}
                                 /\ items[c].command = cs[c]
  BY <1>2, <1>3
<1> HIDE DEF items, cs
<1>5. IsList(items) /\ Len(items) = Len(cs) /\ DOMAIN items = 1 .. Len(cs)
  BY <1>2, <1>4, ListMade
<1>6. ToSet(items) = {items[c] : c \in 1 .. Len(cs)}
  BY <1>5 DEF ToSet
<1>7. IsItems(items)
  <2>1. \A t \in ToSet(items) :
           IsCommand(t.command) /\ "addon_action" \notin CommandGives(t.command)
    BY <1>1, <1>2, <1>4, <1>6
  <2>2. \A p, q \in 1 .. Len(items) : p <= q => items[q].name \in items[p].within
    BY <1>4, <1>5
  <2> QED BY <1>5, <2>1, <2>2 DEF IsItems
<1>8. \A t \in ToSet(items) : t.name = name /\ t.within = within \cup {name}
  BY <1>4, <1>6
<1>9. \A c \in DOMAIN cs : \E t \in ToSet(items) : t.name = name /\ t.command = cs[c]
  BY <1>2, <1>4, <1>6
<1> QED BY <1>5, <1>7, <1>8, <1>9 DEF items, cs

LEMMA ItemsBefore ==
    ASSUME NEW items, NEW todo, IsItems(items), IsItems(todo),
           \A t \in ToSet(items), u \in ToSet(todo) : u.name \in t.within
    PROVE  /\ IsItems(items \o todo) /\ Len(items \o todo) = Len(items) + Len(todo)
           /\ ToSet(items \o todo) = ToSet(items) \cup ToSet(todo)
<1> DEFINE r == items \o todo
           a == Len(items)
           b == Len(todo)
<1>1. /\ a \in Nat /\ b \in Nat /\ ToSet(items) = {items[i] : i \in 1 .. a}
      /\ ToSet(todo) = {todo[i] : i \in 1 .. b}
  BY ListFacts DEF IsItems
<1>2. IsJoin(r, items, todo)
  BY Joined DEF IsItems
<1>3. /\ IsList(r) /\ Len(r) = a + b /\ ToSet(r) = ToSet(items) \cup ToSet(todo)
      /\ \A i \in 1 .. a : r[i] = items[i]
      /\ \A i \in 1 .. b : r[a + i] = todo[i]
  BY <1>2 DEF IsJoin
<1>4. /\ \A p, q \in 1 .. a : p <= q => items[q].name \in items[p].within
      /\ \A p, q \in 1 .. b : p <= q => todo[q].name \in todo[p].within
  BY DEF IsItems
<1> HIDE DEF r, a, b
<1>5. ASSUME NEW p \in 1 .. a + b, NEW q \in 1 .. a + b, p <= q
      PROVE  r[q].name \in r[p].within
  <2>1. CASE q \in 1 .. a
    <3>1. p \in 1 .. a
      BY <1>1, <1>5, <2>1
    <3> QED BY <1>3, <1>4, <1>5, <2>1, <3>1
  <2>2. CASE q \notin 1 .. a
    <3>1. q - a \in 1 .. b /\ r[q] = todo[q - a]
      BY <1>1, <1>3, <2>2, Places
    <3>2. CASE p \in 1 .. a
      <4>1. items[p] \in ToSet(items) /\ todo[q - a] \in ToSet(todo)
        BY <1>1, <3>1, <3>2
      <4>2. todo[q - a].name \in items[p].within
        BY <4>1
      <4> QED BY <1>3, <3>1, <3>2, <4>2
    <3>3. CASE p \notin 1 .. a
      <4>1. p - a \in 1 .. b /\ r[p] = todo[p - a]
        BY <1>1, <1>3, <3>3, Places
      <4>2. p - a <= q - a
        BY <1>1, <1>5
      <4> QED BY <1>4, <3>1, <4>1, <4>2
    <3> QED BY <3>2, <3>3
  <2> QED BY <2>1, <2>2
<1>6. \A t \in ToSet(r) : IsCommand(t.command) /\ "addon_action" \notin CommandGives(t.command)
  BY <1>3 DEF IsItems
<1>7. IsItems(r)
  BY <1>3, <1>5, <1>6 DEF IsItems
<1> QED BY <1>3, <1>7 DEF r, a, b

\* m is l with the outputs of a template, whose commands are still to come.
Runs(l, m, template, items, todo, category) ==
    /\ IsItems(items \o todo) /\ Sourced(m, items \o todo)
    /\ Longer(l, m, category) /\ m.visited = l.visited
    /\ Len(items \o todo) = Len(template.commands) + Len(todo)

LEMMA RanThrough ==
    ASSUME NEW l, IsLoad(l), NEW files, NEW name, NEW template, IsFile("template", template),
           NEW within, NEW todo, Sourced(l, todo), IsItems(todo), NEW category,
           \A t \in ToSet(todo) : t.name \in within
    PROVE  Runs(l, RunThrough(l, files, name, template), template,
                Items(name, within, template), todo, category)
<1> DEFINE items == Items(name, within, template)
           m == RunThrough(l, files, name, template)
           next == items \o todo
           o == ApplyOutputs(l, files, name, template)
           n == ValidateAndAddParameters(o, name, template)
           new == <<>>
<1>1. /\ IsItems(items) /\ Len(items) = Len(template.commands)
      /\ \A t \in ToSet(items) : t.name = name /\ t.within = within \cup {name}
      /\ \A c \in DOMAIN template.commands :
            \E t \in ToSet(items) : t.name = name /\ t.command = template.commands[c]
  BY ItemsOfTemplate
<1>2. IsTemplate(template) /\ AreParameters(template.parameters)
  BY TemplatesAreQuiet DEF IsTemplate
<1>3. /\ Grown(l, o) /\ o.commands = l.commands /\ o.visited = l.visited
      /\ \A v \in DOMAIN o.resolved \ DOMAIN l.resolved :
            \E c \in DOMAIN template.commands : v \in CommandGives(template.commands[c])
  BY <1>2, OutputsApplied
<1> HIDE DEF items, o
<1>4. IsLoad(o)
  BY <1>3 DEF Grown
<1>5. Kept(o, n)
  BY <1>2, <1>4, ParametersAdded
<1>6. m = [n EXCEPT !.defaults = @ \o PropertyDefaults(template)]
  BY DEF RunThrough, o
<1> HIDE DEF n
<1>7. IsLoad(n)
  BY <1>5 DEF Kept, Grown
<1>8. /\ DOMAIN m = DOMAIN n /\ m.parameters = n.parameters /\ m.inputs = n.inputs
      /\ m.resolved = n.resolved /\ m.commands = n.commands /\ m.visited = n.visited
      /\ m.errors = n.errors
  <2> DEFINE d == n.defaults \o PropertyDefaults(template)
  <2>1. m = [n EXCEPT !.defaults = d]
    BY <1>6
  <2> HIDE DEF d, m
  <2> QED BY <1>7, <2>1 DEF IsLoad, LoadFields
<1> HIDE DEF m
<1>9. /\ Grown(l, m) /\ m.commands = l.commands /\ m.visited = l.visited
      /\ m.resolved = o.resolved
  BY <1>3, <1>5, <1>7, <1>8 DEF Kept, Grown, IsLoad
<1>10. \A t \in ToSet(items), u \in ToSet(todo) : u.name \in t.within
  BY <1>1
<1>11. IsItems(next) /\ Len(next) = Len(items) + Len(todo)
       /\ ToSet(next) = ToSet(items) \cup ToSet(todo)
  BY <1>1, <1>10, ItemsBefore
<1> HIDE DEF next
<1>12. IsList(new) /\ Len(new) = 0 /\ IsJoin(m.commands, l.commands, new)
  <2>1. IsList(new) /\ Len(new) = 0 /\ ToSet(new) = {}
    BY NoElements
  <2>2. Len(l.commands) \in Nat /\ DOMAIN l.commands = 1 .. Len(l.commands) /\ IsList(l.commands)
    BY ListFacts DEF IsLoad
  <2> HIDE DEF new
  <2> QED BY <1>9, <2>1, <2>2 DEF IsJoin
<1> HIDE DEF new
<1>13. ASSUME NEW v \in DOMAIN m.resolved \ DOMAIN l.resolved PROVE HasGiver(m, next, v)
  <2>1. PICK c \in DOMAIN template.commands : v \in CommandGives(template.commands[c])
    BY <1>3, <1>9
  <2>2. PICK t \in ToSet(items) : t.command = template.commands[c]
    BY <1>1
  <2> QED BY <1>11, <2>1, <2>2 DEF HasGiver
<1>14. Passes(todo, next, new)
  BY <1>11 DEF Passes
<1>15. 1 .. Len(new) = {}
  BY <1>12
<1>16. \A k \in 1 .. Len(new) : new[k].skipped = "" =>
          \A v \in new[k].uses :
              Settled(m, Len(l.commands) + k, v) \/ Comes(next, new[k].within, v)
  BY <1>15
<1>17. Sourced(m, next)
  BY <1>9, <1>12, <1>13, <1>14, <1>16, SourcedOn
<1>18. Longer(l, m, category)
  <2>1. ToSet(new) = {}
    BY <1>12, <1>15, ListFacts
  <2> QED BY <1>9, <1>12, <2>1, LongerBy
<1> QED BY <1>1, <1>9, <1>11, <1>17, <1>18 DEF Runs, items, m, next


\* What a step of the walk keeps, and what it leaves to be done: nothing new,
\* or the commands of a template that was not entered before.
Steps(l, r, todo, files, category) ==
    /\ IsItems(r.todo) /\ Sourced(r.load, r.todo) /\ Longer(l, r.load, category)
    /\ l.visited \subseteq r.load.visited
    /\ \/ r.todo = todo
       \/ \E n \in DOMAIN files.templates :
             /\ n \notin l.visited /\ n \in r.load.visited
             /\ Len(r.todo) = Len(files.templates[n].commands) + Len(todo)

LEMMA Entered ==
    ASSUME NEW l, IsLoad(l), NEW todo, IsItems(todo), NEW files, AreFiles(files),
           NEW name, NEW within, \A t \in ToSet(todo) : t.name \in within,
           NEW category, Sourced(l, todo)
    PROVE  Steps(l, Enter(l, todo, files, name, within, category), todo, files, category)
<1> DEFINE met      == [l EXCEPT !.visited = @ \cup {name}]
           template == files.templates[name]
           items    == Items(name, within, template)
           typed    == IF Executable(template) /\ ~template.executeOn
                       THEN Complain(met, <<"no execute_on", name>>) ELSE met
           why      == ShouldSkip(typed, template)
           noted    == MarkProcessed(typed, name, category, template)
           skipped  == SkipCommands(noted, files, items, category, template, why)
           Stop(x)  == [load |-> x, todo |-> todo]
           r        == Enter(l, todo, files, name, within, category)
<1>1. /\ DOMAIN met = DOMAIN l /\ met.visited = l.visited \cup {name} /\ met.errors = l.errors
      /\ met.parameters = l.parameters /\ met.inputs = l.inputs /\ met.commands = l.commands
      /\ met.resolved = l.resolved
  BY DEF IsLoad, LoadFields
<1> HIDE DEF met
<1>2. IsLoad(met) /\ Grown(l, met)
  BY <1>1 DEF IsLoad, Grown
<1>3. ASSUME NEW x, Kept(met, x)
      PROVE  /\ IsLoad(x) /\ Sourced(x, todo) /\ Longer(l, x, category)
             /\ x.visited = l.visited \cup {name}
  <2>1. /\ IsLoad(x) /\ Grown(l, x) /\ x.commands = l.commands /\ x.resolved = l.resolved
        /\ x.visited = l.visited \cup {name}
    BY <1>1, <1>2, <1>3 DEF Kept, Grown
  <2> QED BY <2>1, SourcedStill
<1>4. ASSUME NEW x, IsLoad(x), Sourced(x, todo), Longer(l, x, category),
             l.visited \subseteq x.visited
      PROVE  Steps(l, Stop(x), todo, files, category)
  BY <1>4 DEF Steps
<1>5. CASE name \in l.visited
  <2> DEFINE x == Complain(l, <<"endless recursion", name>>)
  <2>1. r = Stop(x)
    BY <1>5 DEF Enter
  <2>2. Kept(l, x)
    BY ComplainedOnce
  <2> HIDE DEF x, r
  <2>3. IsLoad(x) /\ Sourced(x, todo) /\ Longer(l, x, category) /\ x.visited = l.visited
    BY <2>2, SourcedStill DEF Kept, Grown
  <2>4. Steps(l, Stop(x), todo, files, category)
    BY <1>4, <2>3
  <2> QED BY <2>1, <2>4 DEF r
<1>6. CASE name \notin l.visited /\ name \notin DOMAIN files.templates
  <2> DEFINE x == Complain(met, <<"no template", name>>)
  <2>1. r = Stop(x)
    BY <1>6 DEF Enter, met
  <2>2. Kept(met, x)
    BY <1>2, ComplainedOnce
  <2> HIDE DEF x, r
  <2>3. Steps(l, Stop(x), todo, files, category)
    BY <1>3, <1>4, <2>2
  <2> QED BY <2>1, <2>3 DEF r
<1>7. CASE name \notin l.visited /\ name \in DOMAIN files.templates
  <2>1. r = CASE why = "all_missing" ->
                   Stop(ValidateAndAddParameters(skipped, name, template))
              [] why = "property_set" -> Stop(skipped)
              [] why = "no" /\ HasDuplicates(template) ->
                   Stop(Complain(noted, <<"announced twice", name>>))
              [] OTHER -> [load |-> RunThrough(noted, files, name, template),
                           todo |-> items \o todo]
    BY <1>7 DEF Enter, met
  <2>2. IsFile("template", template)
    BY <1>7 DEF AreFiles
  <2> HIDE DEF template
  <2>3. /\ IsItems(items)
        /\ \A t \in ToSet(items) : t.name = name /\ t.within = within \cup {name}
    BY <2>2, ItemsOfTemplate
  <2>4. AreParameters(template.parameters)
    BY <2>2, TemplatesAreQuiet DEF IsTemplate
  <2> HIDE DEF items
  <2>5. Kept(met, typed)
    BY <1>2, KeptItself, ComplainedOnce
  <2> HIDE DEF typed
  <2>6. IsLoad(typed)
    BY <2>5 DEF Kept, Grown
  <2>7. Kept(typed, noted)
    BY <2>6, Marked
  <2> HIDE DEF noted
  <2>8. Kept(met, noted)
    BY <2>5, <2>7, KeptTwice
  <2>9. /\ IsLoad(noted) /\ Sourced(noted, todo) /\ Longer(l, noted, category)
        /\ noted.visited = l.visited \cup {name}
    BY <1>3, <2>8
  <2>10. CASE why = "all_missing" \/ why = "property_set"
    <3>1. why # ""
      BY <2>10
    <3> HIDE DEF why
    <3>2. /\ Grown(noted, skipped) /\ skipped.visited = noted.visited
          /\ Sourced(skipped, todo) /\ Longer(noted, skipped, category)
      BY <2>3, <2>9, <3>1, Skipped
    <3> HIDE DEF skipped
    <3>3. IsLoad(skipped) /\ Longer(l, skipped, category)
      BY <2>9, <3>2, LongerTwice DEF Grown
    <3>4. Steps(l, Stop(skipped), todo, files, category)
      BY <1>4, <2>9, <3>2, <3>3
    <3> DEFINE x == ValidateAndAddParameters(skipped, name, template)
    <3>5. Kept(skipped, x)
      BY <2>4, <3>3, ParametersAdded
    <3> HIDE DEF x
    <3>6. IsLoad(x) /\ Sourced(x, todo) /\ Longer(skipped, x, category)
          /\ x.visited = noted.visited
      BY <3>2, <3>3, <3>5, SourcedStill DEF Kept, Grown
    <3>7. Longer(l, x, category)
      BY <3>3, <3>6, LongerTwice
    <3>8. Steps(l, Stop(x), todo, files, category)
      BY <1>4, <2>9, <3>6, <3>7
    <3>9. r = Stop(skipped) \/ r = Stop(x)
      BY <2>1, <2>10 DEF x
    <3> QED BY <3>4, <3>8, <3>9
  <2>11. CASE ~(why = "all_missing" \/ why = "property_set") /\ why = "no"
              /\ HasDuplicates(template)
    <3> DEFINE x == Complain(noted, <<"announced twice", name>>)
    <3>1. r = Stop(x)
      BY <2>1, <2>11
    <3>2. Kept(noted, x)
      BY <2>9, ComplainedOnce
    <3> HIDE DEF x, r
    <3>3. Kept(met, x)
      BY <2>8, <3>2, KeptTwice
    <3>4. Steps(l, Stop(x), todo, files, category)
      BY <1>3, <1>4, <3>3
    <3> QED BY <3>1, <3>4 DEF r
  <2>12. CASE ~(why = "all_missing" \/ why = "property_set")
              /\ ~(why = "no" /\ HasDuplicates(template))
    <3> DEFINE m == RunThrough(noted, files, name, template)
               next == items \o todo
    <3>1. r.load = m /\ r.todo = next
      <4> HIDE DEF why, r, skipped
      <4> QED BY <2>1, <2>12
    <3>2. /\ IsItems(next) /\ Sourced(m, next) /\ Longer(noted, m, category)
          /\ m.visited = noted.visited /\ Len(next) = Len(template.commands) + Len(todo)
      <4>1. Runs(noted, m, template, items, todo, category)
        BY <2>2, <2>9, RanThrough DEF items
      <4> HIDE DEF m, next
      <4>2. next = items \o todo
        BY DEF next
      <4> HIDE DEF next
      <4> QED BY <4>1, <4>2 DEF Runs
    <3> HIDE DEF m, next, r
    <3>3. Longer(l, m, category)
      BY <2>9, <3>2, LongerTwice
    <3>4. Len(next) = Len(files.templates[name].commands) + Len(todo)
      BY <3>2 DEF template
    <3>5. Steps(l, r, todo, files, category)
      BY <1>7, <2>9, <3>1, <3>2, <3>3, <3>4 DEF Steps
    <3> QED BY <3>5 DEF r
  <2> QED BY <2>10, <2>11, <2>12
<1> QED BY <1>5, <1>6, <1>7

\* A command that is added: all it uses was known.
LEMMA CommandAdded ==
    ASSUME NEW l, IsLoad(l), NEW todo, IsItems(todo), todo # <<>>, NEW files,
           NEW category, Sourced(l, todo)
    PROVE  LET m == AddCommand(l, files, Head(todo), category)
           IN  Sourced(m, Tail(todo)) /\ Longer(l, m, category) /\ m.visited = l.visited
<1> DEFINE item == Head(todo)
           rest == Tail(todo)
           x == Checked(l, files, item)
           c == CommandOf(item, category, files, "")
           new == <<c>>
           m == AddCommand(l, files, item, category)
           L == Len(l.commands)
<1>1. /\ Len(todo) \in Nat /\ Len(todo) > 0 /\ item = todo[1]
      /\ IsList(rest) /\ ToSet(todo) = {item} \cup ToSet(rest)
  BY Parted DEF IsItems
<1>2. \A q \in 1 .. Len(todo) : todo[q].name \in item.within
  <2>1. \A q \in 1 .. Len(todo) : 1 \in 1 .. Len(todo) /\ 1 <= q
    BY <1>1
  <2> QED BY <1>1, <2>1 DEF IsItems
<1>3. \A t \in ToSet(todo) : t.name \in item.within
  BY <1>2, ListFacts DEF IsItems
<1>4. item \in ToSet(todo) /\ "addon_action" \notin CommandGives(item.command)
  BY <1>1 DEF IsItems
<1> HIDE DEF item, rest
<1>5. /\ Kept(l, x)
      /\ x.errors = {} => VariablesOf(files, item.command) \subseteq KnownTo(l)
  BY CommandChecked
<1>6. m = [x EXCEPT !.commands = Append(@, c)]
  BY DEF AddCommand, Checked
<1> HIDE DEF x
<1>7. /\ CommandFields \subseteq DOMAIN c
      /\ c.template = item.name /\ c.within = item.within /\ c.category = category
      /\ c.skipped = "" /\ c.uses = VariablesOf(files, item.command)
      /\ c.gives = CommandGives(item.command)
  BY DEF CommandOf, CommandGives, CommandFields
<1> HIDE DEF c, m
<1>8. IsLoad(x) /\ x.commands = l.commands /\ x.resolved = l.resolved /\ x.visited = l.visited
      /\ Grown(l, x)
  BY <1>5 DEF Kept, Grown
<1>9. /\ DOMAIN m = DOMAIN x /\ m.parameters = x.parameters /\ m.inputs = x.inputs
      /\ m.resolved = x.resolved /\ m.commands = Append(x.commands, c) /\ m.visited = x.visited
      /\ m.errors = x.errors
  <2> DEFINE d == Append(x.commands, c)
  <2>1. m = [x EXCEPT !.commands = d]
    BY <1>6
  <2> HIDE DEF d
  <2>2. /\ DOMAIN m = DOMAIN x /\ m.parameters = x.parameters /\ m.inputs = x.inputs
        /\ m.resolved = x.resolved /\ m.commands = d /\ m.visited = x.visited
        /\ m.errors = x.errors
    BY <1>8, <2>1 DEF IsLoad, LoadFields
  <2> QED BY <2>2 DEF d
<1>10. IsJoin(m.commands, l.commands, new)
  BY <1>8, <1>9, AppendJoins DEF IsLoad
<1>11. IsList(new) /\ Len(new) = 1 /\ ToSet(new) = {c} /\ new[1] = c
  BY OneElement
<1>12. IsLoad(m) /\ Grown(l, m)
  BY <1>8, <1>9, <1>10 DEF IsLoad, Grown, IsJoin
<1>13. Longer(l, m, category)
  <2>1. \A y \in ToSet(new) : Belongs(y, category)
    BY <1>4, <1>7, <1>11 DEF Belongs
  <2> HIDE DEF new
  <2> QED BY <1>10, <1>11, <1>12, <2>1, LongerBy
<1>14. /\ L \in Nat /\ DOMAIN l.commands = 1 .. L
       /\ ToSet(l.commands) = {l.commands[i] : i \in 1 .. L}
  BY ListFacts DEF IsLoad
<1>15. /\ DOMAIN m.commands = 1 .. L + 1 /\ m.commands[L + 1] = c
       /\ \A i \in 1 .. L : m.commands[i] = l.commands[i]
  <2> HIDE DEF new
  <2>1. 1 \in 1 .. Len(new)
    BY <1>11
  <2> QED BY <1>10, <1>11, <2>1 DEF IsJoin
<1> HIDE DEF new, L
<1>16. ASSUME m.errors = {}, NEW v \in c.uses
       PROVE  Settled(m, L + 1, v) \/ Comes(rest, c.within, v)
  <2>1. v \in KnownTo(l)
    BY <1>5, <1>7, <1>9, <1>16
  <2>2. CASE v \in BuiltInVariables \cup Ids(l.parameters)
    BY <1>12, <2>2 DEF Settled, Grown
  <2>3. CASE v \in DOMAIN l.resolved
    <3>1. HasGiver(l, todo, v)
      BY <2>3 DEF Sourced
    <3>2. CASE v \in l.inputs
      BY <1>12, <3>2 DEF Settled, Grown
    <3>3. CASE \E y \in ToSet(l.commands) : y.skipped = "" /\ v \in y.gives
      <4>1. PICK j \in 1 .. L : l.commands[j].skipped = "" /\ v \in l.commands[j].gives
        BY <1>14, <3>3
      <4>2. j \in DOMAIN m.commands /\ m.commands[j] = l.commands[j] /\ j <= L + 1
        BY <1>14, <1>15
      <4> QED BY <4>1, <4>2 DEF Settled
    <3>4. CASE \E t \in ToSet(todo) : v \in CommandGives(t.command)
      <4>1. PICK t \in ToSet(todo) : v \in CommandGives(t.command)
        BY <3>4
      <4>2. t.name \in c.within
        BY <1>3, <1>7
      <4>3. CASE t \in ToSet(rest)
        BY <4>1, <4>2, <4>3 DEF Comes
      <4>4. CASE t = item
        <5>1. L + 1 \in DOMAIN m.commands /\ L + 1 <= L + 1
          BY <1>14, <1>15
        <5>2. m.commands[L + 1].skipped = "" /\ v \in m.commands[L + 1].gives
          BY <1>7, <1>15, <4>1, <4>4
        <5> QED BY <5>1, <5>2 DEF Settled
      <4> QED BY <1>1, <4>3, <4>4
    <3> QED BY <3>1, <3>2, <3>3, <3>4 DEF HasGiver
  <2> QED BY <2>1, <2>2, <2>3 DEF KnownTo
<1>17. \A v \in DOMAIN m.resolved \ DOMAIN l.resolved : HasGiver(m, rest, v)
  BY <1>8, <1>9
<1>18. Passes(todo, rest, new)
  BY <1>1, <1>7, <1>11 DEF Passes
<1>19. m.errors = {} => \A k \in 1 .. Len(new) : new[k].skipped = "" =>
           \A v \in new[k].uses :
               Settled(m, Len(l.commands) + k, v) \/ Comes(rest, new[k].within, v)
  <2> SUFFICES ASSUME m.errors = {}, NEW k \in 1 .. Len(new), NEW v \in new[k].uses
               PROVE  Settled(m, Len(l.commands) + k, v) \/ Comes(rest, new[k].within, v)
    OBVIOUS
  <2>1. k = 1 /\ new[k] = c
    BY <1>11
  <2> QED BY <1>16, <2>1 DEF L
<1>20. Sourced(m, rest)
  BY <1>10, <1>11, <1>12, <1>17, <1>18, <1>19, SourcedOn
<1> QED BY <1>8, <1>9, <1>13, <1>20 DEF m, rest, item

\* One step of the walk: it goes on in a template that was not entered before,
\* or there is one command less.
LEMMA Advanced ==
    ASSUME NEW walk, walk.todo # <<>>, IsLoad(walk.load), IsItems(walk.todo),
           Sourced(walk.load, walk.todo), NEW files, AreFiles(files), NEW category
    PROVE  Steps(walk.load, Advance(walk, files, category), Tail(walk.todo), files, category)
<1> DEFINE l == walk.load
           todo == walk.todo
           item == Head(todo)
           rest == Tail(todo)
           r == Advance(walk, files, category)
<1>1. /\ Len(todo) \in Nat /\ Len(todo) > 0 /\ item = todo[1]
      /\ IsList(rest) /\ Len(rest) = Len(todo) - 1 /\ ToSet(todo) = {item} \cup ToSet(rest)
      /\ \A i \in 1 .. Len(rest) : rest[i] = todo[i + 1]
  BY Parted DEF IsItems
<1>2. \A q \in 1 .. Len(todo) : todo[q].name \in item.within
  <2>1. \A q \in 1 .. Len(todo) : 1 \in 1 .. Len(todo) /\ 1 <= q
    BY <1>1
  <2> QED BY <1>1, <2>1 DEF IsItems
<1>3. \A t \in ToSet(rest) : t.name \in item.within
  <2>1. \A t \in ToSet(todo) : t.name \in item.within
    BY <1>2, ListFacts DEF IsItems
  <2> QED BY <1>1, <2>1
<1>4. IsItems(rest)
  <2>1. \A t \in ToSet(rest) :
           IsCommand(t.command) /\ "addon_action" \notin CommandGives(t.command)
    BY <1>1 DEF IsItems
  <2>2. ASSUME NEW p \in 1 .. Len(rest), NEW q \in 1 .. Len(rest), p <= q
        PROVE  rest[q].name \in rest[p].within
    <3>1. p + 1 \in 1 .. Len(todo) /\ q + 1 \in 1 .. Len(todo) /\ p + 1 <= q + 1
      BY <1>1, <2>2
    <3>2. todo[q + 1].name \in todo[p + 1].within
      BY <3>1 DEF IsItems
    <3> QED BY <1>1, <3>2
  <2> QED BY <1>1, <2>1, <2>2 DEF IsItems
<1>5. CASE item.command.kind = "template"
  <2>1. r = Enter(l, rest, files, item.command.of, item.within, category)
    BY <1>5 DEF Advance
  <2>2. CommandGives(item.command) = {}
    <3>1. item \in ToSet(todo)
      BY <1>1
    <3>2. item.command.outputs = <<>> /\ item.command.properties = <<>>
      BY <1>5, <3>1 DEF IsItems, IsCommand
    <3>3. Ids(item.command.outputs) = {}
      BY <3>2 DEF Ids
    <3>4. ToSet(item.command.properties) = {}
      BY <3>2, NoElements
    <3> QED BY <3>3, <3>4 DEF CommandGives
  <2> HIDE DEF l, todo, item, rest, r
  <2> DEFINE new == <<>>
  <2>3. IsList(new) /\ Len(new) = 0 /\ ToSet(new) = {}
    BY NoElements
  <2> HIDE DEF new
  <2>4. Passes(todo, rest, new)
    BY <1>1, <2>2 DEF Passes
  <2>5. IsJoin(l.commands, l.commands, new)
    <3>1. Len(l.commands) \in Nat /\ DOMAIN l.commands = 1 .. Len(l.commands)
          /\ IsList(l.commands)
      BY ListFacts DEF IsLoad, l
    <3> QED BY <2>3, <3>1 DEF IsJoin
  <2>6. IsLoad(l) /\ Sourced(l, todo) /\ Grown(l, l)
    BY DEF l, todo, Grown
  <2>7. 1 .. Len(new) = {}
    BY <2>3
  <2>8. Sourced(l, rest)
    <3>1. l.errors = {} => \A k \in 1 .. Len(new) : new[k].skipped = "" =>
             \A v \in new[k].uses :
                 Settled(l, Len(l.commands) + k, v) \/ Comes(rest, new[k].within, v)
      BY <2>7
    <3> QED BY <2>3, <2>4, <2>5, <2>6, <3>1, SourcedOn
  <2>9. Steps(l, r, rest, files, category)
    BY <1>3, <1>4, <2>1, <2>6, <2>8, Entered
  <2> QED BY <2>9 DEF l, r, rest, todo
<1>6. CASE item.command.kind # "template"
  <2> DEFINE m == AddCommand(l, files, item, category)
  <2>1. r = [load |-> m, todo |-> rest]
    BY <1>6 DEF Advance
  <2>2. Sourced(m, rest) /\ Longer(l, m, category) /\ m.visited = l.visited
    BY CommandAdded
  <2> HIDE DEF m, rest, r
  <2>3. Steps(l, r, rest, files, category)
    BY <1>4, <2>1, <2>2 DEF Steps
  <2> QED BY <2>3 DEF r, rest
<1> QED BY <1>5, <1>6


----------------------------------------------------------------------------
(* No walk goes on for ever: no template is entered twice.                  *)

LEMMA FiniteHasTop ==
    ASSUME NEW T \in SUBSET Nat, IsFiniteSet(T), T # {}
    PROVE  Max(T) \in T /\ \A x \in T : x <= Max(T)
<1> DEFINE Bounded(U) == \E b \in Nat : \A x \in U : x <= b
           S == {n \in Nat :
                    \A U \in SUBSET Nat : IsFiniteSet(U) /\ Cardinality(U) = n => Bounded(U)}
<1>1. 0 \in S
  <2> SUFFICES ASSUME NEW U \in SUBSET Nat, IsFiniteSet(U), Cardinality(U) = 0 PROVE Bounded(U)
    OBVIOUS
  <2>1. U = {}
    BY FS_EmptySet
  <2> QED BY <2>1
<1>2. ASSUME NEW n \in Nat, n \in S PROVE n + 1 \in S
  <2> SUFFICES ASSUME NEW U \in SUBSET Nat, IsFiniteSet(U), Cardinality(U) = n + 1
               PROVE  Bounded(U)
    OBVIOUS
  <2>8. Cardinality(U) # 0
    BY <1>2
  <2>9. U # {}
    BY <2>8, FS_EmptySet
  <2>1. PICK x \in U : TRUE
    BY <2>9
  <2> DEFINE V == U \ {x}
  <2>10. IsFiniteSet(V) /\ Cardinality(V) = Cardinality(U) - 1
    BY <2>1, FS_RemoveElement
  <2>2. IsFiniteSet(V) /\ Cardinality(V) = n /\ V \in SUBSET Nat
    BY <2>10
  <2> HIDE DEF V, Bounded
  <2>3. Bounded(V)
    BY <1>2, <2>2
  <2>4. PICK b \in Nat : \A y \in V : y <= b
    BY <2>3 DEF Bounded
  <2>5. x \in Nat /\ \A y \in U : y \in V \/ y = x
    BY <2>1 DEF V
  <2>6. CASE b <= x
    <3>1. \A y \in U : y <= x
      BY <2>4, <2>5, <2>6
    <3> QED BY <2>5, <3>1 DEF Bounded
  <2>7. CASE ~(b <= x)
    <3>1. \A y \in U : y <= b
      BY <2>4, <2>5, <2>7
    <3> QED BY <3>1 DEF Bounded
  <2> QED BY <2>6, <2>7
<1> HIDE DEF S, Bounded
<1>3. Nat \subseteq S
  BY <1>1, <1>2, AllNumbers
<1>4. Cardinality(T) \in Nat
  BY FS_CardinalityType
<1>5. Bounded(T)
  BY <1>3, <1>4 DEF S
<1>6. PICK b \in Nat : \A x \in T : x <= b
  BY <1>5 DEF Bounded
<1>7. PICK y \in T : TRUE
  OBVIOUS
<1>11. b \in Int /\ \A x \in T : x \in Int /\ x <= b
  BY <1>6
<1>8. PICK z \in T : \A x \in T : z >= x
  BY <1>7, <1>11, GreatestNumber
<1>9. Max(T) \in T /\ \A x \in T : Max(T) >= x
  BY <1>8 DEF Max
<1>10. \A x \in T : x \in Int
  OBVIOUS
<1> QED BY <1>9, <1>10

LEMMA LongestOfAll ==
    ASSUME NEW files, AreFiles(files), IsFiniteSet(DOMAIN files.templates)
    PROVE  /\ Longest(files) \in Nat
           /\ \A n \in DOMAIN files.templates :
                 /\ Len(files.templates[n].commands) \in Nat
                 /\ Len(files.templates[n].commands) <= Longest(files)
<1> DEFINE D == DOMAIN files.templates
           f == [n \in D |-> Len(files.templates[n].commands)]
           T == {f[n] : n \in D}
           U == {0} \cup T
<1>1. \A n \in D : Len(files.templates[n].commands) \in Nat
  <2> SUFFICES ASSUME NEW n \in D PROVE Len(files.templates[n].commands) \in Nat
    OBVIOUS
  <2>1. IsTemplate(files.templates[n])
    BY TemplatesAreQuiet DEF AreFiles
  <2> QED BY <2>1, ListFacts DEF IsTemplate
<1>2. \A n \in D : f[n] \in Nat /\ f[n] = Len(files.templates[n].commands)
  BY <1>1
<1>3. Longest(files) = Max(U)
  BY DEF Longest
<1>8. f \in [D -> T]
  OBVIOUS
<1> HIDE DEF f
<1>4. IsFiniteSet(T)
  <2>1. f \in Surjection(D, T)
    BY <1>8 DEF Surjection
  <2> HIDE DEF D, T
  <2> QED BY <2>1, FS_Surjection DEF D
<1>5. IsFiniteSet(U) /\ U \in SUBSET Nat /\ U # {}
  <2>1. IsFiniteSet({0})
    BY FS_Singleton
  <2>2. U \in SUBSET Nat /\ U # {}
    BY <1>2
  <2> HIDE DEF T
  <2> QED BY <1>4, <2>1, <2>2, FS_Union
<1> HIDE DEF U
<1>6. Max(U) \in U /\ \A x \in U : x <= Max(U)
  BY <1>5, FiniteHasTop
<1>7. \A n \in D : f[n] \in U
  BY DEF U
<1> QED BY <1>1, <1>2, <1>3, <1>5, <1>6, <1>7

LEMMA Products ==
    ASSUME NEW a \in Nat, NEW b \in Nat, NEW c \in Nat
    PROVE  /\ a * b \in Nat
           /\ b <= c => a * b <= a * c
           /\ b < c => a * b + a <= a * c
<1> DEFINE S == {n \in Nat : a * b <= a * (b + n)}
<1>1. a * b \in Nat /\ \A n \in Nat : a * (b + n) = a * b + a * n /\ a * n \in Nat
  OBVIOUS
<1>2. ASSUME b <= c PROVE a * b <= a * c
  <2>1. c - b \in Nat /\ b + (c - b) = c
    BY <1>2
  <2>2. a * c = a * b + a * (c - b) /\ a * (c - b) \in Nat
    BY <1>1, <2>1
  <2> QED BY <1>1, <2>2
<1>3. ASSUME b < c PROVE a * b + a <= a * c
  <2>1. c - b - 1 \in Nat /\ b + (1 + (c - b - 1)) = c
    BY <1>3
  <2>2. a * (b + 1) = a * b + a
    OBVIOUS
  <2>3. b + 1 \in Nat /\ (b + 1) + (c - b - 1) = c
    BY <2>1
  <2>4. a * c = a * (b + 1) + a * (c - b - 1) /\ a * (c - b - 1) \in Nat
    BY <2>1, <2>3
  <2> QED BY <1>1, <2>2, <2>4
<1> QED BY <1>1, <1>2, <1>3


\* How many steps a walk can still take.
Left(l, todo, files) ==
    Longest(files) * Cardinality(DOMAIN files.templates \ l.visited) + Len(todo)

LEMMA LeftIsNumber ==
    ASSUME NEW files, AreFiles(files), IsFiniteSet(DOMAIN files.templates), NEW l, NEW todo,
           Len(todo) \in Nat
    PROVE  Left(l, todo, files) \in Nat /\ Len(todo) <= Left(l, todo, files)
<1> DEFINE R == DOMAIN files.templates \ l.visited
           K == Longest(files)
<1>1. IsFiniteSet(R)
  BY FS_Subset
<1>2. Cardinality(R) \in Nat /\ K \in Nat
  BY <1>1, FS_CardinalityType, LongestOfAll
<1> HIDE DEF R, K
<1>3. K * Cardinality(R) \in Nat
  BY <1>2, Products
<1>4. Left(l, todo, files) = K * Cardinality(R) + Len(todo)
  BY DEF Left, R, K
<1> QED BY <1>3, <1>4

LEMMA LessIsLeft ==
    ASSUME NEW files, AreFiles(files), IsFiniteSet(DOMAIN files.templates), NEW l, NEW r,
           NEW todo, Len(todo) \in Nat, NEW category, Steps(l, r, todo, files, category)
    PROVE  Left(r.load, r.todo, files) <= Left(l, todo, files)
<1> DEFINE D == DOMAIN files.templates
           R == D \ l.visited
           Q == D \ r.load.visited
           K == Longest(files)
           a == K * Cardinality(R)
           b == K * Cardinality(Q)
<1>1. IsFiniteSet(R) /\ IsFiniteSet(Q)
  BY FS_Subset
<1>2. Cardinality(R) \in Nat /\ Cardinality(Q) \in Nat /\ K \in Nat
  BY <1>1, FS_CardinalityType, LongestOfAll
<1>3. Q \subseteq R
  BY DEF Steps
<1>4. Cardinality(Q) <= Cardinality(R)
  BY <1>1, <1>3, FS_Subset
<1>5. /\ Left(l, todo, files) = a + Len(todo)
      /\ Left(r.load, r.todo, files) = b + Len(r.todo)
  BY DEF Left
<1>6. CASE r.todo = todo
  <2> HIDE DEF R, Q, K
  <2>1. b <= a /\ a \in Nat /\ b \in Nat
    BY <1>2, <1>4, Products
  <2> HIDE DEF a, b
  <2> QED BY <1>5, <1>6, <2>1
<1>7. CASE r.todo # todo
  <2>1. PICK n \in D : /\ n \notin l.visited /\ n \in r.load.visited
                       /\ Len(r.todo) = Len(files.templates[n].commands) + Len(todo)
    BY <1>7 DEF Steps
  <2> DEFINE P == R \ {n}
             k == Len(files.templates[n].commands)
  <2>2. n \in R /\ Q \subseteq P
    BY <1>3, <2>1
  <2>3. k \in Nat /\ k <= K
    BY LongestOfAll
  <2> HIDE DEF R, Q, K, k
  <2>4. IsFiniteSet(P) /\ Cardinality(P) = Cardinality(R) - 1
    BY <1>1, <2>2, FS_RemoveElement
  <2> HIDE DEF P
  <2>5. Cardinality(Q) <= Cardinality(P)
    BY <1>1, <2>2, <2>4, FS_Subset
  <2>6. Cardinality(Q) < Cardinality(R)
    BY <1>2, <2>4, <2>5
  <2>7. b + K <= a /\ a \in Nat /\ b \in Nat
    BY <1>2, <2>6, Products
  <2>8. Len(r.todo) = k + Len(todo)
    BY <2>1 DEF k
  <2> HIDE DEF a, b
  <2> QED BY <1>2, <1>5, <2>3, <2>7, <2>8
<1> QED BY <1>6, <1>7

\* A template of the list, with all those nested in it.
LEMMA Processed ==
    ASSUME NEW files, AreFiles(files), IsFiniteSet(DOMAIN files.templates),
           NEW l, IsLoad(l), Sourced(l, <<>>), NEW name, NEW category
    PROVE  /\ Sourced(ProcessTemplate(l, files, name, category), <<>>)
           /\ Longer(l, ProcessTemplate(l, files, name, category), category)
<1> DEFINE l0 == [l EXCEPT !.visited = {}]
           entered == Enter(l0, <<>>, files, name, {}, category)
           most == IF entered.todo = <<>> THEN 0 ELSE MostCommands(files)
           Walk(u) == [n \in 0 .. most |->
                          IF n = 0 THEN entered ELSE Advance(u[n - 1], files, category)]
           w == CHOOSE u : u = Walk(u)
           m == ProcessTemplate(l, files, name, category)
           none == <<>>
<1>1. m = w[most].load
  BY DEF ProcessTemplate, GoThrough
<1>2. IsList(none) /\ Len(none) = 0 /\ ToSet(none) = {}
  BY NoElements
<1>3. IsItems(none)
  <2> HIDE DEF none
  <2>1. 1 .. Len(none) = {}
    BY <1>2
  <2> QED BY <1>2, <2>1 DEF IsItems
<1>4. /\ DOMAIN l0 = DOMAIN l /\ l0.parameters = l.parameters /\ l0.inputs = l.inputs
      /\ l0.resolved = l.resolved /\ l0.commands = l.commands /\ l0.visited = {}
      /\ l0.errors = l.errors
  BY DEF IsLoad, LoadFields
<1> HIDE DEF l0
<1>5. IsLoad(l0) /\ Grown(l, l0)
  BY <1>4 DEF IsLoad, Grown
<1>6. Sourced(l0, none) /\ Longer(l, l0, category)
  BY <1>4, <1>5, SourcedStill
<1>7. Steps(l0, entered, none, files, category)
  <2> HIDE DEF none, entered
  <2>1. \A t \in ToSet(none) : t.name \in {}
    BY <1>2
  <2>2. Steps(l0, Enter(l0, none, files, name, {}, category), none, files, category)
    BY <1>3, <1>5, <1>6, <2>1, Entered
  <2> QED BY <2>2 DEF entered, none
<1> HIDE DEF entered
<1>8. /\ IsItems(entered.todo) /\ Sourced(entered.load, entered.todo)
      /\ Longer(l0, entered.load, category)
  BY <1>7 DEF Steps
<1>9. Left(entered.load, entered.todo, files) <= MostCommands(files)
      /\ MostCommands(files) \in Nat
  <2> DEFINE D == DOMAIN files.templates
  <2>1. Left(entered.load, entered.todo, files) <= Left(l0, none, files)
    <3> HIDE DEF none
    <3> QED BY <1>2, <1>7, LessIsLeft
  <2>2. Cardinality(D) \in Nat /\ Longest(files) \in Nat
    BY FS_CardinalityType, LongestOfAll
  <2>3. D \ l0.visited = D
    BY <1>4
  <2>4. Left(l0, none, files) = Longest(files) * Cardinality(D) + 0
    <3> HIDE DEF none, D
    <3> QED BY <1>2, <2>3 DEF Left, D
  <2> DEFINE c == Cardinality(D)
             k == Longest(files)
  <2> HIDE DEF c, k
  <2>5. k * c \in Nat /\ c * k = k * c /\ k * c + 0 = k * c
    BY <2>2, Products DEF c, k
  <2>6. MostCommands(files) = c * k
    BY DEF MostCommands, c, k
  <2>7. Left(l0, none, files) = k * c + 0
    BY <2>4 DEF c, k
  <2> QED BY <2>1, <2>5, <2>6, <2>7
<1>10. most \in Nat
  BY <1>9
<1> HIDE DEF most
<1>11. w = Walk(w)
  <2> DEFINE Walks(n, u) == u = [i \in 0 .. n |->
                                    IF i = 0 THEN entered ELSE Advance(u[i - 1], files, category)]
             S == {n \in Nat : \E u : Walks(n, u)}
  <2>1. 0 \in S
    <3> DEFINE u == [i \in 0 .. 0 |-> entered]
    <3>1. u = [i \in 0 .. 0 |-> IF i = 0 THEN entered ELSE Advance(u[i - 1], files, category)]
      <4>1. \A i \in 0 .. 0 : i = 0
        OBVIOUS
      <4> QED BY <4>1
    <3>2. Walks(0, u)
      BY <3>1
    <3> HIDE DEF u, Walks
    <3> QED BY <3>2
  <2>2. ASSUME NEW n \in Nat, n \in S PROVE n + 1 \in S
    <3>1. PICK u : Walks(n, u)
      BY <2>2
    <3> DEFINE v == [i \in 0 .. n + 1 |->
                        IF i = 0 THEN entered ELSE Advance(u[i - 1], files, category)]
    <3>2. \A i \in 0 .. n : v[i] = u[i]
      <4> SUFFICES ASSUME NEW i \in 0 .. n PROVE v[i] = u[i]
        OBVIOUS
      <4>1. i \in 0 .. n + 1
        OBVIOUS
      <4>2. u[i] = IF i = 0 THEN entered ELSE Advance(u[i - 1], files, category)
        BY <3>1
      <4> QED BY <4>1, <4>2
    <3>3. \A i \in 0 .. n + 1 : i # 0 => i - 1 \in 0 .. n
      OBVIOUS
    <3>4. v = [i \in 0 .. n + 1 |->
                  IF i = 0 THEN entered ELSE Advance(u[i - 1], files, category)]
      OBVIOUS
    <3> HIDE DEF v
    <3>5. \A i \in 0 .. n + 1 :
             v[i] = IF i = 0 THEN entered ELSE Advance(v[i - 1], files, category)
      BY <3>2, <3>3, <3>4
    <3>6. DOMAIN v = 0 .. n + 1 /\ v = [i \in 0 .. n + 1 |-> v[i]]
      BY <3>4
    <3>7. Walks(n + 1, v)
      BY <3>5, <3>6
    <3> HIDE DEF Walks
    <3> QED BY <3>7
  <2> HIDE DEF S
  <2>3. most \in S
    BY <1>10, <2>1, <2>2, AllNumbers
  <2>4. PICK u : Walks(most, u)
    BY <2>3 DEF S
  <2>5. u = Walk(u)
    BY <2>4
  <2> HIDE DEF Walk
  <2> QED BY <2>5
<1> HIDE DEF w
<1>12. /\ w[0] = entered
       /\ \A n \in 1 .. most : w[n] = Advance(w[n - 1], files, category)
  <2>1. \A n \in 1 .. most : n \in 0 .. most /\ n # 0
    BY <1>10
  <2>2. 0 \in 0 .. most
    BY <1>10
  <2> QED BY <1>11, <2>1, <2>2
<1> DEFINE OnTheWay(x) == /\ IsItems(x.todo) /\ Sourced(x.load, x.todo)
                      /\ Longer(l0, x.load, category)
           Ends(n) == w[n].todo = none \/ Left(w[n].load, w[n].todo, files) <= most - n
           x == [n \in 0 .. most |-> IF OnTheWay(w[n]) /\ Ends(n) THEN 1 ELSE 0]
<1>13. ASSUME NEW n \in 1 .. most, OnTheWay(w[n - 1]), Ends(n - 1) PROVE OnTheWay(w[n]) /\ Ends(n)
  <2> DEFINE p == w[n - 1]
             q == w[n]
  <2>1. q = Advance(p, files, category)
    BY <1>12
  <2>2. IsLoad(p.load)
    BY <1>13 DEF Longer, Grown
  <2>3. CASE p.todo = none
    <3>1. q = p
      BY <2>1, <2>3 DEF Advance
    <3> HIDE DEF p, q, none
    <3>2. OnTheWay(q) /\ q.todo = none
      BY <1>13, <2>3, <3>1 DEF p
    <3> QED BY <3>2 DEF q
  <2>4. CASE p.todo # none
    <3> DEFINE rest == Tail(p.todo)
    <3>1. /\ Len(rest) \in Nat /\ Len(p.todo) \in Nat /\ Len(rest) = Len(p.todo) - 1
      <4>1. IsList(p.todo)
        BY <1>13 DEF IsItems
      <4>2. Len(rest) = Len(p.todo) - 1 /\ Len(p.todo) \in Nat /\ Len(p.todo) > 0
        BY <2>4, <4>1, Parted
      <4> QED BY <4>2
    <3>2. Steps(p.load, q, rest, files, category)
      BY <1>13, <2>1, <2>2, <2>4, Advanced
    <3> HIDE DEF rest, p, q, none
    <3>3. IsItems(q.todo) /\ Sourced(q.load, q.todo) /\ Longer(p.load, q.load, category)
      BY <3>2 DEF Steps
    <3>4. Longer(l0, q.load, category)
      BY <1>5, <1>13, <3>3, LongerTwice DEF p
    <3>5. Left(q.load, q.todo, files) <= Left(p.load, rest, files)
      BY <3>1, <3>2, LessIsLeft
    <3>6. /\ Left(q.load, q.todo, files) \in Nat /\ Left(p.load, rest, files) \in Nat
          /\ Left(p.load, p.todo, files) \in Nat
      <4>1. Len(q.todo) \in Nat
        BY <3>3, ListFacts DEF IsItems
      <4> QED BY <3>1, <4>1, LeftIsNumber
    <3>7. Left(p.load, p.todo, files) = Left(p.load, rest, files) + 1
      <4> DEFINE a == Longest(files) * Cardinality(DOMAIN files.templates \ p.load.visited)
      <4>1. Left(p.load, p.todo, files) = a + Len(p.todo)
            /\ Left(p.load, rest, files) = a + Len(rest)
        BY DEF Left
      <4>2. a \in Nat
        <5> DEFINE R == DOMAIN files.templates \ p.load.visited
        <5>1. IsFiniteSet(R)
          BY FS_Subset
        <5>2. Cardinality(R) \in Nat /\ Longest(files) \in Nat
          BY <5>1, FS_CardinalityType, LongestOfAll
        <5> HIDE DEF R
        <5>3. Longest(files) * Cardinality(R) \in Nat
          BY <5>2, Products
        <5> QED BY <5>3 DEF R
      <4> HIDE DEF a
      <4> QED BY <3>1, <4>1, <4>2
    <3>8. Left(p.load, p.todo, files) <= most - (n - 1)
      BY <1>13, <2>4 DEF p
    <3>9. Left(q.load, q.todo, files) <= most - n
      BY <1>10, <3>5, <3>6, <3>7, <3>8
    <3>10. OnTheWay(q)
      BY <3>3, <3>4
    <3> QED BY <3>9, <3>10 DEF q
  <2> QED BY <2>3, <2>4
<1>14. OnTheWay(w[0]) /\ Ends(0)
  <2>1. OnTheWay(w[0])
    BY <1>8, <1>12
  <2>2. CASE entered.todo = none
    BY <1>12, <2>1, <2>2
  <2>3. CASE entered.todo # none
    <3>1. most = MostCommands(files)
      BY <2>3 DEF most
    <3>2. Left(entered.load, entered.todo, files) <= most - 0
      BY <1>9, <3>1
    <3> QED BY <1>12, <2>1, <3>2
  <2> QED BY <2>2, <2>3
<1>15. \A n \in 0 .. most : x[n] = 1 <=> OnTheWay(w[n]) /\ Ends(n)
  <2> HIDE DEF OnTheWay, Ends
  <2> QED OBVIOUS
<1> HIDE DEF x, OnTheWay, Ends
<1>16. x[most] = 1
  <2> DEFINE T == {1}
  <2>1. x[0] \in T
    BY <1>10, <1>14, <1>15
  <2>2. ASSUME NEW n \in 1 .. most, x[n - 1] \in T PROVE x[n] \in T
    <3>1. n - 1 \in 0 .. most /\ n \in 0 .. most
      BY <1>10
    <3> QED BY <1>13, <1>15, <2>2, <3>1
  <2> HIDE DEF T
  <2>3. \A n \in 0 .. most : x[n] \in T
    BY <1>10, <2>1, <2>2, AllAlong
  <2>4. most \in 0 .. most
    BY <1>10
  <2> QED BY <2>3, <2>4 DEF T
<1>17. OnTheWay(w[most]) /\ Ends(most)
  <2>1. most \in 0 .. most
    BY <1>10
  <2> QED BY <1>15, <1>16, <2>1
<1> DEFINE e == w[most]
<1>18. e.todo = none
  <2>1. IsItems(e.todo)
    BY <1>17 DEF OnTheWay
  <2>2. IsList(e.todo) /\ Len(e.todo) \in Nat
    BY <2>1, ListFacts DEF IsItems
  <2>3. CASE Left(e.load, e.todo, files) <= most - most
    <3>1. Left(e.load, e.todo, files) \in Nat /\ Len(e.todo) <= Left(e.load, e.todo, files)
      BY <2>2, LeftIsNumber
    <3> HIDE DEF e
    <3>2. Len(e.todo) = 0
      BY <1>10, <2>2, <2>3, <3>1
    <3>3. e.todo \in Seq(ToSet(e.todo))
      BY <2>2 DEF IsList
    <3> QED BY <3>2, <3>3
  <2> QED BY <1>17, <2>3 DEF Ends
<1>19. Sourced(e.load, none) /\ Longer(l0, e.load, category)
  BY <1>17, <1>18 DEF OnTheWay
<1>20. Longer(l, e.load, category)
  BY <1>6, <1>19, LongerTwice
<1>21. m = e.load
  BY <1>1
<1> HIDE DEF m, e
<1>22. Sourced(m, none) /\ Longer(l, m, category)
  BY <1>19, <1>20, <1>21
<1> QED BY <1>22 DEF m, none


----------------------------------------------------------------------------
(* The load of a task.                                                      *)

\* An application as it is read, the properties of those it extends included.
IsRead(app) ==
    /\ AreParameters(app.parameters) /\ IsList(app.properties)
    /\ "addon_action" \notin Ids(app.properties)

AreQuiet(commands) == \A i \in DOMAIN commands :
    CommandFields \subseteq DOMAIN commands[i] /\ "addon_action" \notin commands[i].gives

\* A load before the first of the templates.
IsFresh(l) ==
    /\ IsLoad(l) /\ Sourced(l, <<>>) /\ AreQuiet(l.commands) /\ l.errors = {}
    /\ \A i \in DOMAIN l.commands : l.commands[i].category = ""

LEMMA PreparedLoad ==
    ASSUME NEW app, IsRead(app), NEW given
    PROVE  IsFresh(Prepared(app, given))
<1> DEFINE valued == {p \in ToSet(app.properties) : p.value}
           gives == {p.id : p \in valued}
           first == [template |-> "application.json", within |-> {}, category |-> "",
                     skipped |-> "", uses |-> {}, kind |-> "other", of |-> "", gives |-> gives]
           l == Prepared(app, given)
<1>1. /\ LoadFields \subseteq DOMAIN l
      /\ l.parameters = app.parameters /\ l.inputs = given /\ l.errors = {}
      /\ l.commands = IF valued = {} THEN <<>> ELSE <<first>>
      /\ DOMAIN l.resolved = given \cup gives
  BY DEF Prepared, LoadFields
<1>2. gives \subseteq Ids(app.properties)
  BY DEF Ids, ToSet
<1>3. /\ CommandFields \subseteq DOMAIN first /\ first.skipped = "" /\ first.uses = {}
      /\ first.category = "" /\ first.gives = gives
  BY DEF CommandFields
<1> HIDE DEF first, l
<1>4. IsList(l.commands) /\ ToSet(l.commands) = IF valued = {} THEN {} ELSE {first}
  BY <1>1, NoElements, OneElement
<1>5. \A i \in DOMAIN l.commands : l.commands[i] = first
  <2>1. \A i \in DOMAIN l.commands : l.commands[i] \in ToSet(l.commands)
    BY DEF ToSet
  <2> HIDE DEF valued
  <2> QED BY <1>4, <2>1
<1>6. IsLoad(l)
  BY <1>1, <1>4 DEF IsLoad, IsRead
<1>7. AreQuiet(l.commands)
  BY <1>2, <1>3, <1>5 DEF AreQuiet, IsRead
<1>8. Sourced(l, <<>>)
  <2>1. ASSUME NEW v \in DOMAIN l.resolved PROVE HasGiver(l, <<>>, v)
    <3>1. CASE v \in given
      BY <1>1, <3>1 DEF HasGiver
    <3>2. CASE v \in gives
      <4>1. valued # {}
        BY <3>2
      <4> HIDE DEF gives, valued
      <4>2. first \in ToSet(l.commands)
        BY <1>4, <4>1
      <4> QED BY <1>3, <3>2, <4>2 DEF HasGiver
    <3> QED BY <1>1, <2>1, <3>1, <3>2
  <2>2. \A i \in DOMAIN l.commands : l.commands[i].uses = {}
    BY <1>3, <1>5
  <2> QED BY <2>1, <2>2 DEF Sourced
<1>9. \A i \in DOMAIN l.commands : l.commands[i].category = ""
  BY <1>3, <1>5
<1> QED BY <1>1, <1>6, <1>7, <1>8, <1>9 DEF IsFresh, l

\* The stages at which a container is started, and at which it replaces its
\* predecessor.
LEMMA Stages ==
    /\ Rank("") = 0
    /\ Rank("pre_start_finalize") = 4 /\ Rank("start") = 5 /\ Rank("replace_ct") = 7
<1>1. DOMAIN CategoryOrder = 1 .. 8
  BY DEF CategoryOrder
<1>2. /\ CategoryOrder[1] = "image" /\ CategoryOrder[2] = "create_ct"
      /\ CategoryOrder[3] = "pre_start" /\ CategoryOrder[4] = "pre_start_finalize"
      /\ CategoryOrder[5] = "start" /\ CategoryOrder[6] = "post_start"
      /\ CategoryOrder[7] = "replace_ct" /\ CategoryOrder[8] = "check"
  BY DEF CategoryOrder
<1>3. \A i \in 1 .. 8 : i = 1 \/ i = 2 \/ i = 3 \/ i = 4 \/ i = 5 \/ i = 6 \/ i = 7 \/ i = 8
  OBVIOUS
<1>4. \A i \in 1 .. 8 : /\ CategoryOrder[i] # ""
                        /\ CategoryOrder[i] = "pre_start_finalize" <=> i = 4
                        /\ CategoryOrder[i] = "start" <=> i = 5
                        /\ CategoryOrder[i] = "replace_ct" <=> i = 7
  BY <1>2, <1>3
<1>5. 4 \in 1 .. 8 /\ 5 \in 1 .. 8 /\ 7 \in 1 .. 8
  OBVIOUS
<1>6. Rank("") = 0
  BY <1>1, <1>4 DEF Rank
<1>7. Rank("pre_start_finalize") = 4
  BY <1>1, <1>4, <1>5 DEF Rank
<1>8. Rank("start") = 5
  BY <1>1, <1>4, <1>5 DEF Rank
<1>9. Rank("replace_ct") = 7
  BY <1>1, <1>4, <1>5 DEF Rank
<1> QED BY <1>6, <1>7, <1>8, <1>9

\* No command of the load belongs to a stage behind that of a template to come.
Behind(commands, category) ==
    \A i \in DOMAIN commands : Rank(commands[i].category) > 0 /\ Rank(category) > 0
        => Rank(commands[i].category) <= Rank(category)

LEMMA StagesKept ==
    ASSUME NEW l, NEW m, NEW category, IsLoad(l), Longer(l, m, category),
           InStageOrder(l.commands), AreQuiet(l.commands), Behind(l.commands, category)
    PROVE  /\ InStageOrder(m.commands) /\ AreQuiet(m.commands)
           /\ \A i \in DOMAIN m.commands :
                 \/ i \in DOMAIN l.commands /\ m.commands[i] = l.commands[i]
                 \/ m.commands[i].category = category
<1> DEFINE a == Len(l.commands)
           b == Len(m.commands)
<1>1. /\ a \in Nat /\ DOMAIN l.commands = 1 .. a
      /\ b \in Nat /\ DOMAIN m.commands = 1 .. b /\ a <= b
  BY ListFacts DEF Longer, Grown, IsLoad
<1>2. \A i \in 1 .. a : m.commands[i] = l.commands[i]
  BY DEF Longer
<1>3. \A i \in a + 1 .. b : Belongs(m.commands[i], category)
  BY DEF Longer
<1> HIDE DEF a, b
<1>4. \A i \in 1 .. b : i \in 1 .. a \/ i \in a + 1 .. b
  BY <1>1
<1>5. ASSUME NEW i \in DOMAIN m.commands
      PROVE  \/ i \in DOMAIN l.commands /\ m.commands[i] = l.commands[i]
             \/ Belongs(m.commands[i], category)
  BY <1>1, <1>2, <1>3, <1>4
<1>6. AreQuiet(m.commands)
  BY <1>5 DEF AreQuiet, Belongs
<1>7. ASSUME NEW i \in 1 .. b, NEW j \in 1 .. b, i < j,
             Rank(m.commands[i].category) > 0, Rank(m.commands[j].category) > 0
      PROVE  Rank(m.commands[i].category) <= Rank(m.commands[j].category)
  <2>1. CASE i \in 1 .. a /\ j \in 1 .. a
    BY <1>1, <1>2, <1>7, <2>1 DEF InStageOrder
  <2>2. CASE i \in 1 .. a /\ j \in a + 1 .. b
    BY <1>1, <1>2, <1>3, <1>7, <2>2 DEF Behind, Belongs
  <2>3. CASE i \in a + 1 .. b /\ j \in a + 1 .. b
    <3>1. m.commands[i].category = category /\ m.commands[j].category = category
      BY <1>3, <2>3 DEF Belongs
    <3>2. Rank(category) \in Nat
      BY RanksAreNumbers
    <3> QED BY <3>1, <3>2
  <2>4. ~(i \in a + 1 .. b /\ j \in 1 .. a)
    BY <1>1, <1>7
  <2> QED BY <1>4, <2>1, <2>2, <2>3, <2>4
<1>8. InStageOrder(m.commands)
  BY <1>1, <1>7 DEF InStageOrder
<1> QED BY <1>5, <1>6, <1>8 DEF Belongs

\* Looking ahead, commands are skipped that would have run.
Ahead(cs, ds) ==
    /\ IsList(ds) /\ Len(ds) = Len(cs)
    /\ \A i \in 1 .. Len(cs) :
          /\ CommandFields \subseteq DOMAIN ds[i]
          /\ ds[i].template = cs[i].template /\ ds[i].within = cs[i].within
          /\ ds[i].category = cs[i].category /\ ds[i].gives = cs[i].gives
          /\ ds[i].uses = cs[i].uses
          /\ \/ ds[i].skipped = cs[i].skipped
             \/ cs[i].skipped = "" /\ ds[i].skipped = "look-ahead"

LEMMA CategorySkipped ==
    ASSUME NEW cs, IsList(cs), \A i \in 1 .. Len(cs) : CommandFields \subseteq DOMAIN cs[i],
           NEW category
    PROVE  Ahead(cs, SkipCommandsByCategory(cs, category)) /\ Ahead(cs, cs)
<1> DEFINE ds == SkipCommandsByCategory(cs, category)
<1>1. Len(cs) \in Nat /\ DOMAIN cs = 1 .. Len(cs)
  BY ListFacts
<1>2. ds = [i \in 1 .. Len(cs) |->
              IF cs[i].category = category /\ cs[i].skipped = ""
              THEN [cs[i] EXCEPT !.skipped = "look-ahead"] ELSE cs[i]]
  BY <1>1 DEF SkipCommandsByCategory
<1>3. ds = [i \in 1 .. Len(cs) |-> ds[i]]
  BY <1>2
<1>4. \A i \in 1 .. Len(cs) :
         \/ ds[i] = cs[i]
         \/ cs[i].skipped = "" /\ ds[i] = [cs[i] EXCEPT !.skipped = "look-ahead"]
  BY <1>2
<1> HIDE DEF ds
<1>5. IsList(ds) /\ Len(ds) = Len(cs)
  BY <1>1, <1>3, ListMade
<1>6. ASSUME NEW i \in 1 .. Len(cs)
      PROVE  /\ CommandFields \subseteq DOMAIN ds[i]
             /\ ds[i].template = cs[i].template /\ ds[i].within = cs[i].within
             /\ ds[i].category = cs[i].category /\ ds[i].gives = cs[i].gives
             /\ ds[i].uses = cs[i].uses
             /\ \/ ds[i].skipped = cs[i].skipped
                \/ cs[i].skipped = "" /\ ds[i].skipped = "look-ahead"
  <2> DEFINE c == cs[i]
             d == ds[i]
  <2>1. d = c \/ (c.skipped = "" /\ d = [c EXCEPT !.skipped = "look-ahead"])
    BY <1>4
  <2>2. CommandFields \subseteq DOMAIN c
    OBVIOUS
  <2> HIDE DEF c, d
  <2>3. /\ CommandFields \subseteq DOMAIN d
        /\ d.template = c.template /\ d.within = c.within
        /\ d.category = c.category /\ d.gives = c.gives /\ d.uses = c.uses
        /\ d.skipped = c.skipped \/ (c.skipped = "" /\ d.skipped = "look-ahead")
    BY <2>1, <2>2 DEF CommandFields
  <2> QED BY <2>3 DEF c, d
<1>7. Ahead(cs, ds)
  BY <1>5, <1>6 DEF Ahead
<1>8. Ahead(cs, cs)
  BY DEF Ahead
<1> QED BY <1>7, <1>8 DEF ds

LEMMA LookedAhead ==
    ASSUME NEW cs, IsList(cs), \A i \in 1 .. Len(cs) : CommandFields \subseteq DOMAIN cs[i]
    PROVE  Ahead(cs, ApplyLookaheadSkipping(cs))
<1> DEFINE es == ApplyLookaheadSkipping(cs)
<1>1. \E ds : (ds = cs \/ ds = SkipCommandsByCategory(cs, "create_ct"))
              /\ (es = ds \/ es = SkipCommandsByCategory(ds, "start"))
  BY DEF ApplyLookaheadSkipping
<1> HIDE DEF es
<1>2. PICK ds : /\ ds = cs \/ ds = SkipCommandsByCategory(cs, "create_ct")
                /\ es = ds \/ es = SkipCommandsByCategory(ds, "start")
  BY <1>1
<1>3. Ahead(cs, ds)
  BY <1>2, CategorySkipped
<1>4. IsList(ds) /\ Len(ds) = Len(cs)
      /\ \A i \in 1 .. Len(ds) : CommandFields \subseteq DOMAIN ds[i]
  BY <1>3 DEF Ahead
<1>5. Ahead(ds, es)
  BY <1>2, <1>4, CategorySkipped
<1>6. Ahead(cs, es)
  <2> SUFFICES ASSUME NEW i \in 1 .. Len(cs)
               PROVE  /\ CommandFields \subseteq DOMAIN es[i]
                      /\ es[i].template = cs[i].template /\ es[i].within = cs[i].within
                      /\ es[i].category = cs[i].category /\ es[i].gives = cs[i].gives
                      /\ es[i].uses = cs[i].uses
                      /\ \/ es[i].skipped = cs[i].skipped
                         \/ cs[i].skipped = "" /\ es[i].skipped = "look-ahead"
    BY <1>4, <1>5 DEF Ahead
  <2>1. i \in 1 .. Len(ds)
    BY <1>4
  <2> DEFINE c == cs[i]
             d == ds[i]
             e == es[i]
  <2>2. /\ d.template = c.template /\ d.within = c.within
        /\ d.category = c.category /\ d.gives = c.gives /\ d.uses = c.uses
        /\ d.skipped = c.skipped \/ (c.skipped = "" /\ d.skipped = "look-ahead")
    BY <1>3 DEF Ahead
  <2>3. /\ CommandFields \subseteq DOMAIN e
        /\ e.template = d.template /\ e.within = d.within
        /\ e.category = d.category /\ e.gives = d.gives /\ e.uses = d.uses
        /\ e.skipped = d.skipped \/ (d.skipped = "" /\ e.skipped = "look-ahead")
    BY <1>5, <2>1 DEF Ahead
  <2> HIDE DEF c, d, e
  <2>4. e.skipped = c.skipped \/ (c.skipped = "" /\ e.skipped = "look-ahead")
    BY <2>2, <2>3
  <2> QED BY <2>2, <2>3, <2>4 DEF c, e
<1> QED BY <1>6 DEF es

LEMMA DefaultsApplied ==
    ASSUME NEW ps, AreParameters(ps), NEW defaults
    PROVE  Ids(ApplyPropertyDefaults(ps, defaults)) = Ids(ps)
<1> DEFINE qs == ApplyPropertyDefaults(ps, defaults)
<1>1. DOMAIN qs = DOMAIN ps /\ \A i \in DOMAIN ps : qs[i].id = ps[i].id
  <2>1. \A i \in DOMAIN ps : "id" \in DOMAIN ps[i]
    BY DEF AreParameters
  <2> QED BY <2>1 DEF ApplyPropertyDefaults
<1> HIDE DEF qs
<1>2. Ids(qs) = Ids(ps)
  BY <1>1 DEF Ids
<1> QED BY <1>2 DEF qs


WellLoaded(l) ==
    /\ IsList(l.commands) /\ AreQuiet(l.commands) /\ InStageOrder(l.commands)
    /\ l.errors = {} =>
          \A i \in DOMAIN l.commands : l.commands[i].skipped = "" =>
              \A v \in l.commands[i].uses : Supplied(l, i, v)

\* What the templates of the list made of the load, one after the other.
Underway(l, list, n) ==
    /\ IsLoad(l) /\ Sourced(l, <<>>) /\ AreQuiet(l.commands) /\ InStageOrder(l.commands)
    /\ \A k \in n + 1 .. Len(list) : Behind(l.commands, list[k].category)

LEMMA OneMore ==
    ASSUME NEW list, IsList(list), InStageOrder(list), NEW n \in 1 .. Len(list),
           NEW files, AreFiles(files), IsFiniteSet(DOMAIN files.templates),
           NEW l, Underway(l, list, n - 1)
    PROVE  Underway(ProcessTemplate(l, files, list[n].name, list[n].category), list, n)
<1> DEFINE c == list[n].category
           m == ProcessTemplate(l, files, list[n].name, c)
<1>1. Len(list) \in Nat /\ DOMAIN list = 1 .. Len(list)
  BY ListFacts
<1>2. IsLoad(l) /\ Sourced(l, <<>>) /\ AreQuiet(l.commands) /\ InStageOrder(l.commands)
  BY DEF Underway
<1>3. \A k \in n .. Len(list) : Behind(l.commands, list[k].category)
  <2>1. (n - 1) + 1 = n
    BY <1>1
  <2> QED BY <2>1 DEF Underway
<1>4. Sourced(m, <<>>) /\ Longer(l, m, c)
  BY <1>2, Processed
<1> HIDE DEF m
<1>5. IsLoad(m)
  BY <1>4 DEF Longer, Grown
<1>6. Behind(l.commands, c)
  <2>1. n \in n .. Len(list)
    BY <1>1
  <2> QED BY <1>3, <2>1
<1>7. /\ InStageOrder(m.commands) /\ AreQuiet(m.commands)
      /\ \A i \in DOMAIN m.commands :
            \/ i \in DOMAIN l.commands /\ m.commands[i] = l.commands[i]
            \/ m.commands[i].category = c
  <2> HIDE DEF c
  <2> QED BY <1>2, <1>4, <1>6, StagesKept
<1>8. ASSUME NEW k \in n + 1 .. Len(list) PROVE Behind(m.commands, list[k].category)
  <2> DEFINE d == list[k].category
  <2>1. Behind(l.commands, d)
    <3>1. k \in n .. Len(list)
      BY <1>1
    <3> QED BY <1>3, <3>1
  <2>2. Rank(c) > 0 /\ Rank(d) > 0 => Rank(c) <= Rank(d)
    <3>1. k \in DOMAIN list /\ n \in DOMAIN list /\ n < k
      BY <1>1
    <3> QED BY <3>1 DEF InStageOrder
  <2> HIDE DEF c, d
  <2>3. Behind(m.commands, d)
    BY <1>7, <2>1, <2>2 DEF Behind
  <2> QED BY <2>3 DEF d
<1> QED BY <1>4, <1>5, <1>7, <1>8 DEF Underway, m

\* All templates of the list are through: only the look-ahead is left.
LEMMA Done ==
    ASSUME NEW l, NEW list, Underway(l, list, Len(list)), NEW m,
           m = [l EXCEPT !.parameters = ApplyPropertyDefaults(@, l.defaults),
                         !.commands   = ApplyLookaheadSkipping(@)]
    PROVE  WellLoaded(m)
<1> DEFINE cs == l.commands
           ds == ApplyLookaheadSkipping(cs)
           ps == ApplyPropertyDefaults(l.parameters, l.defaults)
<1>1. IsLoad(l) /\ Sourced(l, <<>>) /\ AreQuiet(cs) /\ InStageOrder(cs)
  BY DEF Underway
<1>2. m = [l EXCEPT !.parameters = ps, !.commands = ds]
  OBVIOUS
<1>3. Ids(ps) = Ids(l.parameters)
  BY <1>1, DefaultsApplied DEF IsLoad
<1>4. IsList(cs) /\ Len(cs) \in Nat /\ DOMAIN cs = 1 .. Len(cs)
  BY <1>1, ListFacts DEF IsLoad
<1>5. Ahead(cs, ds)
  <2>1. \A i \in 1 .. Len(cs) : CommandFields \subseteq DOMAIN cs[i]
    BY <1>1, <1>4 DEF AreQuiet
  <2> HIDE DEF cs
  <2> QED BY <1>4, <2>1, LookedAhead
<1> HIDE DEF ps, ds
<1>6. m.commands = ds /\ m.parameters = ps /\ m.inputs = l.inputs /\ m.errors = l.errors
  BY <1>1, <1>2 DEF IsLoad, LoadFields
<1> HIDE DEF cs
<1>7. IsList(ds) /\ Len(ds) = Len(cs) /\ DOMAIN ds = 1 .. Len(cs)
  BY <1>5, ListFacts DEF Ahead
<1>8. \A i \in 1 .. Len(cs) :
         /\ CommandFields \subseteq DOMAIN ds[i]
         /\ ds[i].template = cs[i].template /\ ds[i].within = cs[i].within
         /\ ds[i].category = cs[i].category /\ ds[i].gives = cs[i].gives
         /\ ds[i].uses = cs[i].uses
  BY <1>5 DEF Ahead
<1>9. \A i \in 1 .. Len(cs) :
         /\ ds[i].skipped = "" => cs[i].skipped = ""
         /\ cs[i].skipped = "" => ds[i].skipped \in {"", "look-ahead"}
  BY <1>5 DEF Ahead
<1>10. AreQuiet(ds)
  BY <1>1, <1>4, <1>7, <1>8 DEF AreQuiet
<1>11. InStageOrder(ds)
  BY <1>1, <1>4, <1>7, <1>8 DEF InStageOrder
<1>12. ASSUME m.errors = {}, NEW i \in DOMAIN ds, ds[i].skipped = "", NEW v \in ds[i].uses
       PROVE  Supplied(m, i, v)
  <2>1. i \in DOMAIN l.commands /\ l.commands[i].skipped = "" /\ v \in l.commands[i].uses
        /\ l.errors = {}
    BY <1>4, <1>6, <1>7, <1>8, <1>9, <1>12 DEF cs
  <2>2. Settled(l, i, v) \/ Comes(<<>>, l.commands[i].within, v)
    BY <1>1, <2>1 DEF Sourced
  <2>3. Settled(l, i, v)
    BY <2>2, NoElements DEF Comes
  <2>4. CASE v \in BuiltInVariables \cup l.inputs \cup Ids(l.parameters)
    BY <1>3, <1>6, <2>4 DEF Supplied
  <2>5. CASE ~(v \in BuiltInVariables \cup l.inputs \cup Ids(l.parameters))
    <3>1. PICK j \in DOMAIN cs : /\ cs[j].skipped = "" /\ v \in cs[j].gives
                                 /\ j <= i \/ cs[j].template \in cs[i].within
      BY <2>3, <2>5 DEF Settled, cs
    <3>2. /\ j \in DOMAIN ds /\ ds[j].gives = cs[j].gives /\ ds[j].template = cs[j].template
          /\ ds[j].skipped \in {"", "look-ahead"} /\ ds[i].within = cs[i].within
      BY <1>4, <1>7, <1>8, <1>9, <3>1
    <3> QED BY <1>6, <3>1, <3>2 DEF Supplied
  <2> QED BY <2>4, <2>5
<1> QED BY <1>6, <1>7, <1>10, <1>11, <1>12 DEF WellLoaded

LEMMA Loaded ==
    ASSUME NEW app, IsRead(app), NEW list, IsList(list), InStageOrder(list),
           NEW files, AreFiles(files), IsFiniteSet(DOMAIN files.templates),
           NEW given, NEW errors
    PROVE  WellLoaded(LoadApplication(app, list, files, given, errors))
<1> DEFINE most == Len(list)
           first == [Prepared(app, given) EXCEPT !.errors = errors]
           Walk(u) == [n \in 0 .. most |->
                          IF n = 0 THEN first
                          ELSE ProcessTemplate(u[n - 1], files, list[n].name, list[n].category)]
           w == CHOOSE u : u = Walk(u)
           l == w[most]
           m == LoadApplication(app, list, files, given, errors)
<1>1. m = [l EXCEPT !.parameters = ApplyPropertyDefaults(@, l.defaults),
                    !.commands   = ApplyLookaheadSkipping(@)]
  BY DEF LoadApplication, Completed
<1>2. most \in Nat /\ DOMAIN list = 1 .. most
  BY ListFacts
<1>3. Underway(first, list, 0)
  <2> DEFINE p == Prepared(app, given)
  <2>1. /\ IsLoad(p) /\ Sourced(p, <<>>) /\ AreQuiet(p.commands)
        /\ p.errors = {} /\ \A i \in DOMAIN p.commands : p.commands[i].category = ""
    BY PreparedLoad DEF IsFresh
  <2> HIDE DEF p
  <2>2. /\ DOMAIN first = DOMAIN p /\ first.parameters = p.parameters /\ first.inputs = p.inputs
        /\ first.resolved = p.resolved /\ first.commands = p.commands /\ first.errors = errors
    BY <2>1 DEF IsLoad, LoadFields, p
  <2> HIDE DEF first
  <2>3. IsLoad(first)
    BY <2>1, <2>2 DEF IsLoad
  <2>4. Grown(p, first)
    BY <2>1, <2>2, <2>3 DEF Grown
  <2>5. Sourced(first, <<>>)
    BY <2>1, <2>2, <2>4, SourcedStill
  <2>6. Rank("") = 0
    BY Stages
  <2>9. \A i \in DOMAIN first.commands : first.commands[i].category = ""
    BY <2>1, <2>2
  <2>8. \A i \in DOMAIN first.commands : ~(Rank(first.commands[i].category) > 0)
    <3> SUFFICES ASSUME NEW i \in DOMAIN first.commands
                 PROVE  ~(Rank(first.commands[i].category) > 0)
      OBVIOUS
    <3>1. Rank(first.commands[i].category) = 0
      BY <2>6, <2>9
    <3> QED BY <3>1
  <2>7. /\ InStageOrder(first.commands)
        /\ \A k \in 0 + 1 .. Len(list) : Behind(first.commands, list[k].category)
    BY <2>8 DEF InStageOrder, Behind
  <2> QED BY <2>1, <2>2, <2>3, <2>5, <2>7 DEF Underway
<1> HIDE DEF first, most
<1>4. w = Walk(w)
  <2> DEFINE Then(n, x) == ProcessTemplate(x, files, list[n].name, list[n].category)
             Walks(n, u) == u = [i \in 0 .. n |-> IF i = 0 THEN first ELSE Then(i, u[i - 1])]
             S == {n \in Nat : \E u : Walks(n, u)}
  <2>1. 0 \in S
    <3> DEFINE u == [i \in 0 .. 0 |-> first]
    <3>1. u = [i \in 0 .. 0 |-> IF i = 0 THEN first ELSE Then(i, u[i - 1])]
      <4>1. \A i \in 0 .. 0 : i = 0
        OBVIOUS
      <4> HIDE DEF Then
      <4> QED BY <4>1
    <3>2. Walks(0, u)
      BY <3>1
    <3> HIDE DEF u, Walks
    <3> QED BY <3>2
  <2>2. ASSUME NEW n \in Nat, n \in S PROVE n + 1 \in S
    <3>1. PICK u : Walks(n, u)
      BY <2>2
    <3> HIDE DEF Then
    <3> DEFINE v == [i \in 0 .. n + 1 |-> IF i = 0 THEN first ELSE Then(i, u[i - 1])]
    <3>2. \A i \in 0 .. n : v[i] = u[i]
      <4> SUFFICES ASSUME NEW i \in 0 .. n PROVE v[i] = u[i]
        OBVIOUS
      <4>1. i \in 0 .. n + 1
        OBVIOUS
      <4>2. u[i] = IF i = 0 THEN first ELSE Then(i, u[i - 1])
        BY <3>1
      <4> QED BY <4>1, <4>2
    <3>3. \A i \in 0 .. n + 1 : i # 0 => i - 1 \in 0 .. n
      OBVIOUS
    <3>4. v = [i \in 0 .. n + 1 |-> IF i = 0 THEN first ELSE Then(i, u[i - 1])]
      OBVIOUS
    <3> HIDE DEF v
    <3>5. \A i \in 0 .. n + 1 : v[i] = IF i = 0 THEN first ELSE Then(i, v[i - 1])
      BY <3>2, <3>3, <3>4
    <3>6. DOMAIN v = 0 .. n + 1 /\ v = [i \in 0 .. n + 1 |-> v[i]]
      BY <3>4
    <3>7. Walks(n + 1, v)
      BY <3>5, <3>6
    <3> HIDE DEF Walks
    <3> QED BY <3>7
  <2> HIDE DEF S
  <2>3. most \in S
    BY <1>2, <2>1, <2>2, AllNumbers
  <2>4. PICK u : Walks(most, u)
    BY <2>3 DEF S
  <2>5. u = Walk(u)
    BY <2>4
  <2> HIDE DEF Walk
  <2> QED BY <2>5
<1> HIDE DEF w
<1>5. /\ w[0] = first
      /\ \A n \in 1 .. most :
            w[n] = ProcessTemplate(w[n - 1], files, list[n].name, list[n].category)
  <2>1. \A n \in 1 .. most : n \in 0 .. most /\ n # 0
    BY <1>2
  <2>2. 0 \in 0 .. most
    BY <1>2
  <2> QED BY <1>4, <2>1, <2>2
<1> DEFINE T == {1}
           x == [n \in 0 .. most |-> IF Underway(w[n], list, n) THEN 1 ELSE 0]
<1>6. \A n \in 0 .. most : x[n] \in T <=> Underway(w[n], list, n)
  OBVIOUS
<1> HIDE DEF T, x
<1>7. x[0] \in T
  <2>1. 0 \in 0 .. most
    BY <1>2
  <2> QED BY <1>3, <1>5, <1>6, <2>1
<1>8. ASSUME NEW n \in 1 .. most, x[n - 1] \in T PROVE x[n] \in T
  <2>1. n - 1 \in 0 .. most /\ n \in 0 .. most
    BY <1>2
  <2>2. Underway(w[n - 1], list, n - 1)
    BY <1>6, <1>8, <2>1
  <2>3. n \in 1 .. Len(list)
    BY DEF most
  <2>4. Underway(ProcessTemplate(w[n - 1], files, list[n].name, list[n].category), list, n)
    BY <2>2, <2>3, OneMore
  <2>5. Underway(w[n], list, n)
    BY <1>5, <2>4
  <2> QED BY <1>6, <2>1, <2>5
<1>9. Underway(l, list, most)
  <2>1. \A n \in 0 .. most : x[n] \in T
    BY <1>2, <1>7, <1>8, AllAlong
  <2>2. most \in 0 .. most
    BY <1>2
  <2> QED BY <1>6, <2>1, <2>2
<1> HIDE DEF m, l
<1>10. WellLoaded(m)
  <2>1. Underway(l, list, Len(list))
    BY <1>9 DEF most
  <2> QED BY <1>1, <2>1, Done
<1> QED BY <1>10 DEF m


----------------------------------------------------------------------------
(* The plan of a task: what its addons put between the commands.            *)

\* r is the plan with the steps put at a place.
Inserted(r, plan, at, steps) ==
    /\ IsList(r) /\ Len(r) = Len(plan) + Len(steps)
    /\ \A i \in 1 .. at - 1 : r[i] = plan[i]
    /\ \A i \in 1 .. Len(steps) : r[at - 1 + i] = steps[i]
    /\ \A i \in at .. Len(plan) : r[Len(steps) + i] = plan[i]
    /\ ToSet(r) = ToSet(plan) \cup ToSet(steps)

LEMMA InFront ==
    ASSUME NEW plan, NEW steps, IsList(plan), IsList(steps)
    PROVE  Inserted(steps \o plan, plan, 1, steps)
<1>1. IsJoin(steps \o plan, steps, plan)
  BY Joined
<1>2. Len(plan) \in Nat /\ Len(steps) \in Nat
  BY ListFacts
<1> DEFINE r == steps \o plan
           a == Len(plan)
           b == Len(steps)
<1> HIDE DEF r
<1>3. /\ IsList(r) /\ Len(r) = b + a /\ ToSet(r) = ToSet(steps) \cup ToSet(plan)
      /\ \A i \in 1 .. b : r[i] = steps[i]
      /\ \A i \in 1 .. a : r[b + i] = plan[i]
  BY <1>1 DEF IsJoin, r
<1> HIDE DEF a, b
<1>4. b + a = a + b /\ 1 .. 1 - 1 = {} /\ \A i \in 1 .. b : 1 - 1 + i = i
  BY <1>2 DEF a, b
<1>5. Inserted(r, plan, 1, steps)
  BY <1>3, <1>4 DEF Inserted, a, b
<1> QED BY <1>5 DEF r

LEMMA AtTheEnd ==
    ASSUME NEW plan, NEW steps, IsList(plan), IsList(steps)
    PROVE  Inserted(plan \o steps, plan, Len(plan) + 1, steps)
<1>1. IsJoin(plan \o steps, plan, steps)
  BY Joined
<1>2. Len(plan) \in Nat /\ Len(steps) \in Nat
  BY ListFacts
<1> DEFINE r == plan \o steps
           a == Len(plan)
           b == Len(steps)
<1> HIDE DEF r
<1>3. /\ IsList(r) /\ Len(r) = a + b /\ ToSet(r) = ToSet(plan) \cup ToSet(steps)
      /\ \A i \in 1 .. a : r[i] = plan[i]
      /\ \A i \in 1 .. b : r[a + i] = steps[i]
  BY <1>1 DEF IsJoin, r
<1> HIDE DEF a, b
<1>4. a + 1 - 1 = a /\ a + 1 .. a = {} /\ \A i \in 1 .. b : a + 1 - 1 + i = a + i
  BY <1>2 DEF a, b
<1>5. Inserted(r, plan, a + 1, steps)
  BY <1>3, <1>4 DEF Inserted, a, b
<1> QED BY <1>5 DEF r, a

LEMMA InBetween ==
    ASSUME NEW plan, NEW steps, IsList(plan), IsList(steps), NEW at \in 1 .. Len(plan) + 1
    PROVE  Inserted(InsertAll(plan, at, steps), plan, at, steps)
<1> DEFINE S == ToSet(plan) \cup ToSet(steps)
           L == Len(plan)
           k == Len(steps)
           a == SubSeq(plan, 1, at - 1)
           b == SubSeq(plan, at, L)
           ax == a \o steps
           r == ax \o b
<1>1. plan \in Seq(S) /\ steps \in Seq(S)
  BY ListOf
<1> HIDE DEF S
<1>2. L \in Nat /\ k \in Nat /\ at - 1 \in 0 .. L /\ (\A i \in 1 .. L : plan[i] \in S)
      /\ at \in Nat
  BY <1>1
<1>3. a \in Seq(S) /\ Len(a) = at - 1 /\ \A i \in 1 .. at - 1 : a[i] = plan[i]
  BY <1>1, <1>2, SubSeqProperties
<1>4. b \in Seq(S) /\ Len(b) = L - at + 1 /\ \A i \in 1 .. L - at + 1 : b[i] = plan[at + i - 1]
  BY <1>1, <1>2, SubSeqProperties
<1>5. InsertAll(plan, at, steps) = r
  BY DEF InsertAll
<1> HIDE DEF a, b
<1>6. IsList(a) /\ IsList(b)
  BY <1>3, <1>4, SequencesAreLists
<1>7. IsJoin(ax, a, steps)
  BY <1>6, Joined
<1> HIDE DEF ax
<1>8. IsJoin(r, ax, b)
  BY <1>6, <1>7, Joined DEF IsJoin
<1> HIDE DEF r, L, k
<1>9. /\ IsList(r) /\ Len(ax) = at - 1 + k /\ Len(r) = at - 1 + k + (L - at + 1)
      /\ \A i \in 1 .. at - 1 : ax[i] = plan[i]
      /\ \A i \in 1 .. k : ax[at - 1 + i] = steps[i]
      /\ \A i \in 1 .. at - 1 + k : r[i] = ax[i]
      /\ \A i \in 1 .. L - at + 1 : r[at - 1 + k + i] = b[i]
  BY <1>3, <1>4, <1>7, <1>8 DEF IsJoin, k
<1>10. Len(r) = L + k
  BY <1>2, <1>9
<1>11. ASSUME NEW i \in 1 .. at - 1 PROVE r[i] = plan[i]
  <2>1. i \in 1 .. at - 1 + k
    BY <1>2
  <2> QED BY <1>9, <2>1
<1>12. ASSUME NEW i \in 1 .. k PROVE r[at - 1 + i] = steps[i]
  <2>1. at - 1 + i \in 1 .. at - 1 + k
    BY <1>2
  <2> QED BY <1>9, <2>1
<1>13. ASSUME NEW i \in at .. L PROVE r[k + i] = plan[i]
  <2>1. /\ i - at + 1 \in 1 .. L - at + 1 /\ at - 1 + k + (i - at + 1) = k + i
        /\ at + (i - at + 1) - 1 = i
    BY <1>2
  <2> QED BY <1>4, <1>9, <2>1
<1>14. ToSet(r) = ToSet(plan) \cup ToSet(steps)
  <2>1. ToSet(r) = (ToSet(a) \cup ToSet(steps)) \cup ToSet(b)
    BY <1>7, <1>8 DEF IsJoin
  <2>2. /\ ToSet(a) = {a[i] : i \in 1 .. at - 1} /\ ToSet(b) = {b[i] : i \in 1 .. L - at + 1}
        /\ ToSet(plan) = {plan[i] : i \in 1 .. L}
    BY <1>3, <1>4, <1>6, ListFacts DEF L
  <2>3. ToSet(a) \subseteq ToSet(plan)
    <3>1. \A i \in 1 .. at - 1 : i \in 1 .. L
      BY <1>2
    <3> QED BY <1>3, <2>2, <3>1
  <2>4. ToSet(b) \subseteq ToSet(plan)
    <3>1. \A i \in 1 .. L - at + 1 : at + i - 1 \in 1 .. L
      BY <1>2
    <3> QED BY <1>4, <2>2, <3>1
  <2>5. ASSUME NEW x \in ToSet(plan) PROVE x \in ToSet(a) \cup ToSet(b)
    <3>1. PICK i \in 1 .. L : x = plan[i]
      BY <2>2
    <3>2. CASE i < at
      <4>1. i \in 1 .. at - 1
        BY <1>2, <3>2
      <4> QED BY <1>3, <2>2, <3>1, <4>1
    <3>3. CASE ~(i < at)
      <4>1. i - at + 1 \in 1 .. L - at + 1 /\ at + (i - at + 1) - 1 = i
        BY <1>2, <3>3
      <4>2. b[i - at + 1] = plan[i]
        BY <1>4, <4>1
      <4> QED BY <2>2, <3>1, <4>1, <4>2
    <3> QED BY <3>2, <3>3
  <2> QED BY <2>1, <2>3, <2>4, <2>5
<1> QED BY <1>5, <1>9, <1>10, <1>11, <1>12, <1>13, <1>14 DEF Inserted, L, k

\* Where the steps of a plan with others inserted come from.
MovedTo(i, o, at, k) == (i = o /\ o < at) \/ (i = o + k /\ at <= o)

LEMMA Origins ==
    ASSUME NEW r, NEW plan, NEW at, NEW steps, IsList(plan), IsList(steps),
           at \in 1 .. Len(plan) + 1, Inserted(r, plan, at, steps), NEW i \in DOMAIN r
    PROVE  \/ \E o \in DOMAIN plan : r[i] = plan[o] /\ MovedTo(i, o, at, Len(steps))
           \/ \E o \in DOMAIN steps : r[i] = steps[o] /\ i = at - 1 + o
<1> DEFINE L == Len(plan)
           k == Len(steps)
<1>1. L \in Nat /\ k \in Nat /\ DOMAIN plan = 1 .. L /\ DOMAIN steps = 1 .. k
  BY ListFacts
<1>2. DOMAIN r = 1 .. L + k
  BY ListFacts DEF Inserted
<1>3. /\ \A j \in 1 .. at - 1 : r[j] = plan[j]
      /\ \A j \in 1 .. k : r[at - 1 + j] = steps[j]
      /\ \A j \in at .. L : r[k + j] = plan[j]
      /\ at \in 1 .. L + 1
  BY DEF Inserted
<1> HIDE DEF L, k
<1>4. CASE i < at
  <2>1. i \in 1 .. at - 1 /\ i \in 1 .. L
    BY <1>1, <1>2, <1>3, <1>4
  <2> QED BY <1>1, <1>3, <1>4, <2>1 DEF MovedTo
<1>5. CASE at <= i /\ i < at + k
  <2>1. i - at + 1 \in 1 .. k /\ at - 1 + (i - at + 1) = i
    BY <1>1, <1>2, <1>3, <1>5
  <2> QED BY <1>1, <1>3, <2>1
<1>6. CASE at + k <= i
  <2>1. i - k \in at .. L /\ k + (i - k) = i /\ i = (i - k) + k /\ at <= i - k /\ i - k \in 1 .. L
    BY <1>1, <1>2, <1>3, <1>6
  <2>2. r[i] = plan[i - k]
    BY <1>3, <2>1
  <2> QED BY <1>1, <2>1, <2>2 DEF MovedTo, k
<1> QED BY <1>1, <1>2, <1>3, <1>4, <1>5, <1>6


\* The templates of an addon that belong to the time before the start.
EarlyPhases == {"properties", "pre_start", "notes"}

\* A plan whose addons are at their stage, and whose container starts before
\* it replaces another.
Staged(plan) ==
    /\ IsList(plan) /\ AddonsAtTheirStage(plan)
    /\ \A i \in Boots(plan), j \in DOMAIN plan : plan[j].category = "replace_ct" => i < j

\* The notes of a plan come in pairs.
Paired(plan) ==
    \A i \in DOMAIN plan : plan[i].phase = "notes" =>
        /\ plan[i].category = ""
        /\ plan[i].kind = "script" =>
              /\ i > 1 /\ plan[i - 1].phase = "notes" /\ plan[i - 1].by = plan[i].by
              /\ "addon_id" \in plan[i - 1].gives

\* Nothing of it tells the notes' script that an addon goes.
IsQuiet(plan) == \A i \in DOMAIN plan : "addon_action" \notin plan[i].gives

\* The step may be put there.
Fits(s, plan, at) ==
    /\ s.category = ""
    /\ s.phase \in EarlyPhases => \A b \in Boots(plan) : at <= b
    /\ s.phase = "post_start" =>
          /\ \A b \in Boots(plan) : b < at
          /\ \A c \in DOMAIN plan : plan[c].category = "replace_ct" => at <= c

LEMMA MovedInOrder ==
    ASSUME NEW at \in Nat, NEW k \in Nat, NEW i, NEW o \in Nat, MovedTo(i, o, at, k)
    PROVE  /\ i \in Nat
           /\ \A j, p \in Nat : MovedTo(j, p, at, k) => (p < o <=> j < i)
           /\ \A n \in 1 .. k : /\ at <= o => at - 1 + n < i
                                /\ o < at => i < at - 1 + n
BY DEF MovedTo

LEMMA InsertedStaged ==
    ASSUME NEW r, NEW plan, NEW at, NEW steps, IsList(steps), Staged(plan),
           at \in 1 .. Len(plan) + 1, Inserted(r, plan, at, steps),
           \A n \in DOMAIN steps : Fits(steps[n], plan, at)
    PROVE  Staged(r)
<1> DEFINE k == Len(steps)
<1>1. k \in Nat /\ DOMAIN steps = 1 .. k /\ IsList(plan)
  BY ListFacts DEF Staged
<1>2. Len(plan) \in Nat /\ DOMAIN plan = 1 .. Len(plan) /\ at \in Nat
  BY <1>1, ListFacts
<1>3. IsList(r) /\ DOMAIN r = 1 .. Len(plan) + k
  BY ListFacts DEF Inserted
<1> HIDE DEF k
<1>4. \A i \in DOMAIN r :
         \/ \E o \in DOMAIN plan : r[i] = plan[o] /\ MovedTo(i, o, at, k)
         \/ \E n \in DOMAIN steps : r[i] = steps[n] /\ i = at - 1 + n
  BY <1>1, Origins DEF k
<1> DEFINE Follows(i, j) ==
               /\ (r[i].category \in {"pre_start_finalize", "start"}
                   /\ r[j].phase \in EarlyPhases) => j < i
               /\ (r[i].category \in {"pre_start_finalize", "start"}
                   /\ r[j].phase = "post_start") => i < j
               /\ (r[i].category = "replace_ct" /\ r[j].phase = "post_start") => j < i
               /\ (r[i].category \in {"pre_start_finalize", "start"}
                   /\ r[j].category = "replace_ct") => i < j
<1>5. ASSUME NEW i \in DOMAIN r, NEW j \in DOMAIN r,
             r[i].category \in {"pre_start_finalize", "start", "replace_ct"}
      PROVE  Follows(i, j)
  <2>1. PICK o \in DOMAIN plan : r[i] = plan[o] /\ MovedTo(i, o, at, k)
    <3>1. \A n \in DOMAIN steps : steps[n].category = ""
      BY DEF Fits
    <3> QED BY <1>4, <1>5, <3>1
  <2>2. o \in Nat
    BY <1>2
  <2>3. CASE \E p \in DOMAIN plan : r[j] = plan[p] /\ MovedTo(j, p, at, k)
    <3>1. PICK p \in DOMAIN plan : r[j] = plan[p] /\ MovedTo(j, p, at, k)
      BY <2>3
    <3>2. p \in Nat
      BY <1>2
    <3>3. (p < o <=> j < i) /\ (o < p <=> i < j)
      BY <1>1, <1>2, <2>1, <2>2, <3>1, <3>2, MovedInOrder
    <3>4. /\ (o \in Boots(plan) /\ plan[p].phase \in EarlyPhases) => p < o
          /\ (o \in Boots(plan) /\ plan[p].phase = "post_start") => o < p
          /\ (plan[o].category = "replace_ct" /\ plan[p].phase = "post_start") => p < o
          /\ (o \in Boots(plan) /\ plan[p].category = "replace_ct") => o < p
      BY DEF Staged, AddonsAtTheirStage, EarlyPhases
    <3>5. o \in Boots(plan) <=> plan[o].category \in {"pre_start_finalize", "start"}
      BY DEF Boots
    <3> QED BY <2>1, <3>1, <3>3, <3>4, <3>5
  <2>4. CASE \E n \in DOMAIN steps : r[j] = steps[n] /\ j = at - 1 + n
    <3>1. PICK n \in DOMAIN steps : r[j] = steps[n] /\ j = at - 1 + n
      BY <2>4
    <3>2. (at <= o => j < i) /\ (o < at => i < j)
      BY <1>1, <1>2, <2>1, <2>2, <3>1, MovedInOrder
    <3>3. Fits(steps[n], plan, at)
      OBVIOUS
    <3>4. o \in Boots(plan) <=> plan[o].category \in {"pre_start_finalize", "start"}
      BY DEF Boots
    <3> QED BY <2>1, <3>1, <3>2, <3>3, <3>4 DEF Fits
  <2> HIDE DEF Follows
  <2> QED BY <1>4, <2>3, <2>4
<1>6. ASSUME NEW i \in DOMAIN r, NEW j \in DOMAIN r PROVE Follows(i, j)
  <2>1. CASE r[i].category \in {"pre_start_finalize", "start", "replace_ct"}
    BY <1>5, <2>1
  <2> QED BY <2>1
<1>7. Boots(r) = {i \in DOMAIN r : r[i].category \in {"pre_start_finalize", "start"}}
  BY DEF Boots
<1>8. AddonsAtTheirStage(r)
  BY <1>6, <1>7 DEF AddonsAtTheirStage, EarlyPhases
<1>9. \A i \in Boots(r), j \in DOMAIN r : r[j].category = "replace_ct" => i < j
  BY <1>6, <1>7
<1> QED BY <1>3, <1>8, <1>9 DEF Staged

\* A place that is not between the two of a pair.
Apart(plan, at) == (at \in DOMAIN plan /\ at > 1) => plan[at].category # ""

LEMMA InsertedPairs ==
    ASSUME NEW r, NEW plan, NEW at, NEW steps, IsList(plan), IsList(steps),
           at \in 1 .. Len(plan) + 1, Inserted(r, plan, at, steps),
           Paired(plan), Paired(steps),
           Apart(plan, at)
    PROVE  Paired(r)
<1> DEFINE k == Len(steps)
           L == Len(plan)
           Follows(i) ==
               /\ r[i].category = ""
               /\ r[i].kind = "script" =>
                     /\ i > 1 /\ r[i - 1].phase = "notes" /\ r[i - 1].by = r[i].by
                     /\ "addon_id" \in r[i - 1].gives
<1>1. k \in Nat /\ DOMAIN steps = 1 .. k /\ L \in Nat /\ DOMAIN plan = 1 .. L
  BY ListFacts
<1>2. /\ \A i \in 1 .. at - 1 : r[i] = plan[i]
      /\ \A i \in 1 .. k : r[at - 1 + i] = steps[i]
      /\ \A i \in at .. L : r[k + i] = plan[i]
      /\ at \in 1 .. L + 1
  BY DEF Inserted
<1> HIDE DEF k, L
<1>3. \A i \in DOMAIN r :
         \/ \E o \in DOMAIN plan : r[i] = plan[o] /\ MovedTo(i, o, at, k)
         \/ \E n \in DOMAIN steps : r[i] = steps[n] /\ i = at - 1 + n
  BY Origins DEF k
<1>4. ASSUME NEW i \in DOMAIN r, r[i].phase = "notes" PROVE Follows(i)
  <2>1. CASE \E o \in DOMAIN plan : r[i] = plan[o] /\ MovedTo(i, o, at, k)
    <3>1. PICK o \in DOMAIN plan : r[i] = plan[o] /\ MovedTo(i, o, at, k)
      BY <2>1
    <3>2. /\ plan[o].category = ""
          /\ plan[o].kind = "script" =>
                /\ o > 1 /\ plan[o - 1].phase = "notes" /\ plan[o - 1].by = plan[o].by
                /\ "addon_id" \in plan[o - 1].gives
      BY <1>4, <3>1 DEF Paired
    <3>3. ASSUME r[i].kind = "script" PROVE i > 1 /\ r[i - 1] = plan[o - 1]
      <4>1. o > 1 /\ o \in 1 .. L
        BY <1>1, <3>1, <3>2, <3>3
      <4>2. CASE i = o /\ o < at
        <5>1. o - 1 \in 1 .. at - 1
          BY <1>1, <1>2, <4>1, <4>2
        <5> QED BY <1>2, <4>1, <4>2, <5>1
      <4>3. CASE i = o + k /\ at <= o
        <5>1. o # at
          <6>1. plan[o].category = "" /\ o \in DOMAIN plan /\ o > 1
            BY <3>2, <4>1
          <6> QED BY <6>1 DEF Apart
        <5>2. o - 1 \in at .. L /\ i - 1 = k + (o - 1) /\ i > 1
          BY <1>1, <1>2, <4>1, <4>3, <5>1
        <5> QED BY <1>2, <5>2
      <4> QED BY <3>1, <4>2, <4>3 DEF MovedTo
    <3> QED BY <3>1, <3>2, <3>3
  <2>2. CASE \E n \in DOMAIN steps : r[i] = steps[n] /\ i = at - 1 + n
    <3>1. PICK n \in DOMAIN steps : r[i] = steps[n] /\ i = at - 1 + n
      BY <2>2
    <3>2. /\ steps[n].category = ""
          /\ steps[n].kind = "script" =>
                /\ n > 1 /\ steps[n - 1].phase = "notes" /\ steps[n - 1].by = steps[n].by
                /\ "addon_id" \in steps[n - 1].gives
      BY <1>4, <3>1 DEF Paired
    <3>3. ASSUME r[i].kind = "script" PROVE i > 1 /\ r[i - 1] = steps[n - 1]
      <4>1. n > 1 /\ n \in 1 .. k
        BY <1>1, <3>1, <3>2, <3>3
      <4>2. at \in Nat /\ at >= 1 /\ n \in Nat /\ i = at - 1 + n
        BY <1>1, <1>2, <3>1, <4>1
      <4>3. n - 1 \in 1 .. k
        BY <1>1, <4>1
      <4>4. i - 1 = at - 1 + (n - 1) /\ i > 1
        BY <4>1, <4>2
      <4> QED BY <1>2, <4>3, <4>4
    <3> QED BY <3>1, <3>2, <3>3
  <2> HIDE DEF Follows
  <2> QED BY <1>3, <2>1, <2>2
<1> QED BY <1>4 DEF Paired

\* Steps put into a plan leave it in order.
InOrder(plan) == Staged(plan) /\ Paired(plan) /\ IsQuiet(plan)

LEMMA InsertedQuiet ==
    ASSUME NEW r, NEW plan, NEW at, NEW steps, IsList(plan), IsList(steps),
           at \in 1 .. Len(plan) + 1, Inserted(r, plan, at, steps), IsQuiet(plan), IsQuiet(steps)
    PROVE  IsQuiet(r)
<1>1. \A i \in DOMAIN r :
         (\E o \in DOMAIN plan : r[i] = plan[o]) \/ (\E n \in DOMAIN steps : r[i] = steps[n])
  BY Origins
<1> QED BY <1>1 DEF IsQuiet


LEMMA InsertedInOrder ==
    ASSUME NEW r, NEW plan, NEW at, NEW steps, IsList(steps), InOrder(plan),
           at \in 1 .. Len(plan) + 1, Inserted(r, plan, at, steps), Apart(plan, at),
           \A n \in DOMAIN steps : Fits(steps[n], plan, at), Paired(steps), IsQuiet(steps)
    PROVE  InOrder(r)
<1>1. Staged(plan) /\ Paired(plan) /\ IsQuiet(plan) /\ IsList(plan)
  BY DEF InOrder, Staged
<1>2. Staged(r)
  BY <1>1, InsertedStaged
<1>3. Paired(r)
  BY <1>1, InsertedPairs
<1>4. IsQuiet(r)
  BY <1>1, InsertedQuiet
<1> QED BY <1>2, <1>3, <1>4 DEF InOrder

\* The place before the container starts, and the one behind it.
LEMMA PlaceBefore ==
    ASSUME NEW plan, IsList(plan), NEW at, at = FindAddonInsertionIndex(plan, "pre_start")
    PROVE  /\ at \in 1 .. Len(plan) + 1 /\ Apart(plan, at)
           /\ \A b \in Boots(plan) : at <= b
           /\ at \in Boots(plan) \/ at = Len(plan) + 1
<1>1. at = FirstOf(Boots(plan), plan)
  BY DEF FindAddonInsertionIndex, Boots
<1>2. plan \in Seq(ToSet(plan)) /\ Boots(plan) \subseteq DOMAIN plan
  BY DEF IsList, Boots
<1>3. /\ at \in 1 .. Len(plan) + 1
      /\ at \in Boots(plan) \/ at = Len(plan) + 1
      /\ \A b \in Boots(plan) : at <= b
  BY <1>1, <1>2, FirstPlaces
<1>4. at \in DOMAIN plan => plan[at].category # ""
  <2>1. at \in Boots(plan) => plan[at].category # ""
    BY DEF Boots
  <2>2. Len(plan) + 1 \notin DOMAIN plan
    BY ListFacts
  <2> QED BY <1>3, <2>1, <2>2
<1> QED BY <1>3, <1>4 DEF Apart

LEMMA PlaceBehind ==
    ASSUME NEW plan, Staged(plan), NEW at, at = FindAddonInsertionIndex(plan, "post_start")
    PROVE  /\ at \in 1 .. Len(plan) + 1 /\ Apart(plan, at)
           /\ \A b \in Boots(plan) : b < at
           /\ \A c \in DOMAIN plan : plan[c].category = "replace_ct" => at <= c
<1> DEFINE R == {i \in DOMAIN plan : plan[i].category \in {"replace_ct"}}
<1>1. at = FirstOf(R, plan)
  <2>1. "post_start" # "pre_start"
    OBVIOUS
  <2> QED BY <2>1 DEF FindAddonInsertionIndex
<1>2. plan \in Seq(ToSet(plan)) /\ R \subseteq DOMAIN plan /\ IsList(plan)
  BY DEF IsList, Staged
<1>3. \A c \in DOMAIN plan : plan[c].category = "replace_ct" <=> c \in R
  OBVIOUS
<1>7. Len(plan) \in Nat /\ DOMAIN plan = 1 .. Len(plan)
  BY <1>2, ListFacts
<1> HIDE DEF R
<1>4. /\ at \in 1 .. Len(plan) + 1
      /\ at \in R \/ at = Len(plan) + 1
      /\ \A b \in R : at <= b
  BY <1>1, <1>2, FirstPlaces
<1>5. ASSUME NEW b \in Boots(plan) PROVE b < at
  <2>1. b \in 1 .. Len(plan)
    BY <1>7 DEF Boots
  <2>2. CASE at = Len(plan) + 1
    BY <1>7, <2>1, <2>2
  <2>3. CASE at \in R
    BY <1>2, <1>3, <2>3 DEF Staged
  <2> QED BY <1>4, <2>2, <2>3
<1>6. at \in DOMAIN plan => plan[at].category # ""
  <2>1. Len(plan) + 1 \notin DOMAIN plan
    BY <1>7
  <2>2. at \in R => plan[at].category = "replace_ct"
    BY <1>2, <1>3
  <2> QED BY <1>4, <2>1, <2>2
<1> QED BY <1>3, <1>4, <1>5, <1>6 DEF Apart

\* Steps of addons, of some phases.
AreSteps(steps, phases) ==
    /\ IsList(steps)
    /\ \A n \in DOMAIN steps :
          /\ steps[n].category = "" /\ steps[n].phase \in phases
          /\ "addon_action" \notin steps[n].gives

LEMMA StepsPutIn ==
    ASSUME NEW r, NEW plan, NEW at, NEW steps, NEW phases, InOrder(plan),
           AreSteps(steps, phases), "notes" \notin phases,
           at \in 1 .. Len(plan) + 1, Inserted(r, plan, at, steps), Apart(plan, at),
           (phases \cap EarlyPhases # {}) => \A b \in Boots(plan) : at <= b,
           "post_start" \in phases =>
               /\ \A b \in Boots(plan) : b < at
               /\ \A c \in DOMAIN plan : plan[c].category = "replace_ct" => at <= c
    PROVE  InOrder(r)
<1>1. \A n \in DOMAIN steps : Fits(steps[n], plan, at)
  BY DEF AreSteps, Fits
<1>2. Paired(steps) /\ IsQuiet(steps) /\ IsList(steps)
  BY DEF AreSteps, Paired, IsQuiet
<1> QED BY <1>1, <1>2, InsertedInOrder

\* A set of steps, and the lists of them.
LEMMA StepsInSet ==
    ASSUME NEW steps, NEW phases, IsList(steps),
           \A s \in ToSet(steps) : s.category = "" /\ s.phase \in phases
                                   /\ "addon_action" \notin s.gives
    PROVE  AreSteps(steps, phases)
<1>1. \A n \in DOMAIN steps : steps[n] \in ToSet(steps)
  BY DEF ToSet
<1> QED BY <1>1 DEF AreSteps

LEMMA SomeSteps ==
    ASSUME NEW steps, NEW phases, AreSteps(steps, phases), NEW s \in ToSet(steps)
    PROVE  s.category = "" /\ s.phase \in phases /\ "addon_action" \notin s.gives
BY DEF AreSteps, ToSet

----------------------------------------------------------------------------
(* What an addon contributes.                                               *)

\* The files of addons: what their schemas accept.
AreAddonFiles(files) ==
    /\ \A id \in DOMAIN files.addons : IsFile("addon", files.addons[id])
    /\ \A n \in DOMAIN files.shared : IsFile("template", files.shared[n])

LEMMA NoSteps == \A phases : AreSteps(<<>>, phases)
<1>1. IsList(<<>>) /\ ToSet(<<>>) = {}
  BY NoElements
<1> QED BY <1>1, StepsInSet

LEMMA FlattenedSteps ==
    ASSUME NEW ss, IsList(ss), NEW phases, \A i \in DOMAIN ss : AreSteps(ss[i], phases)
    PROVE  AreSteps(FlattenSeq(ss), phases)
<1> DEFINE X == UNION {ToSet(ss[i]) : i \in DOMAIN ss}
<1>1. \A i \in DOMAIN ss : IsList(ss[i]) /\ ToSet(ss[i]) \subseteq X
  BY DEF AreSteps
<1>2. \A s \in X : s.category = "" /\ s.phase \in phases /\ "addon_action" \notin s.gives
  BY SomeSteps
<1> HIDE DEF X
<1>3. IsList(FlattenSeq(ss)) /\ ToSet(FlattenSeq(ss)) \subseteq X
  BY <1>1, FlattenedLists
<1> QED BY <1>2, <1>3, StepsInSet

LEMMA JoinedSteps ==
    ASSUME NEW a, NEW b, NEW phases, AreSteps(a, phases), AreSteps(b, phases)
    PROVE  AreSteps(a \o b, phases)
<1>1. IsJoin(a \o b, a, b)
  BY Joined DEF AreSteps
<1>2. \A s \in ToSet(a) \cup ToSet(b) :
         s.category = "" /\ s.phase \in phases /\ "addon_action" \notin s.gives
  BY SomeSteps
<1> DEFINE r == a \o b
<1> HIDE DEF r
<1>3. AreSteps(r, phases)
  BY <1>1, <1>2, StepsInSet DEF IsJoin, r
<1> QED BY <1>3 DEF r

LEMMA TakenSteps ==
    ASSUME NEW steps, NEW phases, AreSteps(steps, phases), NEW S
    PROVE  AreSteps(Only(steps, S), phases)
<1>1. IsList(Only(steps, S)) /\ ToSet(Only(steps, S)) \subseteq ToSet(steps)
  BY Taken DEF AreSteps
<1>2. \A s \in ToSet(steps) :
         s.category = "" /\ s.phase \in phases /\ "addon_action" \notin s.gives
  BY SomeSteps
<1> QED BY <1>1, <1>2, StepsInSet

\* The commands of the shared templates an addon names.
LEMMA CommandsOfAddon ==
    ASSUME NEW files, AreAddonFiles(files), NEW id, NEW ph, NEW names, IsList(names), NEW hidden
    PROVE  AreSteps(CommandsOf(files, id, ph, names, hidden), {ph})
<1> DEFINE Of(name) ==
               IF name \notin DOMAIN files.shared
               THEN <<>>
               ELSE LET bundle == files.shared[name].commands
                        commands == Only(bundle, {c \in ToSet(bundle) :
                                                 ~(hidden /\ Inside(c, files.shared[name]))})
                    IN  [c \in DOMAIN commands |->
                           Step(id, ph, IF commands[c].kind # "script"
                                           /\ commands[c].properties # <<>>
                                        THEN "properties" ELSE commands[c].kind,
                                commands[c].of,
                                {commands[c].outputs[o].id : o \in DOMAIN commands[c].outputs})]
           ss == [n \in DOMAIN names |-> Of(names[n])]
<1>1. CommandsOf(files, id, ph, names, hidden) = FlattenSeq(ss)
  BY DEF CommandsOf
<1>2. Len(names) \in Nat /\ DOMAIN names = 1 .. Len(names)
  BY ListFacts
<1>3. ASSUME NEW name PROVE AreSteps(Of(name), {ph})
  <2>1. CASE name \notin DOMAIN files.shared
    <3>1. Of(name) = <<>>
      BY <2>1
    <3> HIDE DEF Of
    <3> QED BY <3>1, NoSteps
  <2>2. CASE name \in DOMAIN files.shared
    <3> DEFINE template == files.shared[name]
               bundle == template.commands
               wanted == {c \in ToSet(bundle) : ~(hidden /\ Inside(c, template))}
               cs == Only(bundle, wanted)
               steps == Of(name)
    <3>1. IsFile("template", template)
      BY <2>2 DEF AreAddonFiles
    <3> HIDE DEF template
    <3>a. /\ IsList(bundle)
          /\ \A c \in DOMAIN bundle : "addon_action" \notin CommandGives(bundle[c])
      BY <3>1, TemplatesAreQuiet DEF IsTemplate
    <3>3. steps = [c \in DOMAIN cs |->
                     Step(id, ph, IF cs[c].kind # "script" /\ cs[c].properties # <<>>
                                  THEN "properties" ELSE cs[c].kind,
                          cs[c].of, {cs[c].outputs[o].id : o \in DOMAIN cs[c].outputs})]
      BY <2>2 DEF template
    <3> HIDE DEF steps, wanted
    <3>b. IsList(cs) /\ ToSet(cs) \subseteq ToSet(bundle)
      BY <3>a, Taken
    <3> HIDE DEF cs
    <3>2. /\ IsList(cs)
          /\ \A c \in DOMAIN cs : "addon_action" \notin CommandGives(cs[c])
      BY <3>a, <3>b DEF ToSet
    <3>4. Len(cs) \in Nat /\ DOMAIN cs = 1 .. Len(cs)
      BY <3>2, ListFacts
    <3>5. steps = [c \in 1 .. Len(cs) |-> steps[c]]
      BY <3>3, <3>4
    <3>6. IsList(steps) /\ DOMAIN steps = DOMAIN cs
      BY <3>4, <3>5, ListMade
    <3>7. ASSUME NEW c \in DOMAIN cs
          PROVE  /\ steps[c].category = "" /\ steps[c].phase = ph
                 /\ steps[c].gives = {cs[c].outputs[o].id : o \in DOMAIN cs[c].outputs}
      BY <3>3 DEF Step
    <3>8. \A c \in DOMAIN cs :
             {cs[c].outputs[o].id : o \in DOMAIN cs[c].outputs} \subseteq CommandGives(cs[c])
      BY DEF CommandGives, Ids
    <3>9. AreSteps(steps, {ph})
      BY <3>2, <3>6, <3>7, <3>8 DEF AreSteps
    <3> QED BY <3>9 DEF steps
  <2> QED BY <2>1, <2>2
<1> HIDE DEF Of
<1>4. ss = [n \in 1 .. Len(names) |-> ss[n]] /\ \A n \in DOMAIN names : ss[n] = Of(names[n])
  BY <1>2
<1> HIDE DEF ss
<1>5. IsList(ss) /\ DOMAIN ss = DOMAIN names
  BY <1>2, <1>4, ListMade
<1>6. AreSteps(FlattenSeq(ss), {ph})
  BY <1>3, <1>4, <1>5, FlattenedSteps
<1> QED BY <1>1, <1>6

LEMMA MorePhases ==
    ASSUME NEW steps, NEW P, AreSteps(steps, P), NEW Q, P \subseteq Q
    PROVE  AreSteps(steps, Q)
BY DEF AreSteps

LEMMA AddonIsQuiet ==
    ASSUME NEW addon, IsFile("addon", addon)
    PROVE  IsAddon(addon) /\ "addon_action" \notin addon.properties
<1>1. IsAddon(addon)
  BY DEF IsFile, IsContent
<1>2. Gives("addon", addon) = addon.properties
  BY DEF Gives
<1> QED BY <1>1, <1>2 DEF IsFile

\* The phases of the commands of addons, by that they are loaded for.
PhasesOf(ph) == IF ph = "pre_start" THEN {"properties", "pre_start"} ELSE {ph}

LEMMA CommandsForPhase ==
    ASSUME NEW files, AreAddonFiles(files), NEW ids, IsList(ids), NEW task,
           NEW ph \in {"pre_start", "post_start", "check"}, NEW hidden
    PROVE  AreSteps(LoadAddonCommandsForPhase(files, ids, task, ph, hidden), PhasesOf(ph))
<1> DEFINE Of(id) == LET names == TemplatesFor(files.addons[id], task, ph)
                     IN  IF names = <<>> THEN <<>>
                         ELSE PropertiesCommand(files.addons[id], id, ph)
                              \o CommandsOf(files, id, ph, names, hidden)
           known == Only(ids, DOMAIN files.addons)
           ss == [i \in DOMAIN known |-> Of(known[i])]
<1>1. LoadAddonCommandsForPhase(files, ids, task, ph, hidden) = FlattenSeq(ss)
  BY DEF LoadAddonCommandsForPhase
<1>2. IsList(known) /\ ToSet(known) \subseteq DOMAIN files.addons
  BY Taken
<1>3. Len(known) \in Nat /\ DOMAIN known = 1 .. Len(known)
  BY <1>2, ListFacts
<1>4. ASSUME NEW id \in DOMAIN files.addons PROVE AreSteps(Of(id), PhasesOf(ph))
  <2> DEFINE addon == files.addons[id]
             names == TemplatesFor(addon, task, ph)
             first == PropertiesCommand(addon, id, ph)
             then == CommandsOf(files, id, ph, names, hidden)
  <2>1. IsAddon(addon) /\ "addon_action" \notin addon.properties
    BY AddonIsQuiet DEF AreAddonFiles
  <2>2. Of(id) = IF names = <<>> THEN <<>> ELSE first \o then
    OBVIOUS
  <2> HIDE DEF addon
  <2>3. IsList(names)
    <3>1. CASE ph = "check"
      <4>1. names = addon.check
        BY <3>1 DEF TemplatesFor
      <4> QED BY <2>1, <4>1 DEF IsAddon
    <3>2. CASE ph # "check" /\ task = "upgrade"
      <4>1. names = addon.upgrade
        BY <3>2 DEF TemplatesFor
      <4> QED BY <2>1, <4>1 DEF IsAddon
    <3>3. CASE ph # "check" /\ task # "upgrade" /\ task \in DOMAIN addon.tasks
      <4>1. ph \in AddonPhases
        BY <3>3 DEF AddonPhases
      <4>2. IsList(addon.tasks[task][ph])
        BY <2>1, <3>3, <4>1 DEF IsAddon, AreLists
      <4>3. names = addon.tasks[task][ph]
        BY <3>3 DEF TemplatesFor
      <4> QED BY <4>2, <4>3
    <3>4. CASE ph # "check" /\ task # "upgrade" /\ task \notin DOMAIN addon.tasks
      <4>1. names = <<>>
        BY <3>4 DEF TemplatesFor
      <4> QED BY <4>1, NoElements
    <3> QED BY <3>1, <3>2, <3>3, <3>4
  <2> HIDE DEF names
  <2>4. AreSteps(then, {ph})
    BY <2>3, CommandsOfAddon
  <2> HIDE DEF then
  <2>5. AreSteps(then, PhasesOf(ph))
    BY <2>4, MorePhases DEF PhasesOf
  <2>6. AreSteps(first, PhasesOf(ph))
    <3>1. CASE ph = "pre_start" /\ (addon.properties # {} \/ addon.notes)
      <4> DEFINE s == Step(id, "properties", "properties", id, addon.properties)
      <4>1. first = <<s>>
        BY <3>1 DEF PropertiesCommand
      <4>2. s.category = "" /\ s.phase = "properties" /\ s.gives = addon.properties
        BY DEF Step
      <4> HIDE DEF s, first
      <4>3. IsList(first) /\ ToSet(first) = {s}
        BY <4>1, OneElement
      <4>4. "properties" \in PhasesOf(ph)
        BY <3>1 DEF PhasesOf
      <4> QED BY <2>1, <4>2, <4>3, <4>4, StepsInSet
    <3>2. CASE ~(ph = "pre_start" /\ (addon.properties # {} \/ addon.notes))
      <4>1. first = <<>>
        BY <3>2 DEF PropertiesCommand
      <4> HIDE DEF first
      <4> QED BY <4>1, NoSteps
    <3> QED BY <3>1, <3>2
  <2> HIDE DEF first, Of
  <2>7. CASE names = <<>>
    <3>1. Of(id) = <<>>
      BY <2>2, <2>7
    <3> QED BY <3>1, NoSteps
  <2>8. CASE names # <<>>
    <3>1. Of(id) = first \o then
      BY <2>2, <2>8
    <3> QED BY <2>5, <2>6, <3>1, JoinedSteps
  <2> QED BY <2>7, <2>8
<1> HIDE DEF Of, known
<1>5. ss = [i \in 1 .. Len(known) |-> ss[i]] /\ \A i \in DOMAIN known : ss[i] = Of(known[i])
  BY <1>3
<1> HIDE DEF ss
<1>6. IsList(ss) /\ DOMAIN ss = DOMAIN known
  BY <1>3, <1>5, ListMade
<1>7. \A i \in DOMAIN known : known[i] \in DOMAIN files.addons
  BY <1>2 DEF ToSet
<1>8. AreSteps(FlattenSeq(ss), PhasesOf(ph))
  BY <1>4, <1>5, <1>6, <1>7, FlattenedSteps
<1> QED BY <1>1, <1>8

LEMMA CommandsToDisable ==
    ASSUME NEW files, AreAddonFiles(files), NEW ids, IsList(ids), NEW ph \in AddonPhases
    PROVE  AreSteps(LoadDisableCommandsForPhase(files, ids, ph), {"disable"})
<1> DEFINE known == Only(ids, DOMAIN files.addons)
           Of(id) == CommandsOf(files, id, "disable", files.addons[id].disable[ph], FALSE)
           ss == [i \in DOMAIN known |-> Of(known[i])]
<1>1. LoadDisableCommandsForPhase(files, ids, ph) = FlattenSeq(ss)
  BY DEF LoadDisableCommandsForPhase
<1>2. IsList(known) /\ ToSet(known) \subseteq DOMAIN files.addons
  BY Taken
<1>3. Len(known) \in Nat /\ DOMAIN known = 1 .. Len(known)
  BY <1>2, ListFacts
<1>4. ASSUME NEW id \in DOMAIN files.addons PROVE AreSteps(Of(id), {"disable"})
  <2>1. IsAddon(files.addons[id])
    BY AddonIsQuiet DEF AreAddonFiles
  <2>2. IsList(files.addons[id].disable[ph])
    BY <2>1 DEF IsAddon, AreLists
  <2> QED BY <2>2, CommandsOfAddon
<1> HIDE DEF Of, known
<1>5. ss = [i \in 1 .. Len(known) |-> ss[i]] /\ \A i \in DOMAIN known : ss[i] = Of(known[i])
  BY <1>3
<1> HIDE DEF ss
<1>6. IsList(ss) /\ DOMAIN ss = DOMAIN known
  BY <1>3, <1>5, ListMade
<1>7. \A i \in DOMAIN known : known[i] \in DOMAIN files.addons
  BY <1>2 DEF ToSet
<1>8. AreSteps(FlattenSeq(ss), {"disable"})
  BY <1>4, <1>5, <1>6, <1>7, FlattenedSteps
<1> QED BY <1>1, <1>8


\* The notes of the addons, each under its own id.
AreNotes(steps, ids) ==
    /\ IsList(steps) /\ Paired(steps)
    /\ \A n \in DOMAIN steps :
          steps[n].category = "" /\ steps[n].phase = "notes" /\ steps[n].by \in ids

\* The two steps of a pair.
NoteOf(id, sets) == Step(id, "notes", "properties", id, sets)
ScriptOf(id) == Step(id, "notes", "script", NotesScript, {"success"})

LEMMA TheFirst == \A id, sets :
    /\ NoteOf(id, sets).category = "" /\ NoteOf(id, sets).phase = "notes"
    /\ NoteOf(id, sets).by = id /\ NoteOf(id, sets).kind = "properties"
    /\ NoteOf(id, sets).gives = sets
BY DEF NoteOf, Step

LEMMA TheSecond == \A id :
    /\ ScriptOf(id).category = "" /\ ScriptOf(id).phase = "notes"
    /\ ScriptOf(id).by = id /\ ScriptOf(id).gives = {"success"}
BY DEF ScriptOf, Step

TellsAddon(sets) == "addon_id" \in sets

LEMMA NotesOfAddons ==
    ASSUME NEW files, NEW ids, IsList(ids), NEW sets, TellsAddon(sets)
    PROVE  /\ AreNotes(AddonNotes(files, ids, "notes", sets), ToSet(ids))
           /\ "addon_action" \notin sets => IsQuiet(AddonNotes(files, ids, "notes", sets))
<1> DEFINE Of(id) == <<NoteOf(id, sets), ScriptOf(id)>>
           known == Only(ids, DOMAIN files.addons)
           ss == [i \in DOMAIN known |-> Of(known[i])]
           K == ToSet(ids)
           X == {NoteOf(id, sets) : id \in K} \cup {ScriptOf(id) : id \in K}
           Z == {s \in Seq(X) : Paired(s)}
           steps == AddonNotes(files, ids, "notes", sets)
<1>1. steps = IF NotesScript \notin DOMAIN files.scripts THEN <<>> ELSE FlattenSeq(ss)
  BY DEF AddonNotes, NoteOf, ScriptOf
<1>2. IsList(known) /\ ToSet(known) \subseteq K
  BY Taken
<1>3. Len(known) \in Nat /\ DOMAIN known = 1 .. Len(known)
  BY <1>2, ListFacts
<1> HIDE DEF K
<1>5. ASSUME NEW s \in X
      PROVE  /\ s.category = "" /\ s.phase = "notes" /\ s.by \in K
             /\ s.gives = sets \/ s.gives = {"success"}
  <2>1. CASE \E id \in K : s = NoteOf(id, sets)
    <3>1. PICK id \in K : s = NoteOf(id, sets)
      BY <2>1
    <3>2. s.category = "" /\ s.phase = "notes" /\ s.by = id /\ s.gives = sets
      BY <3>1, TheFirst
    <3> QED BY <3>2
  <2>2. CASE \E id \in K : s = ScriptOf(id)
    <3>1. PICK id \in K : s = ScriptOf(id)
      BY <2>2
    <3>2. s.category = "" /\ s.phase = "notes" /\ s.by = id /\ s.gives = {"success"}
      BY <3>1, TheSecond
    <3> QED BY <3>2
  <2> QED BY <2>1, <2>2
<1>6. ASSUME NEW id \in K PROVE Of(id) \in Z
  <2>1. NoteOf(id, sets) \in X /\ ScriptOf(id) \in X
    OBVIOUS
  <2> DEFINE s == Of(id)
  <2>2. s \in Seq(X) /\ DOMAIN s = {1, 2} /\ s[1] = NoteOf(id, sets) /\ s[2] = ScriptOf(id)
    <3> HIDE DEF X
    <3> QED BY <2>1
  <2> HIDE DEF s, X
  <2>3. Paired(s)
    <3> SUFFICES ASSUME NEW i \in DOMAIN s, s[i].phase = "notes"
                 PROVE  /\ s[i].category = ""
                        /\ s[i].kind = "script" =>
                              /\ i > 1 /\ s[i - 1].phase = "notes" /\ s[i - 1].by = s[i].by
                              /\ "addon_id" \in s[i - 1].gives
      BY DEF Paired
    <3> DEFINE p == s[1]
               q == s[2]
    <3>3. p = NoteOf(id, sets)
      BY <2>2
    <3> HIDE DEF p
    <3>4. /\ p.category = "" /\ p.phase = "notes" /\ p.by = id /\ p.kind = "properties"
          /\ p.gives = sets
      BY TheFirst, <3>3
    <3>5. q.category = "" /\ q.by = id
      BY TheSecond, <2>2
    <3> HIDE DEF q
    <3>1. CASE i = 1
      <4>1. s[i] = p
        BY <3>1 DEF p
      <4> QED BY <3>4, <4>1
    <3>2. CASE i = 2
      <4>1. s[i] = q /\ s[i - 1] = p /\ i > 1
        BY <3>2 DEF p, q
      <4> QED BY <3>4, <3>5, <4>1 DEF TellsAddon
    <3> QED BY <2>2, <3>1, <3>2
  <2> QED BY <2>2, <2>3 DEF s
<1>7. <<>> \in Z
  BY DEF Paired
<1>8. ASSUME NEW a \in Z, NEW b \in Z PROVE a \o b \in Z
  <2>1. a \in Seq(X) /\ b \in Seq(X) /\ Paired(a) /\ Paired(b)
    OBVIOUS
  <2> HIDE DEF X, Z
  <2>2. IsList(a) /\ IsList(b) /\ a \o b \in Seq(X)
    BY <2>1, SequencesAreLists
  <2> DEFINE r == a \o b
             at == Len(a) + 1
  <2>3. Inserted(r, a, at, b)
    BY <2>2, AtTheEnd
  <2>4. at \in 1 .. Len(a) + 1 /\ Apart(a, at)
    <3>1. Len(a) \in Nat /\ DOMAIN a = 1 .. Len(a)
      BY <2>2, ListFacts
    <3>2. at \notin DOMAIN a /\ at \in 1 .. Len(a) + 1
      BY <3>1
    <3> QED BY <3>2 DEF Apart
  <2> HIDE DEF r, at
  <2>5. Paired(r)
    BY <2>1, <2>2, <2>3, <2>4, InsertedPairs
  <2> QED BY <2>2, <2>5 DEF Z, r
<1> HIDE DEF Of, known
<1>9. ss = [i \in 1 .. Len(known) |-> ss[i]] /\ \A i \in DOMAIN known : ss[i] = Of(known[i])
  BY <1>3
<1> HIDE DEF ss, Z
<1>10. IsList(ss) /\ DOMAIN ss = DOMAIN known
  BY <1>3, <1>9, ListMade
<1>11. ToSet(ss) \subseteq Z
  <2>1. \A i \in DOMAIN known : known[i] \in K
    BY <1>2 DEF ToSet
  <2> QED BY <1>6, <1>9, <1>10, <2>1 DEF ToSet
<1>12. FlattenSeq(ss) \in Z
  BY <1>7, <1>8, <1>10, <1>11, Flattened
<1> HIDE DEF steps, X
<1>13. steps \in Seq(X) /\ Paired(steps)
  BY <1>1, <1>7, <1>12 DEF Z
<1>14. IsList(steps) /\ \A n \in DOMAIN steps : steps[n] \in X
  BY <1>13, SequencesAreLists
<1>15. AreNotes(steps, K)
  BY <1>5, <1>13, <1>14 DEF AreNotes
<1>16. ASSUME "addon_action" \notin sets PROVE IsQuiet(steps)
  <2>1. "addon_action" # "success"
    OBVIOUS
  <2> QED BY <1>5, <1>14, <1>16, <2>1 DEF IsQuiet
<1> QED BY <1>15, <1>16 DEF steps, K

\* Notes are put before the start.
LEMMA NotesPutIn ==
    ASSUME NEW plan, Staged(plan), Paired(plan), NEW steps, NEW ids, AreNotes(steps, ids),
           NEW at, at = FindAddonInsertionIndex(plan, "pre_start"), NEW r,
           r = InsertAll(plan, at, steps)
    PROVE  Staged(r) /\ Paired(r) /\ Inserted(r, plan, at, steps) /\ at \in 1 .. Len(plan) + 1
<1>1. IsList(plan) /\ IsList(steps) /\ Paired(steps)
  BY DEF Staged, AreNotes
<1>2. /\ at \in 1 .. Len(plan) + 1 /\ Apart(plan, at)
      /\ \A b \in Boots(plan) : at <= b
  BY <1>1, PlaceBefore
<1>3. Inserted(r, plan, at, steps)
  BY <1>1, <1>2, InBetween
<1>4. \A n \in DOMAIN steps : Fits(steps[n], plan, at)
  BY <1>2 DEF AreNotes, Fits
<1> QED BY <1>1, <1>2, <1>3, <1>4, InsertedStaged, InsertedPairs

LEMMA StepsBefore ==
    ASSUME NEW plan, InOrder(plan), NEW steps, NEW phases, AreSteps(steps, phases),
           phases \cap {"notes", "post_start"} = {}
    PROVE  InOrder(InsertAll(plan, FindAddonInsertionIndex(plan, "pre_start"), steps))
<1> DEFINE at == FindAddonInsertionIndex(plan, "pre_start")
           r == InsertAll(plan, at, steps)
<1>1. IsList(plan) /\ IsList(steps)
  BY DEF InOrder, Staged, AreSteps
<1>2. /\ at \in 1 .. Len(plan) + 1 /\ Apart(plan, at)
      /\ \A b \in Boots(plan) : at <= b
  BY <1>1, PlaceBefore
<1> HIDE DEF at
<1>3. Inserted(r, plan, at, steps)
  BY <1>1, <1>2, InBetween
<1> HIDE DEF r
<1>4. InOrder(r)
  BY <1>2, <1>3, StepsPutIn
<1> QED BY <1>4 DEF r, at

LEMMA StepsInFront ==
    ASSUME NEW plan, InOrder(plan), NEW steps, NEW phases, AreSteps(steps, phases),
           phases \cap {"notes", "post_start"} = {}
    PROVE  InOrder(steps \o plan)
<1> DEFINE r == steps \o plan
<1>1. IsList(plan) /\ IsList(steps)
  BY DEF InOrder, Staged, AreSteps
<1>2. Len(plan) \in Nat /\ DOMAIN plan = 1 .. Len(plan)
  BY <1>1, ListFacts
<1>3. 1 \in 1 .. Len(plan) + 1
  BY <1>2
<1>4. Apart(plan, 1) /\ \A b \in Boots(plan) : 1 <= b
  BY <1>2 DEF Apart, Boots
<1>5. Inserted(r, plan, 1, steps)
  BY <1>1, InFront
<1> HIDE DEF r
<1>6. InOrder(r)
  BY <1>3, <1>4, <1>5, StepsPutIn
<1> QED BY <1>6 DEF r

LEMMA StepsBehind ==
    ASSUME NEW plan, InOrder(plan), NEW steps, AreSteps(steps, {"post_start"})
    PROVE  InOrder(InsertAll(plan, FindAddonInsertionIndex(plan, "post_start"), steps))
<1> DEFINE at == FindAddonInsertionIndex(plan, "post_start")
           r == InsertAll(plan, at, steps)
<1>1. IsList(plan) /\ IsList(steps) /\ Staged(plan)
  BY DEF InOrder, Staged, AreSteps
<1>2. /\ at \in 1 .. Len(plan) + 1 /\ Apart(plan, at)
      /\ \A b \in Boots(plan) : b < at
      /\ \A c \in DOMAIN plan : plan[c].category = "replace_ct" => at <= c
  BY <1>1, PlaceBehind
<1> HIDE DEF at
<1>3. Inserted(r, plan, at, steps)
  BY <1>1, <1>2, InBetween
<1> HIDE DEF r
<1>4. {"post_start"} \cap EarlyPhases = {} /\ "notes" \notin {"post_start"}
  BY DEF EarlyPhases
<1>5. InOrder(r)
  BY <1>2, <1>3, <1>4, StepsPutIn
<1> QED BY <1>5 DEF r, at

LEMMA StepsAtTheEnd ==
    ASSUME NEW plan, InOrder(plan), NEW steps, NEW phases, AreSteps(steps, phases),
           phases \cap {"notes", "properties", "pre_start", "post_start"} = {}
    PROVE  InOrder(plan \o steps)
<1> DEFINE r == plan \o steps
           at == Len(plan) + 1
<1>1. IsList(plan) /\ IsList(steps)
  BY DEF InOrder, Staged, AreSteps
<1>2. Len(plan) \in Nat /\ DOMAIN plan = 1 .. Len(plan)
  BY <1>1, ListFacts
<1>3. at \in 1 .. Len(plan) + 1 /\ at \notin DOMAIN plan
  BY <1>2
<1>4. Apart(plan, at)
  BY <1>3 DEF Apart
<1>5. Inserted(r, plan, at, steps)
  BY <1>1, AtTheEnd
<1>6. phases \cap EarlyPhases = {} /\ "notes" \notin phases /\ "post_start" \notin phases
  BY DEF EarlyPhases
<1> HIDE DEF r, at
<1>7. InOrder(r)
  BY <1>3, <1>4, <1>5, <1>6, StepsPutIn
<1> QED BY <1>7 DEF r


----------------------------------------------------------------------------
(* The whole plan.                                                          *)

LEMMA AddonsInserted ==
    ASSUME NEW plan, InOrder(plan), NEW files, AreAddonFiles(files), NEW ids, IsList(ids),
           NEW task, NEW hidden
    PROVE  InOrder(InsertAddonCommands(plan, files, ids, task, hidden))
<1> DEFINE Load(ph) == LoadAddonCommandsForPhase(files, ids, task, ph, hidden)
           before == Load("pre_start")
           preset == {s \in ToSet(before) : s.kind = "properties"}
           rest == ToSet(before) \ preset
           after == Load("post_start")
           checks == Load("check")
           set == Only(before, preset) \o plan
           early == InsertAll(set, FindAddonInsertionIndex(set, "pre_start"), Only(before, rest))
           late == InsertAll(early, FindAddonInsertionIndex(early, "post_start"), after)
           checked == late \o checks
           at == FindAddonInsertionIndex(checked, "pre_start")
           steps == AddonNotes(files, ids, "notes", {"addon_id"})
           last == InsertAll(checked, at, steps)
           r == InsertAddonCommands(plan, files, ids, task, hidden)
<1>1. r = IF before \o after = <<>> \/ hidden THEN checked ELSE last
  BY DEF InsertAddonCommands
<1> HIDE DEF r
<1>2. AreSteps(before, {"properties", "pre_start"})
  BY CommandsForPhase DEF PhasesOf
<1>3. AreSteps(after, {"post_start"}) /\ AreSteps(checks, {"check"})
  BY CommandsForPhase DEF PhasesOf
<1> HIDE DEF before, after, checks, preset, rest
<1>4. AreSteps(Only(before, preset), {"properties", "pre_start"})
  BY <1>2, TakenSteps
<1>5. AreSteps(Only(before, rest), {"properties", "pre_start"})
  BY <1>2, TakenSteps
<1>6. {"properties", "pre_start"} \cap {"notes", "post_start"} = {}
      /\ {"check"} \cap {"notes", "properties", "pre_start", "post_start"} = {}
  OBVIOUS
<1>7. InOrder(set)
  BY <1>4, <1>6, StepsInFront
<1> HIDE DEF set
<1>8. InOrder(early)
  BY <1>5, <1>6, <1>7, StepsBefore
<1> HIDE DEF early
<1>9. InOrder(late)
  BY <1>3, <1>8, StepsBehind
<1> HIDE DEF late
<1>10. InOrder(checked)
  BY <1>3, <1>6, <1>9, StepsAtTheEnd
<1> HIDE DEF checked
<1>11. AreNotes(steps, ToSet(ids)) /\ IsQuiet(steps)
  <2> DEFINE told == {"addon_id"}
  <2>1. TellsAddon(told) /\ "addon_action" \notin told
    BY DEF TellsAddon
  <2> HIDE DEF told
  <2> QED BY <2>1, NotesOfAddons DEF told
<1> HIDE DEF steps
<1>12. /\ Staged(last) /\ Paired(last)
       /\ Inserted(last, checked, at, steps) /\ at \in 1 .. Len(checked) + 1
  BY <1>10, <1>11, NotesPutIn DEF InOrder
<1>13. IsQuiet(last)
  BY <1>10, <1>11, <1>12, InsertedQuiet DEF InOrder, Staged, AreNotes
<1> HIDE DEF last, at
<1> QED BY <1>1, <1>10, <1>12, <1>13 DEF InOrder, r

\* Nothing tells the script that the addon goes.
LEMMA QuietNotes ==
    ASSUME NEW plan, InOrder(plan), NEW gone
    PROVE  AddonsAtTheirStage(plan) /\ NotesOfTheirAddon(plan, gone)
<1>1. AddonsAtTheirStage(plan)
  BY DEF InOrder, Staged
<1>2. Len(plan) \in Nat /\ DOMAIN plan = 1 .. Len(plan)
  BY ListFacts DEF InOrder, Staged
<1>3. ASSUME NEW i \in DOMAIN plan PROVE ~\E j \in 1 .. i : "addon_action" \in plan[j].gives
  <2>1. \A j \in 1 .. i : j \in DOMAIN plan
    BY <1>2
  <2> QED BY <2>1 DEF InOrder, IsQuiet
<1>4. NotesOfTheirAddon(plan, gone)
  BY <1>3 DEF NotesOfTheirAddon, InOrder, Paired
<1> QED BY <1>1, <1>4

\* The notes of the addons that go are the last ones.
LEMMA AddonsDisabled ==
    ASSUME NEW plan, InOrder(plan), NEW files, AreAddonFiles(files), NEW ids, IsList(ids)
    PROVE  /\ AddonsAtTheirStage(InsertAddonDisableCommands(plan, files, ids))
           /\ NotesOfTheirAddon(InsertAddonDisableCommands(plan, files, ids), ToSet(ids))
<1> DEFINE early == InsertAll(plan, FindAddonInsertionIndex(plan, "pre_start"),
                              LoadDisableCommandsForPhase(files, ids, "pre_start"))
           late == early \o LoadDisableCommandsForPhase(files, ids, "post_start")
           at == FindAddonInsertionIndex(late, "pre_start")
           told == {"addon_id", "addon_action"}
           steps == AddonNotes(files, ids, "notes", told)
           r == InsertAll(late, at, steps)
<1>1. InsertAddonDisableCommands(plan, files, ids) = r
  BY DEF InsertAddonDisableCommands
<1>2. /\ AreSteps(LoadDisableCommandsForPhase(files, ids, "pre_start"), {"disable"})
      /\ AreSteps(LoadDisableCommandsForPhase(files, ids, "post_start"), {"disable"})
  <2>1. "pre_start" \in AddonPhases /\ "post_start" \in AddonPhases
    BY DEF AddonPhases
  <2> QED BY <2>1, CommandsToDisable
<1>3. {"disable"} \cap {"notes", "post_start"} = {}
      /\ {"disable"} \cap {"notes", "properties", "pre_start", "post_start"} = {}
  OBVIOUS
<1>4. InOrder(early)
  BY <1>2, <1>3, StepsBefore
<1> HIDE DEF early
<1>5. InOrder(late)
  BY <1>2, <1>3, <1>4, StepsAtTheEnd
<1> HIDE DEF late
<1>6. AreNotes(steps, ToSet(ids))
  <2>1. TellsAddon(told)
    BY DEF TellsAddon
  <2> HIDE DEF told
  <2> QED BY <2>1, NotesOfAddons
<1> HIDE DEF steps, told
<1>7. /\ Staged(r) /\ Paired(r) /\ Inserted(r, late, at, steps) /\ at \in 1 .. Len(late) + 1
  BY <1>5, <1>6, NotesPutIn DEF InOrder
<1>8. at \in Boots(late) \/ at = Len(late) + 1
  BY <1>5, PlaceBefore DEF InOrder, Staged
<1> HIDE DEF at, r
<1>9. IsList(late) /\ Len(late) \in Nat /\ DOMAIN late = 1 .. Len(late) /\ at \in Nat
  BY <1>5, <1>7, ListFacts DEF InOrder, Staged
<1>10. IsList(steps) /\ Len(steps) \in Nat /\ DOMAIN steps = 1 .. Len(steps)
  BY <1>6, ListFacts DEF AreNotes
<1>11. IsList(r) /\ DOMAIN r = 1 .. Len(late) + Len(steps)
  BY <1>7, ListFacts DEF Inserted
<1>12. ASSUME NEW i \in DOMAIN r, r[i].phase = "notes", r[i].kind = "script",
              \E j \in 1 .. i : "addon_action" \in r[j].gives
       PROVE  r[i].by \in ToSet(ids)
  <2>1. CASE \E o \in DOMAIN late : r[i] = late[o] /\ MovedTo(i, o, at, Len(steps))
    <3>1. PICK o \in DOMAIN late : r[i] = late[o] /\ MovedTo(i, o, at, Len(steps))
      BY <2>1
    <3>2. o < at
      <4>1. CASE at = Len(late) + 1
        BY <1>9, <4>1
      <4>2. CASE at \in Boots(late)
        <5>1. late[o].phase \in {"properties", "pre_start", "notes"}
          BY <1>12, <3>1
        <5>2. AddonsAtTheirStage(late)
          BY <1>5 DEF InOrder, Staged
        <5>3. at \in DOMAIN late
          BY <4>2 DEF Boots
        <5> QED BY <4>2, <5>1, <5>2, <5>3 DEF AddonsAtTheirStage
      <4> QED BY <1>8, <4>1, <4>2
    <3>3. i = o
      BY <1>9, <3>1, <3>2 DEF MovedTo
    <3>4. ASSUME NEW j \in 1 .. i PROVE "addon_action" \notin r[j].gives
      <4>1. j \in 1 .. at - 1 /\ j \in DOMAIN late
        BY <1>9, <3>2, <3>3
      <4>2. r[j] = late[j]
        BY <1>7, <4>1 DEF Inserted
      <4> QED BY <1>5, <4>1, <4>2 DEF InOrder, IsQuiet
    <3> QED BY <1>12, <3>4
  <2>2. CASE \E n \in DOMAIN steps : r[i] = steps[n] /\ i = at - 1 + n
    BY <1>6, <2>2 DEF AreNotes
  <2> QED BY <1>7, <1>9, <1>10, <2>1, <2>2, Origins
<1>13. AddonsAtTheirStage(r)
  BY <1>7 DEF Staged
<1>14. NotesOfTheirAddon(r, ToSet(ids))
  BY <1>7, <1>12 DEF NotesOfTheirAddon, Paired
<1> QED BY <1>1, <1>13, <1>14

LEMMA ListsOfAddons ==
    ASSUME NEW request, IsList(request.selected), IsList(request.installed),
           IsList(request.disabled), NEW required, IsList(required), NEW task
    PROVE  IsList(Selected(request, required)) /\ IsList(Disabled(request, task, required))
<1>1. IsList(Selected(request, required))
  <2>1. IsList(Only(required, ToSet(required) \ ToSet(request.selected)))
    BY Taken
  <2> QED BY <2>1, Joined DEF Selected, IsJoin
<1>2. IsList(Disabled(request, task, required))
  <2> DEFINE kept == ToSet(Selected(request, required)) \cup ToSet(request.disabled)
             more == Only(request.installed, ToSet(request.installed) \ kept)
             gone == request.disabled \o more
             left == Only(gone, ToSet(gone) \ ToSet(required))
  <2>1. Disabled(request, task, required) =
           IF task # "reconfigure" \/ request.installed = <<>> THEN request.disabled ELSE left
    BY DEF Disabled
  <2>2. IsList(more)
    BY Taken
  <2> HIDE DEF more
  <2>3. IsList(gone)
    BY <2>2, Joined DEF IsJoin
  <2> HIDE DEF gone
  <2>4. IsList(left)
    BY <2>3, Taken
  <2> HIDE DEF left
  <2> QED BY <2>1, <2>4
<1> QED BY <1>1, <1>2

\* The commands of the task itself.
OwnSteps(commands) ==
    [c \in DOMAIN commands |->
        [category |-> commands[c].category, by |-> "", phase |-> "",
         kind |-> commands[c].kind, of |-> commands[c].of, gives |-> commands[c].gives]]

LEMMA OwnCommands ==
    ASSUME NEW commands, IsList(commands), InStageOrder(commands), AreQuiet(commands)
    PROVE  InOrder(OwnSteps(commands))
<1> DEFINE own == OwnSteps(commands)
<1>1. Len(commands) \in Nat /\ DOMAIN commands = 1 .. Len(commands)
  BY ListFacts
<1>2. own = [c \in 1 .. Len(commands) |-> own[c]] /\ DOMAIN own = DOMAIN commands
  BY <1>1 DEF OwnSteps
<1>3. IsList(own)
  BY <1>1, <1>2, ListMade
<1>4. \A c \in DOMAIN commands :
         /\ own[c].category = commands[c].category /\ own[c].phase = ""
         /\ own[c].gives = commands[c].gives
  BY DEF OwnSteps
<1> HIDE DEF own
<1>5. AddonsAtTheirStage(own)
  BY <1>2, <1>4 DEF AddonsAtTheirStage
<1>6. ASSUME NEW i \in Boots(own), NEW j \in DOMAIN own, own[j].category = "replace_ct"
      PROVE  i < j
  <2>1. i \in DOMAIN commands /\ j \in DOMAIN commands /\ i \in 1 .. Len(commands)
        /\ j \in 1 .. Len(commands)
    BY <1>1, <1>2 DEF Boots
  <2> DEFINE m == Rank(commands[i].category)
             n == Rank(commands[j].category)
  <2>2. n = 7
    <3>1. commands[j].category = "replace_ct"
      BY <1>4, <1>6, <2>1
    <3> QED BY <3>1, Stages
  <2>3. m = 4 \/ m = 5
    <3>1. own[i].category \in {"pre_start_finalize", "start"}
      BY DEF Boots
    <3>2. commands[i].category = "pre_start_finalize" \/ commands[i].category = "start"
      BY <1>4, <2>1, <3>1
    <3> QED BY <3>2, Stages
  <2>4. i # j
    <3>1. i = j => m = n
      OBVIOUS
    <3> HIDE DEF m, n
    <3> QED BY <2>2, <2>3, <3>1
  <2>5. j < i /\ n > 0 /\ m > 0 => n <= m
    BY <2>1 DEF InStageOrder
  <2> HIDE DEF m, n
  <2>6. ~(j < i)
    BY <2>2, <2>3, <2>5
  <2> QED BY <1>1, <2>1, <2>4, <2>6
<1>7. Staged(own)
  BY <1>3, <1>5, <1>6 DEF Staged
<1>8. Paired(own) /\ IsQuiet(own)
  BY <1>2, <1>4 DEF Paired, IsQuiet, AreQuiet
<1> QED BY <1>7, <1>8 DEF InOrder, own

LEMMA PlanMade ==
    ASSUME NEW commands, IsList(commands), InStageOrder(commands), AreQuiet(commands),
           NEW files, AreAddonFiles(files), NEW request, IsList(request.selected),
           IsList(request.installed), IsList(request.disabled), NEW task,
           NEW application, IsList(application.required)
    PROVE  /\ AddonsAtTheirStage(Plan(commands, files, request, task, application))
           /\ NotesOfTheirAddon(Plan(commands, files, request, task, application),
                                ToSet(Disabled(request, task, application.required)))
<1> DEFINE own == OwnSteps(commands)
           chosen == Selected(request, application.required)
           gone == Disabled(request, task, application.required)
           with == IF chosen = <<>> THEN own
                   ELSE InsertAddonCommands(own, files, chosen, task, application.hidden)
           r == Plan(commands, files, request, task, application)
<1>1. r = IF gone = <<>> THEN with ELSE InsertAddonDisableCommands(with, files, gone)
  BY DEF Plan, OwnSteps
<1> HIDE DEF r
<1>2. InOrder(own)
  BY OwnCommands
<1>3. IsList(chosen) /\ IsList(gone)
  BY ListsOfAddons
<1> HIDE DEF own, chosen, gone
<1>4. InOrder(with)
  <2>1. InOrder(InsertAddonCommands(own, files, chosen, task, application.hidden))
    BY <1>2, <1>3, AddonsInserted
  <2> QED BY <1>2, <2>1
<1> HIDE DEF with
<1>5. CASE gone = <<>>
  BY <1>1, <1>4, <1>5, QuietNotes DEF r, gone
<1>6. CASE gone # <<>>
  <2>1. r = InsertAddonDisableCommands(with, files, gone)
    BY <1>1, <1>6
  <2>2. AddonsAtTheirStage(r) /\ NotesOfTheirAddon(r, ToSet(gone))
    BY <1>3, <1>4, <2>1, AddonsDisabled
  <2> QED BY <2>2 DEF r, gone
<1> QED BY <1>5, <1>6

\* An addon is put into a container that runs.
LEMMA InstallMade ==
    ASSUME NEW files, AreAddonFiles(files), NEW id \in DOMAIN files.addons, NEW gone
    PROVE  /\ AddonsAtTheirStage(InstallPlan(files, id))
           /\ NotesOfTheirAddon(InstallPlan(files, id), gone)
<1> DEFINE P == {"post_start", "installed"}
           addon == files.addons[id]
           first == IF "reconfigure" \notin DOMAIN addon.tasks THEN <<>>
                    ELSE CommandsOf(files, id, "post_start",
                                    addon.tasks["reconfigure"]["post_start"], FALSE)
           s == Step(id, "installed", "script", NotesScript, {"success"})
           last == IF NotesScript \notin DOMAIN files.scripts THEN <<>> ELSE <<s>>
           r == InstallPlan(files, id)
<1>1. r = first \o last
  BY DEF InstallPlan
<1> HIDE DEF r
<1>2. AreSteps(first, P)
  <2>1. CASE "reconfigure" \notin DOMAIN addon.tasks
    <3>1. first = <<>>
      BY <2>1
    <3> HIDE DEF first
    <3> QED BY <3>1, NoSteps
  <2>2. CASE "reconfigure" \in DOMAIN addon.tasks
    <3>1. IsAddon(addon)
      BY AddonIsQuiet DEF AreAddonFiles
    <3> DEFINE names == addon.tasks["reconfigure"]["post_start"]
    <3>2. IsList(names)
      BY <2>2, <3>1 DEF IsAddon, AreLists, AddonPhases
    <3>3. first = CommandsOf(files, id, "post_start", names, FALSE)
      BY <2>2
    <3> HIDE DEF names, first
    <3>4. AreSteps(first, {"post_start"})
      BY <3>2, <3>3, CommandsOfAddon
    <3> QED BY <3>4, MorePhases
  <2> QED BY <2>1, <2>2
<1>3. AreSteps(last, P)
  <2>1. /\ s.category = "" /\ s.phase = "installed" /\ s.gives = {"success"}
    BY DEF Step
  <2> HIDE DEF s
  <2>2. AreSteps(<<s>>, P)
    <3>1. IsList(<<s>>) /\ ToSet(<<s>>) = {s}
      BY OneElement
    <3>2. "addon_action" \notin s.gives
      BY <2>1
    <3> DEFINE t == <<s>>
    <3> HIDE DEF t
    <3>4. IsList(t) /\ ToSet(t) = {s}
      BY <3>1 DEF t
    <3>5. \A x \in ToSet(t) : x.category = "" /\ x.phase \in P /\ "addon_action" \notin x.gives
      BY <2>1, <3>2, <3>4
    <3> HIDE DEF P
    <3>3. AreSteps(t, P)
      BY <3>4, <3>5, StepsInSet
    <3> QED BY <3>3 DEF t
  <2> QED BY <2>2, NoSteps
<1> HIDE DEF first, last
<1>4. AreSteps(r, P)
  BY <1>1, <1>2, <1>3, JoinedSteps
<1>5. \A i \in DOMAIN r : r[i].category = "" /\ r[i].phase \in {"post_start", "installed"}
  BY <1>4 DEF AreSteps
<1>6. AddonsAtTheirStage(r) /\ NotesOfTheirAddon(r, gone)
  BY <1>5 DEF AddonsAtTheirStage, NotesOfTheirAddon, Boots
<1> QED BY <1>6 DEF r


----------------------------------------------------------------------------
(* An application is read from the files.                                   *)

\* The files are what their schemas accept.
FilesAreFiles ==
    /\ IsFiniteSet(DOMAIN disk)
    /\ \A path \in DOMAIN disk :
          path = <<path[1], path[2], path[3]>> /\ IsFile(path[2], disk[path].is)

\* A path that exists is one of those looked at.
LEMMA FoundPaths ==
    ASSUME NEW paths, NEW path, Existing(paths) # {}, path = TheOne(Existing(paths))
    PROVE  path \in DOMAIN disk /\ \E i \in DOMAIN paths : path = paths[i]
<1>1. path \in Existing(paths)
  BY DEF TheOne
<1>2. \A x \in Existing(paths) : x \in DOMAIN disk /\ \E i \in DOMAIN paths : x = paths[i]
  BY DEF Existing
<1> QED BY <1>1, <1>2

LEMMA FoundEverywhere ==
    ASSUME NEW p, NEW what, NEW name, NEW path, Existing(Everywhere(p, what, name)) # {},
           path = TheOne(Existing(Everywhere(p, what, name)))
    PROVE  path \in DOMAIN disk /\ path[2] = what /\ path[3] = name
<1> DEFINE paths == Everywhere(p, what, name)
<1>1. \A i \in DOMAIN paths : paths[i][2] = what /\ paths[i][3] = name
  BY DEF Everywhere
<1> HIDE DEF paths
<1>2. path \in DOMAIN disk /\ \E i \in DOMAIN paths : path = paths[i]
  BY FoundPaths DEF paths
<1> QED BY <1>1, <1>2

LEMMA FoundApplication ==
    ASSUME NEW p, NEW ref, ResolveApplicationPath(p, ref) # {}
    PROVE  TheOne(ResolveApplicationPath(p, ref)) \in Applications
<1> DEFINE one == <<"json", "application", ref.name>>
           paths == IF ref.pinned THEN <<one>> ELSE Everywhere(p, "application", ref.name)
           path == TheOne(ResolveApplicationPath(p, ref))
<1>1. ResolveApplicationPath(p, ref) = Existing(paths)
  BY DEF ResolveApplicationPath
<1>2. CASE ref.pinned
  <2>1. one[2] = "application"
    OBVIOUS
  <2> HIDE DEF one
  <2>2. paths = <<one>> /\ \A i \in DOMAIN <<one>> : <<one>>[i] = one
    BY <1>2
  <2> HIDE DEF paths, path
  <2>3. path \in DOMAIN disk /\ \E i \in DOMAIN paths : path = paths[i]
    BY <1>1, FoundPaths DEF path
  <2>4. path = one
    BY <2>2, <2>3
  <2> QED BY <2>1, <2>3, <2>4 DEF Applications, path
<1>3. CASE ~ref.pinned
  <2>1. paths = Everywhere(p, "application", ref.name)
    BY <1>3
  <2> HIDE DEF paths, path
  <2>2. path \in DOMAIN disk /\ path[2] = "application"
    BY <1>1, <2>1, FoundEverywhere DEF path
  <2> QED BY <2>2 DEF Applications, path
<1> QED BY <1>2, <1>3

\* What has been read of a chain.
IsChain(read) ==
    {"chain", "errors", "next"} \subseteq DOMAIN read /\ read.chain \in Seq(Applications)

LEMMA OneApplicationMore ==
    ASSUME NEW p, NEW read, IsChain(read)
    PROVE  IsChain(ReadNext(p, read))
<1> DEFINE ref == TheOne(read.next)
           found == ResolveApplicationPath(p, ref)
           path == TheOne(found)
           Fail(error) == [read EXCEPT !.next = {}, !.errors = {<<error, ref.name>>}]
           more == [read EXCEPT !.chain = Append(@, path), !.next = disk[path].is.extends]
           r == ReadNext(p, read)
<1>1. {"chain", "errors", "next"} \subseteq DOMAIN read /\ read.chain \in Seq(Applications)
  BY DEF IsChain
<1>2. \/ r = read \/ r = Fail("not found") \/ r = Fail("cyclic inheritance")
      \/ (read.next # {} /\ found # {} /\ r = more)
  <2>1. CASE read.next = {}
    BY <2>1 DEF ReadNext
  <2>2. CASE read.next # {} /\ found = {}
    BY <2>2 DEF ReadNext
  <2>3. CASE read.next # {} /\ found # {} /\ found \subseteq ToSet(read.chain)
    BY <2>3 DEF ReadNext
  <2>4. CASE read.next # {} /\ found # {} /\ ~(found \subseteq ToSet(read.chain))
    BY <2>4 DEF ReadNext
  <2> QED BY <2>1, <2>2, <2>3, <2>4
<1>3. \A error : IsChain(Fail(error))
  BY <1>1 DEF IsChain
<1>4. ASSUME found # {} PROVE IsChain(more)
  <2>1. path \in Applications
    BY <1>4, FoundApplication
  <2> HIDE DEF path
  <2>2. Append(read.chain, path) \in Seq(Applications)
    <3> DEFINE A == Applications
    <3> HIDE DEF A
    <3>1. path \in A /\ read.chain \in Seq(A)
      BY <1>1, <2>1 DEF A
    <3>2. Append(read.chain, path) \in Seq(A)
      BY <3>1
    <3> QED BY <3>2 DEF A
  <2> QED BY <1>1, <2>2 DEF IsChain
<1> HIDE DEF r, Fail, more
<1>5. IsChain(r)
  BY <1>2, <1>3, <1>4
<1> QED BY <1>5 DEF r

LEMMA ChainRead ==
    ASSUME NEW p, NEW name, FilesAreFiles
    PROVE  ReadChain(p, name).chain \in Seq(Applications)
<1> DEFINE most == Cardinality(Applications) + 1
           first == [chain |-> <<>>, errors |-> {}, next |-> {Ref(name)}]
           Walk(u) == [n \in 0 .. most |-> IF n = 0 THEN first ELSE ReadNext(p, u[n - 1])]
           w == CHOOSE u : u = Walk(u)
<1>1. ReadChain(p, name) = w[most]
  BY DEF ReadChain
<1>2. most \in Nat
  <2>1. IsFiniteSet(Applications)
    BY FS_Subset DEF FilesAreFiles, Applications
  <2> QED BY <2>1, FS_CardinalityType
<1>3. IsChain(first)
  BY DEF IsChain
<1> HIDE DEF first, most
<1>4. w = Walk(w)
  <2> DEFINE Then(n, x) == ReadNext(p, x)
             Walks(n, u) == u = [i \in 0 .. n |-> IF i = 0 THEN first ELSE Then(i, u[i - 1])]
             S == {n \in Nat : \E u : Walks(n, u)}
  <2>1. 0 \in S
    <3> DEFINE u == [i \in 0 .. 0 |-> first]
    <3>1. u = [i \in 0 .. 0 |-> IF i = 0 THEN first ELSE Then(i, u[i - 1])]
      <4>1. \A i \in 0 .. 0 : i = 0
        OBVIOUS
      <4> HIDE DEF Then
      <4> QED BY <4>1
    <3>2. Walks(0, u)
      BY <3>1
    <3> HIDE DEF u, Walks
    <3> QED BY <3>2
  <2>2. ASSUME NEW n \in Nat, n \in S PROVE n + 1 \in S
    <3>1. PICK u : Walks(n, u)
      BY <2>2
    <3> HIDE DEF Then
    <3> DEFINE v == [i \in 0 .. n + 1 |-> IF i = 0 THEN first ELSE Then(i, u[i - 1])]
    <3>2. \A i \in 0 .. n : v[i] = u[i]
      <4> SUFFICES ASSUME NEW i \in 0 .. n PROVE v[i] = u[i]
        OBVIOUS
      <4>1. i \in 0 .. n + 1
        OBVIOUS
      <4>2. u[i] = IF i = 0 THEN first ELSE Then(i, u[i - 1])
        BY <3>1
      <4> QED BY <4>1, <4>2
    <3>3. \A i \in 0 .. n + 1 : i # 0 => i - 1 \in 0 .. n
      OBVIOUS
    <3>4. v = [i \in 0 .. n + 1 |-> IF i = 0 THEN first ELSE Then(i, u[i - 1])]
      OBVIOUS
    <3> HIDE DEF v
    <3>5. \A i \in 0 .. n + 1 : v[i] = IF i = 0 THEN first ELSE Then(i, v[i - 1])
      BY <3>2, <3>3, <3>4
    <3>6. DOMAIN v = 0 .. n + 1 /\ v = [i \in 0 .. n + 1 |-> v[i]]
      BY <3>4
    <3>7. Walks(n + 1, v)
      BY <3>5, <3>6
    <3> HIDE DEF Walks
    <3> QED BY <3>7
  <2> HIDE DEF S
  <2>3. most \in S
    BY <1>2, <2>1, <2>2, AllNumbers
  <2>4. PICK u : Walks(most, u)
    BY <2>3 DEF S
  <2>5. u = Walk(u)
    BY <2>4
  <2> HIDE DEF Walk
  <2> QED BY <2>5
<1> HIDE DEF w
<1>5. w[0] = first /\ \A n \in 1 .. most : w[n] = ReadNext(p, w[n - 1])
  <2>1. \A n \in 1 .. most : n \in 0 .. most /\ n # 0
    BY <1>2
  <2>2. 0 \in 0 .. most
    BY <1>2
  <2> QED BY <1>4, <2>1, <2>2
<1> DEFINE T == {1}
           x == [n \in 0 .. most |-> IF IsChain(w[n]) THEN 1 ELSE 0]
<1>6. \A n \in 0 .. most : x[n] \in T <=> IsChain(w[n])
  OBVIOUS
<1> HIDE DEF T, x
<1>7. x[0] \in T
  <2>1. 0 \in 0 .. most
    BY <1>2
  <2> QED BY <1>3, <1>5, <1>6, <2>1
<1>8. ASSUME NEW n \in 1 .. most, x[n - 1] \in T PROVE x[n] \in T
  <2>1. n - 1 \in 0 .. most /\ n \in 0 .. most
    BY <1>2
  <2>2. IsChain(w[n - 1])
    BY <1>6, <1>8, <2>1
  <2>3. IsChain(w[n])
    BY <1>5, <2>2, OneApplicationMore
  <2> QED BY <1>6, <2>1, <2>3
<1>9. IsChain(w[most])
  <2>1. \A n \in 0 .. most : x[n] \in T
    BY <1>2, <1>7, <1>8, AllAlong
  <2>2. most \in 0 .. most
    BY <1>2
  <2> QED BY <1>6, <2>1, <2>2
<1> QED BY <1>1, <1>9 DEF IsChain

\* An application, those it extends included.
IsInherited(app) ==
    /\ {"parameters", "properties", "required"} \subseteq DOMAIN app
    /\ IsRead(app) /\ IsList(app.required)

LEMMA FileRead ==
    ASSUME NEW path \in Applications, FilesAreFiles
    PROVE  /\ IsInherited(disk[path].is) /\ IsParts(disk[path].is.parts)
<1> DEFINE app == disk[path].is
<1>1. IsFile("application", app)
  BY DEF FilesAreFiles, Applications
<1> HIDE DEF app
<1>2. IsApplication(app)
  BY <1>1 DEF IsFile, IsContent
<1>3. "addon_action" \notin Ids(app.properties)
  BY <1>1 DEF IsFile, Gives
<1>4. IsInherited(app) /\ IsParts(app.parts)
  BY <1>2, <1>3 DEF IsInherited, IsRead, IsApplication
<1> QED BY <1>4 DEF app

\* Ids of the entries of a list.
LEMMA IdsOfEntries ==
    ASSUME NEW entries, IsList(entries)
    PROVE  \A id : id \in Ids(entries) <=> \E e \in ToSet(entries) : id = e.id
BY DEF Ids, ToSet

LEMMA EntriesReplaced ==
    ASSUME NEW s, IsList(s), NEW t, IsList(t), NEW r, r = Without(s, Ids(t)) \o t
    PROVE  IsList(r) /\ ToSet(r) \subseteq ToSet(s) \cup ToSet(t)
<1> DEFINE kept == Without(s, Ids(t))
<1>1. IsList(kept) /\ ToSet(kept) \subseteq ToSet(s)
  BY Taken DEF Without
<1> HIDE DEF kept
<1>2. IsJoin(r, kept, t)
  BY <1>1, Joined DEF kept
<1> QED BY <1>1, <1>2 DEF IsJoin

LEMMA Inherited ==
    ASSUME NEW parent, IsInherited(parent), NEW child, IsInherited(child)
    PROVE  IsInherited(Inherit(parent, child))
<1> DEFINE properties == Without(parent.properties, Ids(child.properties)) \o child.properties
           parameters == Without(parent.parameters, Ids(child.parameters)) \o child.parameters
           filled == {q.id : q \in {r \in ToSet(properties) : r.value \/ r.default}}
           asked == [i \in DOMAIN parameters |->
                        [parameters[i] EXCEPT !.default = @ \/ parameters[i].id \in filled]]
           app == Inherit(parent, child)
<1>1. app = [child EXCEPT !.properties = properties, !.parameters = asked]
  BY DEF Inherit
<1> HIDE DEF app
<1>2. /\ IsList(parent.properties) /\ IsList(child.properties)
      /\ IsList(parent.parameters) /\ IsList(child.parameters)
      /\ \A i \in DOMAIN parent.parameters : "id" \in DOMAIN parent.parameters[i]
      /\ \A i \in DOMAIN child.parameters : "id" \in DOMAIN child.parameters[i]
      /\ "addon_action" \notin Ids(parent.properties)
      /\ "addon_action" \notin Ids(child.properties)
  BY DEF IsInherited, IsRead, AreParameters
<1>3. IsList(properties)
      /\ ToSet(properties) \subseteq ToSet(parent.properties) \cup ToSet(child.properties)
  BY <1>2, EntriesReplaced
<1>4. IsList(parameters)
      /\ ToSet(parameters) \subseteq ToSet(parent.parameters) \cup ToSet(child.parameters)
  BY <1>2, EntriesReplaced
<1> HIDE DEF properties, parameters, filled
<1>5. "addon_action" \notin Ids(properties)
  BY <1>2, <1>3, IdsOfEntries
<1>6. \A e \in ToSet(parameters) : "id" \in DOMAIN e
  BY <1>2, <1>4 DEF ToSet
<1>7. Len(parameters) \in Nat /\ DOMAIN parameters = 1 .. Len(parameters)
  BY <1>4, ListFacts
<1>8. AreParameters(asked)
  <2>1. asked = [i \in 1 .. Len(parameters) |-> asked[i]] /\ DOMAIN asked = DOMAIN parameters
    BY <1>7
  <2>2. \A i \in DOMAIN parameters : DOMAIN asked[i] = DOMAIN parameters[i]
    OBVIOUS
  <2>3. \A i \in DOMAIN parameters : "id" \in DOMAIN parameters[i]
    BY <1>6 DEF ToSet
  <2> HIDE DEF asked
  <2>4. IsList(asked)
    BY <1>7, <2>1, ListMade
  <2> QED BY <2>1, <2>2, <2>3, <2>4 DEF AreParameters
<1> HIDE DEF asked
<1>9. /\ DOMAIN app = DOMAIN child
      /\ app.properties = properties /\ app.parameters = asked /\ app.required = child.required
  BY <1>1 DEF IsInherited
<1>10. IsInherited(app)
  BY <1>3, <1>5, <1>8, <1>9 DEF IsInherited, IsRead
<1> QED BY <1>10 DEF app


\* What an application is with those it extends.
LEMMA ApplicationRead ==
    ASSUME NEW chain \in Seq(Applications), chain # <<>>, FilesAreFiles
    PROVE  IsInherited(ReadApplication(chain))
<1> DEFINE L == Len(chain)
           File(n) == disk[chain[L - n + 1]].is
           Walk(u) == [n \in 1 .. L |-> IF n = 1 THEN File(n) ELSE Inherit(u[n - 1], File(n))]
           w == CHOOSE u : u = Walk(u)
<1>1. ReadApplication(chain) = w[L]
  BY DEF ReadApplication
<1>2. L \in Nat /\ L # 0 /\ DOMAIN chain = 1 .. L /\ \A i \in 1 .. L : chain[i] \in Applications
  <2> DEFINE A == Applications
  <2> HIDE DEF A
  <2>1. chain \in Seq(A)
    BY DEF A
  <2>2. L \in Nat /\ L # 0 /\ DOMAIN chain = 1 .. L /\ \A i \in 1 .. L : chain[i] \in A
    BY <2>1
  <2> QED BY <2>2 DEF A
<1> HIDE DEF L
<1>3. ASSUME NEW n \in 1 .. L PROVE IsInherited(File(n))
  <2>1. L - n + 1 \in 1 .. L
    BY <1>2
  <2> QED BY <1>2, <2>1, FileRead
<1> HIDE DEF File
<1>4. w = Walk(w)
  <2> DEFINE Walks(n, u) ==
                 u = [i \in 1 .. n |-> IF i = 1 THEN File(i) ELSE Inherit(u[i - 1], File(i))]
             S == {n \in Nat : \E u : Walks(n, u)}
  <2>2. 0 \in S
    <3> DEFINE u == [i \in 1 .. 0 |-> <<>>]
    <3>1. Walks(0, u)
      OBVIOUS
    <3> HIDE DEF u, Walks
    <3> QED BY <3>1
  <2>3. ASSUME NEW n \in Nat, n \in S PROVE n + 1 \in S
    <3>1. PICK u : Walks(n, u)
      BY <2>3
    <3> DEFINE v == [i \in 1 .. n + 1 |-> IF i = 1 THEN File(i) ELSE Inherit(u[i - 1], File(i))]
    <3>2. \A i \in 1 .. n : v[i] = u[i]
      <4> SUFFICES ASSUME NEW i \in 1 .. n PROVE v[i] = u[i]
        OBVIOUS
      <4>1. i \in 1 .. n + 1
        OBVIOUS
      <4>2. u[i] = IF i = 1 THEN File(i) ELSE Inherit(u[i - 1], File(i))
        BY <3>1
      <4> QED BY <4>1, <4>2
    <3>3. \A i \in 1 .. n + 1 : i # 1 => i - 1 \in 1 .. n
      OBVIOUS
    <3>4. v = [i \in 1 .. n + 1 |-> IF i = 1 THEN File(i) ELSE Inherit(u[i - 1], File(i))]
      OBVIOUS
    <3> HIDE DEF v
    <3>5. \A i \in 1 .. n + 1 : v[i] = IF i = 1 THEN File(i) ELSE Inherit(v[i - 1], File(i))
      BY <3>2, <3>3, <3>4
    <3>6. DOMAIN v = 1 .. n + 1 /\ v = [i \in 1 .. n + 1 |-> v[i]]
      BY <3>4
    <3>7. Walks(n + 1, v)
      BY <3>5, <3>6
    <3> HIDE DEF Walks
    <3> QED BY <3>7
  <2> HIDE DEF S
  <2>4. L \in S
    BY <1>2, <2>2, <2>3, AllNumbers
  <2>5. PICK u : Walks(L, u)
    BY <2>4 DEF S
  <2>6. u = Walk(u)
    BY <2>5
  <2> HIDE DEF Walk
  <2> QED BY <2>6
<1> HIDE DEF w
<1>5. /\ w[1] = File(1) /\ 1 \in 1 .. L
      /\ \A n \in 2 .. L : w[n] = Inherit(w[n - 1], File(n))
  <2>1. \A n \in 2 .. L : n \in 1 .. L /\ n # 1
    BY <1>2
  <2>2. 1 \in 1 .. L
    BY <1>2
  <2> QED BY <1>4, <2>1, <2>2
<1> DEFINE T == {1}
           x == [n \in 0 .. L - 1 |-> IF IsInherited(w[n + 1]) THEN 1 ELSE 0]
<1>6. \A n \in 0 .. L - 1 : x[n] \in T <=> IsInherited(w[n + 1])
  OBVIOUS
<1> HIDE DEF T, x
<1>7. L - 1 \in Nat /\ L - 1 \in 0 .. L - 1 /\ 0 \in 0 .. L - 1 /\ 0 + 1 = 1 /\ L - 1 + 1 = L
  BY <1>2
<1>8. x[0] \in T
  BY <1>3, <1>5, <1>6, <1>7
<1>9. ASSUME NEW n \in 1 .. L - 1, x[n - 1] \in T PROVE x[n] \in T
  <2>1. /\ n - 1 \in 0 .. L - 1 /\ n \in 0 .. L - 1 /\ n + 1 \in 2 .. L /\ n + 1 \in 1 .. L
        /\ (n - 1) + 1 = n /\ (n + 1) - 1 = n
    BY <1>2
  <2>2. IsInherited(w[n])
    BY <1>6, <1>9, <2>1
  <2>3. w[n + 1] = Inherit(w[n], File(n + 1))
    BY <1>5, <2>1
  <2>4. IsInherited(w[n + 1])
    BY <1>3, <2>1, <2>2, <2>3, Inherited
  <2> QED BY <1>6, <2>1, <2>4
<1>10. \A n \in 0 .. L - 1 : x[n] \in T
  BY <1>7, <1>8, <1>9, AllAlong
<1>11. IsInherited(w[L])
  BY <1>6, <1>7, <1>10
<1> QED BY <1>1, <1>11

\* The templates of its tasks.
LEMMA ListsRead ==
    ASSUME NEW chain \in Seq(Applications), FilesAreFiles, NEW t \in DOMAIN TaskLists(chain)
    PROVE  IsList(TaskLists(chain)[t].list) /\ InStageOrder(TaskLists(chain)[t].list)
<1> DEFINE Apps == {disk[path].is.parts : path \in Applications}
           L == Len(chain)
           parts == [i \in DOMAIN chain |-> disk[chain[L - i + 1]].is.parts]
           tasks == TaskTemplates(parts)
<1>1. TaskLists(chain) = tasks
  BY DEF TaskLists
<1>2. \A p \in Apps : IsParts(p)
  BY FileRead
<1>3. L \in Nat /\ DOMAIN chain = 1 .. L /\ \A i \in 1 .. L : chain[i] \in Applications
  <2> DEFINE A == Applications
  <2> HIDE DEF A
  <2>1. chain \in Seq(A)
    BY DEF A
  <2>2. L \in Nat /\ DOMAIN chain = 1 .. L /\ \A i \in 1 .. L : chain[i] \in A
    BY <2>1
  <2> QED BY <2>2 DEF A
<1> HIDE DEF L
<1>4. ASSUME NEW i \in 1 .. L PROVE parts[i] \in Apps
  <2>1. L - i + 1 \in 1 .. L
    BY <1>3
  <2>2. chain[L - i + 1] \in Applications
    BY <1>3, <2>1
  <2> QED BY <1>3, <2>2
<1>5. parts = [i \in 1 .. L |-> parts[i]]
  BY <1>3
<1> HIDE DEF parts, Apps
<1>6. parts \in Seq(Apps)
  BY <1>3, <1>4, <1>5, IsASeq
<1>7. \A u \in DOMAIN tasks : tasks[u] \in Gathered
  BY <1>2, <1>6, TasksGathered
<1> HIDE DEF tasks
<1>8. tasks[t] \in Gathered
  BY <1>1, <1>7
<1> DEFINE g == tasks[t]
<1> HIDE DEF g
<1>9. g.list \in Seq(ListedTemplate) /\ InStageOrder(g.list)
  BY <1>8 DEF Gathered, g
<1>10. IsList(g.list)
  BY <1>9, SequencesAreLists
<1> QED BY <1>1, <1>9, <1>10 DEF g

----------------------------------------------------------------------------
(* What a manager answers from its caches.                                  *)

\* What a manager remembers is what the schemas accept.
IsManager(p) ==
    /\ {"cached", "preloaded"} \subseteq DOMAIN p
    /\ \A where \in DOMAIN p.cached : IsFile(where[2], p.cached[where].is)
    /\ \A where \in DOMAIN p.preloaded : IsFile("template", p.preloaded[where])

LEMMA RevalidatedFile ==
    ASSUME NEW p, IsManager(p), FilesAreFiles, NEW path \in DOMAIN disk
    PROVE  IsFile(path[2], Revalidated(p, path))
BY DEF Revalidated, IsManager, FilesAreFiles

LEMMA ResolvedFile ==
    ASSUME NEW homes, NEW what, NEW name, NEW path, Resolve(homes, what, name) # {},
           path = TheOne(Resolve(homes, what, name))
    PROVE  path \in DOMAIN disk /\ path[2] = what
<1> DEFINE paths == [i \in DOMAIN homes |-> <<homes[i][1], what, <<homes[i][2], name>>>>]
<1>1. \A i \in DOMAIN paths : paths[i][2] = what
  OBVIOUS
<1>2. Resolve(homes, what, name) = Existing(paths)
  BY DEF Resolve
<1> HIDE DEF paths
<1>3. path \in DOMAIN disk /\ \E i \in DOMAIN paths : path = paths[i]
  BY <1>2, FoundPaths
<1> QED BY <1>1, <1>3

LEMMA TemplateGot ==
    ASSUME NEW p, IsManager(p), FilesAreFiles, NEW path \in DOMAIN disk, path[2] = "template"
    PROVE  IsFile("template", GetTemplate(p, path))
BY RevalidatedFile DEF GetTemplate, IsManager

LEMMA OwnedAreFinite == \A what : FilesAreFiles => IsFiniteSet(Owned(what))
<1> SUFFICES ASSUME NEW what, FilesAreFiles PROVE IsFiniteSet(Owned(what))
  OBVIOUS
<1> DEFINE D == {q \in DOMAIN disk : q[2] = what}
           T == {path[3][2] : path \in D}
           f == [path \in D |-> path[3][2]]
<1>1. IsFiniteSet(D)
  BY FS_Subset DEF FilesAreFiles
<1>2. f \in Surjection(D, T)
  BY DEF Surjection
<1> HIDE DEF D, f
<1>3. IsFiniteSet(T)
  BY <1>1, <1>2, FS_Surjection
<1> QED BY <1>3 DEF Owned, D

LEMMA FilesForTask ==
    ASSUME NEW p, IsManager(p), FilesAreFiles, NEW app
    PROVE  AreFiles(FilesFor(p, app)) /\ IsFiniteSet(DOMAIN FilesFor(p, app).templates)
<1> DEFINE homes == Homes(p, app)
           names == {n \in Owned("template") : ResolveTemplateRef(homes, n) # {}}
           files == FilesFor(p, app)
<1>1. files.templates = [n \in names |-> GetTemplate(p, TheOne(ResolveTemplateRef(homes, n)))]
  BY DEF FilesFor
<1> HIDE DEF files, homes
<1>2. IsFiniteSet(names)
  BY FS_Subset, OwnedAreFinite
<1>3. ASSUME NEW n \in names
      PROVE  IsFile("template", GetTemplate(p, TheOne(ResolveTemplateRef(homes, n))))
  <2> DEFINE path == TheOne(ResolveTemplateRef(homes, n))
  <2>1. ResolveTemplateRef(homes, n) = Resolve(homes, "template", n)
    BY DEF ResolveTemplateRef
  <2>2. path \in DOMAIN disk /\ path[2] = "template"
    BY <2>1, ResolvedFile
  <2> HIDE DEF path
  <2>3. IsFile("template", GetTemplate(p, path))
    BY <2>2, TemplateGot
  <2> QED BY <2>3 DEF path
<1> HIDE DEF names
<1>4. DOMAIN files.templates = names
  BY <1>1
<1>5. \A n \in names : IsFile("template", files.templates[n])
  BY <1>1, <1>3
<1> QED BY <1>2, <1>4, <1>5 DEF AreFiles, files

LEMMA FilesForAddons ==
    ASSUME NEW p, IsManager(p), FilesAreFiles, NEW app
    PROVE  AreAddonFiles(AddonFiles(p, app))
<1> DEFINE Shared(n) == Existing(Everywhere(p, "template", <<"shared", n>>))
           addons == {path[3] : path \in {q \in DOMAIN disk : q[2] = "addon"}}
           ids == {a \in addons : PathOf(p, "addon", a) # {}}
           names == {m \in Owned("template") : Shared(m) # {}}
           files == AddonFiles(p, app)
<1>1. /\ files.addons = [id \in ids |-> Cached(p, "addon", id)]
      /\ files.shared = [n \in names |-> Revalidated(p, TheOne(Shared(n)))]
  BY DEF AddonFiles
<1> HIDE DEF files
<1>2. ASSUME NEW id \in ids PROVE IsFile("addon", Cached(p, "addon", id))
  <2> DEFINE where == CacheKey("addon", id)
             path == TheOne(PathOf(p, "addon", id))
             paths == <<<<p.local, "addon", id>>, <<"json", "addon", id>>>>
             c == Cached(p, "addon", id)
  <2>1. c = IF where \in DOMAIN p.cached /\ p.cached[where].at = disk[path].at
            THEN p.cached[where].is ELSE disk[path].is
    BY DEF Cached
  <2>2. where[2] = "addon"
    BY DEF CacheKey
  <2>3. PathOf(p, "addon", id) = Existing(paths)
    BY DEF PathOf
  <2>4. \A i \in DOMAIN paths : paths[i][2] = "addon"
    OBVIOUS
  <2> HIDE DEF c, where, paths
  <2>5. path \in DOMAIN disk /\ \E i \in DOMAIN paths : path = paths[i]
    BY <2>3, FoundPaths
  <2> HIDE DEF path
  <2>6. path[2] = "addon" /\ IsFile(path[2], disk[path].is)
    BY <2>4, <2>5 DEF FilesAreFiles
  <2>7. where \in DOMAIN p.cached => IsFile(where[2], p.cached[where].is)
    BY DEF IsManager
  <2>8. IsFile("addon", c)
    BY <2>1, <2>2, <2>6, <2>7
  <2> QED BY <2>8 DEF c
<1>3. ASSUME NEW n \in names PROVE IsFile("template", Revalidated(p, TheOne(Shared(n))))
  <2> DEFINE path == TheOne(Shared(n))
  <2>1. path \in DOMAIN disk /\ path[2] = "template"
    BY FoundEverywhere
  <2> HIDE DEF path
  <2>2. IsFile("template", Revalidated(p, path))
    BY <2>1, RevalidatedFile
  <2> QED BY <2>2 DEF path
<1> HIDE DEF names, ids
<1>4. /\ DOMAIN files.addons = ids /\ \A id \in ids : IsFile("addon", files.addons[id])
      /\ DOMAIN files.shared = names /\ \A n \in names : IsFile("template", files.shared[n])
  BY <1>1, <1>2, <1>3
<1> QED BY <1>4 DEF AreAddonFiles, files


----------------------------------------------------------------------------
(* What a manager answers.                                                  *)

LEMMA NoPlaces == \A s : s = <<>> => DOMAIN s = {}
OBVIOUS

\* A load, and the plan made of it.
IsGood(a) ==
    /\ WellLoaded(a.load)
    /\ AddonsAtTheirStage(a.plan) /\ NotesOfTheirAddon(a.plan, a.gone)

LEMMA TaskLoaded ==
    ASSUME NEW p, IsManager(p), FilesAreFiles, NEW app, NEW task, NEW given, NEW load,
           load = LoadOf(p, app, task, given)
    PROVE  WellLoaded(load) /\ (load.errors = {} => ReadChain(p, app).chain # <<>>)
<1> DEFINE read == ReadChain(p, app)
           lists == TaskLists(read.chain)
           twice == UNION {{<<"twice", n>> : n \in lists[t].twice} : t \in DOMAIN lists}
           errors == read.errors \cup {<<"no task", task>>}
           none == [commands |-> <<>>, processed |-> [n \in {} |-> {}], errors |-> errors]
<1>1. load = IF read.chain = <<>> \/ task \notin DOMAIN lists THEN none
             ELSE LoadApplication(ReadApplication(read.chain), lists[task].list,
                                  FilesFor(p, app), given, read.errors \cup twice)
  BY DEF LoadOf
<1>2. read.chain \in Seq(Applications)
  BY ChainRead
<1>3. none.commands = <<>> /\ none.errors = errors /\ errors # {}
  OBVIOUS
<1> HIDE DEF none, errors, twice, read
<1>4. CASE read.chain = <<>> \/ task \notin DOMAIN lists
  <2>1. load = none
    BY <1>1, <1>4
  <2> DEFINE cs == load.commands
  <2>2. cs = <<>> /\ load.errors # {}
    BY <1>3, <2>1
  <2> HIDE DEF cs
  <2>5. DOMAIN cs = {}
    BY <2>2
  <2>3. IsList(cs) /\ DOMAIN cs = {}
    BY <2>2, <2>5, NoElements
  <2>4. AreQuiet(cs) /\ InStageOrder(cs)
    BY <2>3 DEF AreQuiet, InStageOrder
  <2> QED BY <2>2, <2>3, <2>4 DEF WellLoaded, cs
<1>5. CASE ~(read.chain = <<>> \/ task \notin DOMAIN lists)
  <2> DEFINE of == ReadApplication(read.chain)
             list == lists[task].list
             files == FilesFor(p, app)
  <2>1. IsRead(of)
    BY <1>2, <1>5, ApplicationRead DEF IsInherited
  <2>2. IsList(list) /\ InStageOrder(list)
    BY <1>2, <1>5, ListsRead
  <2>3. AreFiles(files) /\ IsFiniteSet(DOMAIN files.templates)
    BY FilesForTask
  <2>4. load = LoadApplication(of, list, files, given, read.errors \cup twice)
    BY <1>1, <1>5
  <2> HIDE DEF of, list, files, lists
  <2>5. WellLoaded(load)
    BY <2>1, <2>2, <2>3, <2>4, Loaded
  <2> QED BY <1>5, <2>5 DEF read
<1> QED BY <1>4, <1>5

LEMMA NothingPlanned ==
    \A gone : AddonsAtTheirStage(<<>>) /\ NotesOfTheirAddon(<<>>, gone)
<1> DEFINE plan == <<>>
<1>1. DOMAIN plan = {}
  OBVIOUS
<1> HIDE DEF plan
<1>2. \A gone : AddonsAtTheirStage(plan) /\ NotesOfTheirAddon(plan, gone)
  BY <1>1 DEF AddonsAtTheirStage, NotesOfTheirAddon, Boots
<1> QED BY <1>2 DEF plan

LEMMA TaskPlanned ==
    ASSUME NEW p, IsManager(p), FilesAreFiles, NEW app, NEW task, NEW request,
           IsList(request.selected), IsList(request.installed), IsList(request.disabled)
    PROVE  IsGood(PlanOf(p, app, task, request))
<1> DEFINE read == ReadChain(p, app)
           files == AddonFiles(p, app)
           given == UNION {files.addons[id].properties :
                              id \in ToSet(request.selected) \cap DOMAIN files.addons}
           load == LoadOf(p, app, task, given)
           of == ReadApplication(read.chain)
           a == PlanOf(p, app, task, request)
<1>1. /\ a.load = load
      /\ a.plan = IF load.errors # {} THEN <<>>
                  ELSE Plan(load.commands, files, request, task, of)
      /\ a.gone = IF load.errors # {} THEN {} ELSE ToSet(Disabled(request, task, of.required))
  BY DEF PlanOf, Answered, AddonInputs
<1> HIDE DEF a, given
<1>2. WellLoaded(load) /\ (load.errors = {} => read.chain # <<>>)
  BY TaskLoaded
<1>3. AreAddonFiles(files)
  BY FilesForAddons
<1>4. read.chain \in Seq(Applications)
  BY ChainRead
<1> HIDE DEF load, files, read
<1>5. CASE load.errors # {}
  <2>1. AddonsAtTheirStage(a.plan) /\ NotesOfTheirAddon(a.plan, a.gone)
    BY <1>1, <1>5, NothingPlanned
  <2> QED BY <1>1, <1>2, <2>1 DEF IsGood, a
<1>6. CASE load.errors = {}
  <2>1. IsList(of.required)
    BY <1>2, <1>4, <1>6, ApplicationRead DEF IsInherited
  <2> HIDE DEF of
  <2>2. IsList(load.commands) /\ InStageOrder(load.commands) /\ AreQuiet(load.commands)
    BY <1>2 DEF WellLoaded
  <2>3. AddonsAtTheirStage(a.plan) /\ NotesOfTheirAddon(a.plan, a.gone)
    BY <1>1, <1>3, <1>6, <2>1, <2>2, PlanMade
  <2> QED BY <1>1, <1>2, <2>3 DEF IsGood, a
<1> QED BY <1>5, <1>6

\* What is put into a container that runs has no commands of an application.
LEMMA AddonPlanned ==
    ASSUME NEW p, IsManager(p), FilesAreFiles, NEW id \in DOMAIN AddonFiles(p, "").addons
    PROVE  IsGood([load |-> Prepared([parameters |-> <<>>, properties |-> <<>>], {}),
                   plan |-> InstallPlan(AddonFiles(p, ""), id), gone |-> {}])
<1> DEFINE app == [parameters |-> <<>>, properties |-> <<>>]
           load == Prepared(app, {})
           plan == InstallPlan(AddonFiles(p, ""), id)
           a == [load |-> load, plan |-> plan, gone |-> {}]
<1>1. AddonsAtTheirStage(plan) /\ NotesOfTheirAddon(plan, {})
  BY FilesForAddons, InstallMade
<1> HIDE DEF plan
<1>2. load.commands = <<>>
  <2>1. app.properties = <<>> /\ ToSet(<<>>) = {}
    BY NoElements
  <2> HIDE DEF app
  <2>2. {q \in ToSet(app.properties) : q.value} = {}
    BY <2>1
  <2> QED BY <2>2 DEF Prepared
<1> HIDE DEF load
<1>3. WellLoaded(load)
  <2> DEFINE cs == load.commands
  <2>1. cs = <<>>
    BY <1>2
  <2> HIDE DEF cs
  <2>4. DOMAIN cs = {}
    BY <2>1, NoPlaces
  <2>2. IsList(cs) /\ DOMAIN cs = {}
    BY <2>1, <2>4, NoElements
  <2>3. AreQuiet(cs) /\ InStageOrder(cs)
    BY <2>2 DEF AreQuiet, InStageOrder
  <2> QED BY <2>2, <2>3 DEF WellLoaded, cs
<1>4. a.load = load /\ a.plan = plan /\ a.gone = {}
  OBVIOUS
<1> HIDE DEF a
<1>5. IsGood(a)
  BY <1>1, <1>3, <1>4 DEF IsGood
<1> QED BY <1>5 DEF a, plan, load

----------------------------------------------------------------------------
(* The managers.                                                            *)

LEMMA RootsAreList == \A p : IsList(Roots(p))
<1> SUFFICES ASSUME NEW p PROVE IsList(Roots(p))
  OBVIOUS
<1> DEFINE hub == IF p.hub THEN <<"hub">> ELSE <<>>
<1>1. IsList(<<p.local>>) /\ IsList(hub) /\ IsList(<<"json">>)
  BY OneElement, NoElements
<1> HIDE DEF hub
<1>2. IsList(<<p.local>> \o hub)
  BY <1>1, Joined DEF IsJoin
<1> DEFINE two == <<p.local>> \o hub
           json == <<"json">>
<1> HIDE DEF two, json
<1>3. IsList(two \o json)
  BY <1>1, <1>2, Joined DEF IsJoin, two, json
<1> QED BY <1>3 DEF Roots, hub, two, json

\* A template of one of the roots is found.
LEMMA TemplateFound ==
    ASSUME NEW p, NEW path \in DOMAIN disk, FilesAreFiles, path[2] = "template",
           path[1] \in ToSet(Roots(p))
    PROVE  Existing(Everywhere(p, "template", path[3])) # {}
<1> DEFINE roots == Roots(p)
           paths == Everywhere(p, "template", path[3])
           there == {i \in DOMAIN paths : paths[i] \in DOMAIN disk}
<1>1. IsList(roots)
  BY RootsAreList
<1>2. DOMAIN paths = DOMAIN roots
      /\ \A i \in DOMAIN roots : paths[i] = <<roots[i], "template", path[3]>>
  BY DEF Everywhere
<1>3. Existing(paths) = {paths[i] : i \in {k \in there : \A j \in there : k <= j}}
  BY DEF Existing
<1> HIDE DEF roots, paths
<1>4. PICK i \in DOMAIN roots : path[1] = roots[i]
  BY DEF ToSet, roots
<1>5. path = <<path[1], path[2], path[3]>>
  BY DEF FilesAreFiles
<1>6. paths[i] = path
  BY <1>2, <1>4, <1>5
<1>7. i \in there
  BY <1>2, <1>6
<1>8. there \in SUBSET Nat
  <2>1. DOMAIN roots = 1 .. Len(roots) /\ Len(roots) \in Nat
    BY <1>1, ListFacts
  <2> QED BY <1>2, <2>1
<1> HIDE DEF there
<1>9. PICK k \in there : \A j \in there : k <= j
  BY <1>7, <1>8, LeastNumber
<1>10. paths[k] \in Existing(paths)
  BY <1>3, <1>9
<1> QED BY <1>10 DEF paths

LEMMA Preloaded ==
    ASSUME NEW p, IsManager(p), FilesAreFiles
    PROVE  IsManager(PreloadJsonResources(p))
<1> DEFINE here == {path \in DOMAIN disk : path[2] = "template" /\ path[1] \in ToSet(Roots(p))}
           First(x) == TheOne(Existing(Everywhere(p, "template", x)))
           names == {path[3] : path \in here}
           q == PreloadJsonResources(p)
<1>1. q = [p EXCEPT !.hierarchy = [n \in {} |-> <<>>],
                    !.preloaded = [x \in names |-> disk[First(x)].is]]
  BY DEF PreloadJsonResources
<1>2. ASSUME NEW x \in names PROVE IsFile("template", disk[First(x)].is)
  <2>1. PICK path \in here : x = path[3]
    OBVIOUS
  <2>2. Existing(Everywhere(p, "template", x)) # {}
    BY <2>1, TemplateFound
  <2> DEFINE found == First(x)
  <2>3. found \in DOMAIN disk /\ found[2] = "template"
    BY <2>2, FoundEverywhere
  <2> HIDE DEF found
  <2>4. IsFile("template", disk[found].is)
    BY <2>3 DEF FilesAreFiles
  <2> QED BY <2>4 DEF found
<1> HIDE DEF q, names
<1>3. /\ DOMAIN q = DOMAIN p /\ q.cached = p.cached
      /\ DOMAIN q.preloaded = names
      /\ \A x \in names : q.preloaded[x] = disk[First(x)].is
  BY <1>1 DEF IsManager
<1> HIDE DEF First
<1>4. IsManager(q)
  BY <1>2, <1>3 DEF IsManager
<1> QED BY <1>4 DEF q

LEMMA ManagerMade ==
    ASSUME FilesAreFiles, NEW hub
    PROVE  IsManager(NewManager(hub))
<1> DEFINE p == [local |-> "local", hub |-> hub, open |-> TRUE, watching |-> dirs,
                 events |-> {}, timer |-> FALSE, names |-> [k \in FileKinds |-> {}], list |-> {},
                 cached |-> [q \in {} |-> {}], hierarchy |-> [n \in {} |-> <<>>],
                 preloaded |-> [n \in {} |-> {}]]
<1>1. {"cached", "preloaded"} \subseteq DOMAIN p /\ DOMAIN p.cached = {}
      /\ DOMAIN p.preloaded = {}
  OBVIOUS
<1>2. NewManager(hub) = PreloadJsonResources(p)
  BY DEF NewManager
<1> HIDE DEF p
<1>3. IsManager(p)
  BY <1>1 DEF IsManager
<1> QED BY <1>2, <1>3, Preloaded

\* The same caches.
SameCaches(p, q) ==
    DOMAIN q = DOMAIN p /\ q.cached = p.cached /\ q.preloaded = p.preloaded

LEMMA CachesKept ==
    ASSUME NEW p, IsManager(p), NEW q, SameCaches(p, q)
    PROVE  IsManager(q)
BY DEF IsManager, SameCaches

LEMMA ManagerChanged ==
    ASSUME NEW p, IsManager(p), NEW what, NEW x
    PROVE  /\ IsManager([p EXCEPT !.events = x])
           /\ IsManager([p EXCEPT !.timer = x])
           /\ IsManager([p EXCEPT !.list = x])
           /\ IsManager([p EXCEPT !.local = x])
           /\ IsManager([p EXCEPT !.watching = x])
           /\ IsManager([p EXCEPT !.open = x])
           /\ IsManager([p EXCEPT !.names[what] = x])
<1>1. {"cached", "preloaded"} \subseteq DOMAIN p
  BY DEF IsManager
<1>2. /\ SameCaches(p, [p EXCEPT !.events = x])
      /\ SameCaches(p, [p EXCEPT !.timer = x])
      /\ SameCaches(p, [p EXCEPT !.list = x])
      /\ SameCaches(p, [p EXCEPT !.local = x])
      /\ SameCaches(p, [p EXCEPT !.watching = x])
      /\ SameCaches(p, [p EXCEPT !.open = x])
      /\ SameCaches(p, [p EXCEPT !.names[what] = x])
  BY <1>1 DEF SameCaches
<1> QED BY <1>2, CachesKept

LEMMA Forgotten ==
    ASSUME NEW p, IsManager(p), NEW what
    PROVE  IsManager(Forget(p, what))
<1> DEFINE left == [q \in {r \in DOMAIN p.cached : r[2] # what} |-> p.cached[q]]
           m == Forget(p, what)
<1>1. {"cached", "preloaded"} \subseteq DOMAIN p
  BY DEF IsManager
<1>2. m = [p EXCEPT !.cached = left, !.names[what] = {}]
  BY DEF Forget
<1>3. \A q \in DOMAIN left : q \in DOMAIN p.cached /\ left[q] = p.cached[q]
  OBVIOUS
<1> HIDE DEF left, m
<1>4. DOMAIN m = DOMAIN p /\ m.cached = left /\ m.preloaded = p.preloaded
  BY <1>1, <1>2
<1>5. IsManager(m)
  BY <1>1, <1>3, <1>4 DEF IsManager
<1> QED BY <1>5 DEF m

\* More files in a cache.
LEMMA CachedMore ==
    ASSUME NEW p, IsManager(p), NEW more, \A x \in DOMAIN more : IsFile(x[2], more[x].is)
    PROVE  IsManager([p EXCEPT !.cached = Over(more, @)])
<1> DEFINE c == Over(more, p.cached)
           m == [p EXCEPT !.cached = Over(more, @)]
<1>1. \A x \in DOMAIN c : IsFile(x[2], c[x].is)
  BY DEF IsManager, Over
<1>2. {"cached", "preloaded"} \subseteq DOMAIN p
  BY DEF IsManager
<1>3. DOMAIN m = DOMAIN p /\ m.cached = c /\ m.preloaded = p.preloaded
  BY <1>2
<1> HIDE DEF c, m
<1>4. IsManager(m)
  BY <1>1, <1>2, <1>3 DEF IsManager
<1> QED BY <1>4 DEF m

LEMMA LoadRemembered ==
    ASSUME NEW p, IsManager(p), FilesAreFiles, NEW app, NEW load
    PROVE  IsManager(Remembered(p, app, load))
<1> DEFINE homes == Homes(p, app)
           ran == {c \in ToSet(load.commands) : c.kind = "script"}
           scripts == UNION {ResolveScriptPath(homes, c.of) : c \in ran}
           templates == UNION {ResolveTemplateRef(homes, n) : n \in DOMAIN load.processed}
           looked == {path \in templates : ~(path[1] = "json" /\ path[3] \in DOMAIN p.preloaded)}
           more == [path \in looked \cup scripts |-> disk[path]]
           known == LocalNames(p, "application")
           q == [p EXCEPT !.names["application"] = {known}]
           h == With(q.hierarchy, app, Hierarchy(p, app))
           m == [q EXCEPT !.hierarchy = h, !.cached = Over(more, @)]
<1>1. Remembered(p, app, load) = m
  BY DEF Remembered, Remember
<1>2. \A paths : Existing(paths) \subseteq DOMAIN disk
  BY DEF Existing
<1>3. looked \cup scripts \subseteq DOMAIN disk
  BY <1>2 DEF ResolveScriptPath, ResolveTemplateRef, Resolve
<1> HIDE DEF looked, scripts
<1>4. \A x \in DOMAIN more : IsFile(x[2], more[x].is)
  BY <1>3 DEF FilesAreFiles
<1> HIDE DEF more, known
<1>5. IsManager(q)
  BY ManagerChanged
<1> HIDE DEF q, h
<1>6. {"cached", "preloaded"} \subseteq DOMAIN q
  BY <1>5 DEF IsManager
<1> DEFINE n == [q EXCEPT !.cached = Over(more, @)]
<1>7. IsManager(n)
  BY <1>4, <1>5, CachedMore
<1>8. SameCaches(n, m)
  BY <1>6 DEF SameCaches
<1> HIDE DEF n, m
<1>9. IsManager(m)
  BY <1>7, <1>8, CachesKept
<1> QED BY <1>1, <1>9


----------------------------------------------------------------------------
(* What every step of the server keeps.                                     *)

AreManagers(ms) ==
    IsList(ms) /\ Len(ms) \in Nat \ {0} /\ \A i \in DOMAIN ms : IsManager(ms[i])

LibraryInv ==
    /\ FilesAreFiles /\ AreManagers(pms)
    /\ \A r \in reading : IsFile(r.key[2], r.is)
    /\ \A a \in answer : IsGood(a)

LEMMA ManagersThere ==
    ASSUME NEW ms, AreManagers(ms)
    PROVE  /\ DOMAIN ms = 1 .. Len(ms) /\ 1 \in DOMAIN ms /\ Len(ms) \in DOMAIN ms
           /\ IsManager(ms[1]) /\ IsManager(ms[Len(ms)])
<1>1. DOMAIN ms = 1 .. Len(ms) /\ Len(ms) \in Nat \ {0}
  BY ListFacts DEF AreManagers
<1>2. 1 \in DOMAIN ms /\ Len(ms) \in DOMAIN ms
  BY <1>1
<1> QED BY <1>1, <1>2 DEF AreManagers

\* Managers put in the place of others.
LEMMA ManagersReplaced ==
    ASSUME NEW ms, AreManagers(ms), NEW ns, DOMAIN ns = DOMAIN ms,
           ns = [i \in DOMAIN ms |-> ns[i]],
           \A i \in DOMAIN ms : IsManager(ns[i])
    PROVE  AreManagers(ns)
<1>1. DOMAIN ms = 1 .. Len(ms) /\ Len(ms) \in Nat \ {0}
  BY ManagersThere DEF AreManagers
<1>2. ns = [i \in 1 .. Len(ms) |-> ns[i]]
  BY <1>1
<1>3. IsList(ns) /\ Len(ns) = Len(ms)
  BY <1>1, <1>2, ListMade
<1> QED BY <1>1, <1>3 DEF AreManagers

LEMMA OneReplaced ==
    ASSUME NEW ms, AreManagers(ms), NEW i, NEW p, i \in DOMAIN ms => IsManager(p)
    PROVE  AreManagers([ms EXCEPT ![i] = p])
<1> DEFINE ns == [ms EXCEPT ![i] = p]
<1>1. ms = [j \in DOMAIN ms |-> ms[j]]
  BY DEF AreManagers, IsList
<1>2. DOMAIN ns = DOMAIN ms /\ ns = [j \in DOMAIN ms |-> ns[j]]
  BY <1>1
<1>3. \A j \in DOMAIN ms : IsManager(ns[j])
  BY DEF AreManagers
<1> HIDE DEF ns
<1>4. AreManagers(ns)
  BY <1>2, <1>3, ManagersReplaced
<1> QED BY <1>4 DEF ns

LEMMA ManagerTold ==
    ASSUME NEW p, IsManager(p), NEW x
    PROVE  IsManager([p EXCEPT !.events = x])
BY ManagerChanged

LEMMA ManagersNotified ==
    ASSUME AreManagers(pms), NEW path
    PROVE  AreManagers(Notified(path))
<1> DEFINE ns == Notified(path)
<1>1. /\ DOMAIN ns = DOMAIN pms /\ ns = [i \in DOMAIN pms |-> ns[i]]
      /\ \A i \in DOMAIN pms :
            ns[i] = [pms[i] EXCEPT !.events = @ \cup {k \in pms[i].watching : Announces(path, k)}]
  BY DEF Notified
<1>2. ASSUME NEW i \in DOMAIN pms PROVE IsManager(ns[i])
  <2> DEFINE p == pms[i]
             heard == p.events \cup {k \in p.watching : Announces(path, k)}
  <2>1. IsManager(p) /\ ns[i] = [p EXCEPT !.events = heard]
    BY <1>1 DEF AreManagers
  <2> HIDE DEF p, heard, ns
  <2>2. IsManager([p EXCEPT !.events = heard])
    BY <2>1, ManagerTold
  <2> QED BY <2>1, <2>2, Zenon
<1> HIDE DEF ns
<1>3. AreManagers(ns)
  BY <1>1, <1>2, ManagersReplaced
<1> QED BY <1>3 DEF ns

\* A file that its schema accepts is written.
LEMMA FileWritten ==
    ASSUME FilesAreFiles, NEW path, path = <<path[1], path[2], path[3]>>, NEW file,
           IsFile(path[2], file.is), disk' = With(disk, path, file)
    PROVE  FilesAreFiles'
<1>1. DOMAIN disk' = DOMAIN disk \cup {path}
      /\ disk'[path] = file /\ \A x \in DOMAIN disk \ {path} : disk'[x] = disk[x]
  BY DEF With, Over
<1>2. IsFiniteSet(DOMAIN disk')
  BY <1>1, FS_AddElement DEF FilesAreFiles
<1>3. ASSUME NEW x \in DOMAIN disk'
      PROVE  x = <<x[1], x[2], x[3]>> /\ IsFile(x[2], disk'[x].is)
  <2>1. CASE x = path
    BY <1>1, <2>1
  <2>2. CASE x # path
    BY <1>1, <2>2 DEF FilesAreFiles
  <2> QED BY <2>1, <2>2
<1> QED BY <1>2, <1>3 DEF FilesAreFiles

LEMMA FileDeleted ==
    ASSUME FilesAreFiles, NEW path, disk' = [q \in DOMAIN disk \ {path} |-> disk[q]]
    PROVE  FilesAreFiles'
<1>1. DOMAIN disk' = DOMAIN disk \ {path} /\ \A x \in DOMAIN disk \ {path} : disk'[x] = disk[x]
  OBVIOUS
<1>2. IsFiniteSet(DOMAIN disk')
  BY <1>1, FS_Subset DEF FilesAreFiles
<1> QED BY <1>1, <1>2 DEF FilesAreFiles

LEMMA PathFound ==
    ASSUME NEW p, NEW what, NEW id, FilesAreFiles, PathOf(p, what, id) # {}, NEW path,
           path = TheOne(PathOf(p, what, id))
    PROVE  path \in DOMAIN disk /\ path[2] = what /\ IsFile(what, disk[path].is)
<1> DEFINE paths == <<<<p.local, what, id>>, <<"json", what, id>>>>
<1>1. \A i \in DOMAIN paths : paths[i][2] = what
  OBVIOUS
<1>2. PathOf(p, what, id) = Existing(paths)
  BY DEF PathOf
<1> HIDE DEF paths
<1>3. path \in DOMAIN disk /\ \E i \in DOMAIN paths : path = paths[i]
  BY <1>2, FoundPaths
<1>4. path[2] = what
  BY <1>1, <1>3
<1> QED BY <1>3, <1>4 DEF FilesAreFiles

----------------------------------------------------------------------------
(* At the start, and with every step.                                       *)

LEMMA LibraryStarts ==
    ASSUME LibraryInit
    PROVE  LibraryInv
<1>1. DOMAIN disk = DOMAIN Initial /\ \A path \in DOMAIN Initial : disk[path].is = Initial[path]
  BY DEF LibraryInit
<1>2. FilesAreFiles
  BY <1>1, FilesFollowTheirSchemas DEF FilesAreFiles
<1>3. IsManager(NewManager(HasHub))
  BY <1>2, ManagerMade
<1>4. AreManagers(<<NewManager(HasHub)>>)
  <2> DEFINE p == NewManager(HasHub)
             ms == <<p>>
  <2> HIDE DEF p
  <2>1. DOMAIN ms = {1} /\ ms[1] = p
    OBVIOUS
  <2>2. IsList(ms) /\ Len(ms) = 1
    BY OneElement
  <2> HIDE DEF ms
  <2>3. AreManagers(ms)
    BY <1>3, <2>1, <2>2 DEF AreManagers, p
  <2> QED BY <2>3 DEF ms, p
<1>5. pms = <<NewManager(HasHub)>> /\ reading = {} /\ answer = {}
  BY DEF LibraryInit
<1> QED BY <1>2, <1>4, <1>5 DEF LibraryInv

LEMMA EditKeeps ==
    ASSUME LibraryInv, NEW path \in DOMAIN Versions, NEW content \in Versions[path],
           Edit(path, content)
    PROVE  LibraryInv'
<1> DEFINE file == [at |-> clock + 1, is |-> content]
<1>1. /\ disk' = With(disk, path, file) /\ pms' = Notified(path)
      /\ reading' = reading /\ answer' = {}
  BY DEF Edit
<1>2. path = <<path[1], path[2], path[3]>> /\ IsFile(path[2], content)
  BY FilesFollowTheirSchemas
<1>3. file.is = content
  OBVIOUS
<1> HIDE DEF file
<1>4. FilesAreFiles'
  BY <1>1, <1>2, <1>3, FileWritten DEF LibraryInv
<1>5. AreManagers(pms')
  BY <1>1, ManagersNotified DEF LibraryInv
<1> QED BY <1>1, <1>4, <1>5 DEF LibraryInv

LEMMA DeleteKeeps ==
    ASSUME LibraryInv, NEW path, Delete(path)
    PROVE  LibraryInv'
<1>1. /\ disk' = [q \in DOMAIN disk \ {path} |-> disk[q]] /\ pms' = Notified(path)
      /\ reading' = reading /\ answer' = {}
  BY DEF Delete
<1>2. FilesAreFiles'
  BY <1>1, FileDeleted DEF LibraryInv
<1>3. AreManagers(pms')
  BY <1>1, ManagersNotified DEF LibraryInv
<1> QED BY <1>1, <1>2, <1>3 DEF LibraryInv

LEMMA WriteKeeps ==
    ASSUME LibraryInv, NEW app \in Written,
           NEW content \in Versions[<<"local", "application", app>>],
           WriteApplication(app, content)
    PROVE  LibraryInv'
<1> DEFINE path == <<pms[1].local, "application", app>>
           file == [at |-> clock + 1, is |-> content]
           version == <<"local", "application", app>>
<1>1. /\ disk' = With(disk, path, file)
      /\ pms' = [Notified(path) EXCEPT ![1] = InvalidateApplicationCache(@)]
      /\ reading' = reading /\ answer' = {}
  BY DEF WriteApplication
<1>2. path = <<path[1], path[2], path[3]>> /\ path[2] = "application" /\ file.is = content
  OBVIOUS
<1>3. IsFile("application", content)
  <2>1. version \in DOMAIN Versions /\ content \in Versions[version]
    BY WrittenAreLocal
  <2>2. version[2] = "application"
    OBVIOUS
  <2> HIDE DEF version
  <2> QED BY <2>1, <2>2, FilesFollowTheirSchemas
<1> HIDE DEF path, file
<1>4. FilesAreFiles'
  BY <1>1, <1>2, <1>3, FileWritten DEF LibraryInv
<1> DEFINE ns == Notified(path)
<1>5. AreManagers(ns)
  BY ManagersNotified DEF LibraryInv
<1> HIDE DEF ns
<1>6. IsManager(InvalidateApplicationCache(ns[1]))
  <2> DEFINE p == ns[1]
             q == [p EXCEPT !.names["application"] = {}]
  <2>1. IsManager(p)
    BY <1>5, ManagersThere
  <2> HIDE DEF p
  <2>2. IsManager(q)
    BY <2>1, ManagerChanged
  <2>4. InvalidateApplicationCache(p) = [q EXCEPT !.list = {}]
    BY DEF InvalidateApplicationCache
  <2> HIDE DEF q
  <2>3. IsManager([q EXCEPT !.list = {}])
    BY <2>2, ManagerChanged
  <2> QED BY <2>3, <2>4 DEF p
<1>7. AreManagers([ns EXCEPT ![1] = InvalidateApplicationCache(@)])
  BY <1>5, <1>6, OneReplaced
<1>8. AreManagers(pms')
  BY <1>1, <1>7 DEF ns
<1> QED BY <1>1, <1>4, <1>8 DEF LibraryInv

\* Steps that change one manager.
LEMMA OneManagerChanges ==
    ASSUME LibraryInv, NEW i, NEW p, i \in DOMAIN pms => IsManager(p),
           pms' = [pms EXCEPT ![i] = p], disk' = disk, reading' = reading, answer' = {}
    PROVE  LibraryInv'
<1>1. AreManagers(pms')
  BY OneReplaced DEF LibraryInv
<1>2. FilesAreFiles'
  BY DEF LibraryInv, FilesAreFiles
<1> QED BY <1>1, <1>2 DEF LibraryInv

LEMMA OneOfThem ==
    ASSUME LibraryInv, NEW i \in DOMAIN pms
    PROVE  IsManager(pms[i]) /\ FilesAreFiles
BY DEF LibraryInv, AreManagers

LEMMA WatcherFailsKeeps ==
    ASSUME LibraryInv, NEW i \in DOMAIN pms, NEW what, WatcherFails(i, what)
    PROVE  LibraryInv'
<1> DEFINE p == pms[i]
           gone == p.watching \ {what}
           left == p.events \ {what}
           q == [p EXCEPT !.watching = gone]
           r == [p EXCEPT !.watching = @ \ {what}, !.events = @ \ {what}]
<1>1. pms' = [pms EXCEPT ![i] = r] /\ disk' = disk /\ reading' = reading /\ answer' = {}
  BY DEF WatcherFails, SetManager
<1>2. IsManager(p)
  BY OneOfThem
<1> HIDE DEF p
<1>3. SameCaches(p, r)
  BY <1>2 DEF IsManager, SameCaches
<1> HIDE DEF r
<1> QED BY <1>1, <1>2, <1>3, CachesKept, OneManagerChanges

LEMMA DeliverKeeps ==
    ASSUME LibraryInv, NEW i \in DOMAIN pms, NEW what, Deliver(i, what)
    PROVE  LibraryInv'
<1> DEFINE p == [pms[i] EXCEPT !.events = @ \ {what}]
           q == IF what = "application" THEN [p EXCEPT !.timer = TRUE] ELSE Forget(p, what)
<1>1. pms' = [pms EXCEPT ![i] = q] /\ disk' = disk /\ reading' = reading /\ answer' = {}
  BY DEF Deliver, SetManager
<1>2. IsManager(p)
  BY OneOfThem, ManagerChanged
<1> HIDE DEF p
<1>3. IsManager([p EXCEPT !.timer = TRUE]) /\ IsManager(Forget(p, what))
  BY <1>2, ManagerChanged, Forgotten
<1>4. IsManager(q)
  BY <1>3
<1> HIDE DEF q
<1> QED BY <1>1, <1>4, OneManagerChanges

LEMMA TimerKeeps ==
    ASSUME LibraryInv, NEW i \in DOMAIN pms, DebouncedInvalidate(i)
    PROVE  LibraryInv'
<1> DEFINE p == [pms[i] EXCEPT !.timer = FALSE]
           q == [p EXCEPT !.names["application"] = {}]
           r == [p EXCEPT !.names["application"] = {}, !.list = {}]
<1>1. pms' = [pms EXCEPT ![i] = r] /\ disk' = disk /\ reading' = reading /\ answer' = {}
  BY DEF DebouncedInvalidate, SetManager, InvalidateApplicationCache
<1>2. IsManager(p)
  BY OneOfThem, ManagerChanged
<1> HIDE DEF p
<1>3. IsManager(q)
  BY <1>2, ManagerChanged
<1>4. r = [q EXCEPT !.list = {}]
  OBVIOUS
<1> HIDE DEF q
<1>5. IsManager(r)
  BY <1>3, <1>4, ManagerChanged
<1> HIDE DEF r
<1> QED BY <1>1, <1>5, OneManagerChanges

LEMMA ListApplicationsKeeps ==
    ASSUME LibraryInv, ListApplications
    PROVE  LibraryInv'
<1> DEFINE p == pms[1]
           q == [p EXCEPT !.names["application"] = {LocalNames(p, "application")}]
           r == [q EXCEPT !.list = {BuildApplicationList(p)}]
<1>1. pms' = [pms EXCEPT ![1] = r] /\ disk' = disk /\ reading' = reading /\ answer' = {}
  BY DEF ListApplications, SetManager, Remember
<1>2. IsManager(p)
  BY ManagersThere DEF LibraryInv
<1> HIDE DEF p
<1>3. IsManager(q)
  BY <1>2, ManagerChanged
<1> HIDE DEF q
<1>4. IsManager(r)
  BY <1>3, ManagerChanged
<1> HIDE DEF r
<1> QED BY <1>1, <1>4, OneManagerChanges

LEMMA ListOthersKeeps ==
    ASSUME LibraryInv, NEW i \in DOMAIN pms, NEW what, ListOthers(i, what)
    PROVE  LibraryInv'
<1> DEFINE p == pms[i]
           q == [p EXCEPT !.names[what] = {LocalNames(p, what)}]
<1>1. pms' = [pms EXCEPT ![i] = q] /\ disk' = disk /\ reading' = reading /\ answer' = {}
  BY DEF ListOthers, SetManager, Remember
<1>2. IsManager(p)
  BY OneOfThem
<1> HIDE DEF p
<1>3. IsManager(q)
  BY <1>2, ManagerChanged
<1> HIDE DEF q
<1> QED BY <1>1, <1>3, OneManagerChanges

LEMMA LoadTaskKeeps ==
    ASSUME LibraryInv, NEW app, NEW task, NEW request \in Requests, LoadTask(app, task, request)
    PROVE  LibraryInv'
<1> DEFINE n == Current
           p == pms[n]
           a == PlanOf(p, app, task, request)
           q == Remembered(p, app, TheOne(answer').load)
<1>1. /\ pms' = [pms EXCEPT ![n] = q] /\ disk' = disk /\ reading' = reading /\ answer' = {a}
  BY DEF LoadTask, SetManager
<1>2. IsManager(p) /\ FilesAreFiles
  BY ManagersThere DEF LibraryInv, Current
<1> HIDE DEF p
<1>3. IsList(request.selected) /\ IsList(request.installed) /\ IsList(request.disabled)
  BY RequestsAreLists
<1>4. IsGood(a)
  BY <1>2, <1>3, TaskPlanned
<1> DEFINE load == TheOne(answer').load
<1> HIDE DEF load
<1>5. IsManager(q)
  BY <1>2, LoadRemembered DEF load
<1> HIDE DEF a, q
<1>6. AreManagers(pms')
  BY <1>1, <1>5, OneReplaced DEF LibraryInv
<1>7. FilesAreFiles'
  BY <1>1, <1>2 DEF FilesAreFiles
<1> QED BY <1>1, <1>4, <1>6, <1>7 DEF LibraryInv

LEMMA InstallAddonKeeps ==
    ASSUME LibraryInv, NEW id, InstallAddon(id)
    PROVE  LibraryInv'
<1> DEFINE p == pms[1]
           files == AddonFiles(p, "")
           a == [load |-> Prepared([parameters |-> <<>>, properties |-> <<>>], {}),
                 plan |-> InstallPlan(files, id), gone |-> {}]
           q == [p EXCEPT !.names["addon"] = {LocalNames(p, "addon")}]
<1>1. /\ pms' = [pms EXCEPT ![1] = q] /\ disk' = disk /\ reading' = reading /\ answer' = {a}
      /\ id \in DOMAIN files.addons
  BY DEF InstallAddon, SetManager, Remember
<1>2. IsManager(p) /\ FilesAreFiles
  BY ManagersThere DEF LibraryInv
<1> HIDE DEF p
<1>3. IsGood(a)
  BY <1>1, <1>2, AddonPlanned
<1>4. IsManager(q)
  BY <1>2, ManagerChanged
<1> HIDE DEF a, q
<1>5. AreManagers(pms')
  BY <1>1, <1>4, OneReplaced DEF LibraryInv
<1>6. FilesAreFiles'
  BY <1>1, <1>2 DEF FilesAreFiles
<1> QED BY <1>1, <1>3, <1>5, <1>6 DEF LibraryInv

LEMMA BeginReadKeeps ==
    ASSUME LibraryInv, NEW i \in DOMAIN pms, NEW what, NEW id, BeginRead(i, what, id)
    PROVE  LibraryInv'
<1> DEFINE found == PathOf(pms[i], what, id)
           path == TheOne(found)
           where == CacheKey(what, id)
           r == [by |-> i, key |-> where, path |-> path, is |-> disk[path].is]
<1>1. /\ found # {} /\ reading' = {r} /\ disk' = disk /\ pms' = pms /\ answer' = {}
  BY DEF BeginRead
<1>2. IsFile(what, disk[path].is)
  BY <1>1, PathFound DEF LibraryInv
<1>3. r.key[2] = what /\ r.is = disk[path].is
  BY DEF CacheKey
<1> HIDE DEF r, path, where, found
<1>4. IsFile(r.key[2], r.is)
  BY <1>2, <1>3
<1>5. FilesAreFiles' /\ AreManagers(pms')
  BY <1>1 DEF LibraryInv, FilesAreFiles
<1> QED BY <1>1, <1>4, <1>5 DEF LibraryInv

LEMMA FinishReadKeeps ==
    ASSUME LibraryInv, FinishRead
    PROVE  LibraryInv'
<1>1. PICK r \in reading :
         /\ reading' = {}
         /\ pms' = IF r.path \in DOMAIN disk
                   THEN [pms EXCEPT ![r.by].cached =
                           With(@, r.key, [at |-> disk[r.path].at, is |-> r.is])]
                   ELSE pms
         /\ disk' = disk /\ answer' = {}
  BY DEF FinishRead
<1> DEFINE p == pms[r.by]
           file == [at |-> disk[r.path].at, is |-> r.is]
           where == r.key
           more == [y \in {where} |-> file]
           q == [p EXCEPT !.cached = Over(more, @)]
<1>2. IsFile(where[2], r.is)
  BY DEF LibraryInv
<1>3. file.is = r.is
  OBVIOUS
<1>4. pms' = [pms EXCEPT ![r.by] = q] \/ pms' = pms
  BY <1>1 DEF With
<1> HIDE DEF file, where
<1>5. \A x \in DOMAIN more : IsFile(x[2], more[x].is)
  BY <1>2, <1>3
<1>6. r.by \in DOMAIN pms => IsManager(p)
  BY DEF LibraryInv, AreManagers
<1> HIDE DEF p, more
<1>7. r.by \in DOMAIN pms => IsManager(q)
  BY <1>5, <1>6, CachedMore
<1> HIDE DEF q
<1>8. AreManagers(pms')
  BY <1>4, <1>7, OneReplaced DEF LibraryInv
<1>9. FilesAreFiles'
  BY <1>1 DEF LibraryInv, FilesAreFiles
<1> QED BY <1>1, <1>8, <1>9 DEF LibraryInv

LEMMA ReloadKeeps ==
    ASSUME LibraryInv, Reload
    PROVE  LibraryInv'
<1> DEFINE n == Current
           p == pms[n]
           q == Closed(p)
           ms == [pms EXCEPT ![n] = q]
           new == NewManager(FALSE)
           ns == Append(ms, new)
<1>1. /\ pms' = ns /\ disk' = disk /\ reading' = reading /\ answer' = {}
  BY DEF Reload
<1>2. IsManager(p) /\ FilesAreFiles
  BY ManagersThere DEF LibraryInv, Current
<1> HIDE DEF p
<1>3. IsManager(q)
  <2>1. SameCaches(p, q)
    BY <1>2 DEF Closed, IsManager, SameCaches
  <2> QED BY <1>2, <2>1, CachesKept
<1> HIDE DEF q
<1>4. AreManagers(ms)
  BY <1>3, OneReplaced DEF LibraryInv
<1>5. IsManager(new)
  BY <1>2, ManagerMade
<1> HIDE DEF ms, new
<1>6. IsList(ms) /\ Len(ms) \in Nat \ {0} /\ DOMAIN ms = 1 .. Len(ms)
  BY <1>4, ManagersThere DEF AreManagers
<1>7. IsJoin(ns, ms, <<new>>)
  BY <1>6, AppendJoins
<1>8. Len(<<new>>) = 1 /\ ToSet(<<new>>) = {new}
  BY OneElement
<1> DEFINE one == <<new>>
<1> HIDE DEF ns, one
<1>9. IsList(ns) /\ Len(ns) = Len(ms) + 1 /\ ToSet(ns) = ToSet(ms) \cup {new}
  BY <1>7, <1>8 DEF IsJoin, one
<1>10. \A x \in ToSet(ms) : IsManager(x)
  BY <1>4 DEF AreManagers, ToSet
<1>11. \A i \in DOMAIN ns : ns[i] \in ToSet(ns)
  BY DEF ToSet
<1>12. AreManagers(ns)
  BY <1>5, <1>6, <1>9, <1>10, <1>11 DEF AreManagers
<1>13. FilesAreFiles'
  BY <1>1, <1>2 DEF FilesAreFiles
<1> QED BY <1>1, <1>12, <1>13 DEF LibraryInv

LEMMA RebindKeeps ==
    ASSUME LibraryInv, RebindRepositoriesRoot
    PROVE  LibraryInv'
<1> DEFINE n == Current
           p == pms[n]
           q == [p EXCEPT !.local = "workspace"]
           r == PreloadJsonResources(q)
<1>1. /\ pms' = [pms EXCEPT ![n] = r] /\ disk' = disk /\ reading' = reading /\ answer' = {}
  BY DEF RebindRepositoriesRoot, SetManager
<1>2. IsManager(p) /\ FilesAreFiles
  BY ManagersThere DEF LibraryInv, Current
<1> HIDE DEF p
<1>3. IsManager(q)
  BY <1>2, ManagerChanged
<1> HIDE DEF q
<1>4. IsManager(r)
  BY <1>2, <1>3, Preloaded
<1> HIDE DEF r, n
<1> QED BY <1>1, <1>4, OneManagerChanges

\* No step of the server, of its watchers or of those who change the files
\* ends it.
LEMMA LibraryKeeps ==
    ASSUME LibraryInv, LibraryNext
    PROVE  LibraryInv'
<1>1. CASE Outside
  BY <1>1, EditKeeps, DeleteKeeps, WatcherFailsKeeps DEF Outside
<1>2. CASE Asked
  <2>1. CASE \E app \in Written : \E content \in Versions[<<"local", "application", app>>] :
                WriteApplication(app, content)
    BY <2>1, WriteKeeps
  <2>2. CASE ListApplications
    BY <2>2, ListApplicationsKeeps
  <2>3. CASE \E i \in DOMAIN pms, what \in FileKinds : ListOthers(i, what)
    BY <2>3, ListOthersKeeps
  <2>4. CASE \E app \in AllAppNames(pms[Current]) :
                \E task \in Tasks, request \in Requests : LoadTask(app, task, request)
    BY <2>4, LoadTaskKeeps
  <2>5. CASE \E id \in AddonIds(pms[1]) : InstallAddon(id)
    BY <2>5, InstallAddonKeeps
  <2>6. CASE \E i \in DOMAIN pms : \E what \in {"framework", "addon"} :
                \E id \in ScanDir("local", what) \cup ScanDir("json", what) :
                    BeginRead(i, what, id)
    BY <2>6, BeginReadKeeps
  <2>7. CASE Reload
    BY <2>7, ReloadKeeps
  <2>8. CASE RebindRepositoriesRoot
    BY <2>8, RebindKeeps
  <2> QED BY <1>2, <2>1, <2>2, <2>3, <2>4, <2>5, <2>6, <2>7, <2>8 DEF Asked
<1>3. CASE Delivered
  BY <1>3, DeliverKeeps DEF Delivered
<1>4. CASE Timer
  BY <1>4, TimerKeeps DEF Timer
<1>5. CASE FinishRead
  BY <1>5, FinishReadKeeps
<1> QED BY <1>1, <1>2, <1>3, <1>4, <1>5 DEF LibraryNext

LEMMA LibraryStutters ==
    ASSUME LibraryInv, UNCHANGED libraryVars
    PROVE  LibraryInv'
BY DEF LibraryInv, libraryVars, FilesAreFiles

\* Whatever is on disk and changes there, whatever a manager remembers: what
\* it answers was loaded well.
LEMMA LibraryHolds == LibrarySpec => []LibraryInv
<1>1. LibraryInit => LibraryInv
  BY LibraryStarts
<1>2. LibraryInv /\ [LibraryNext]_libraryVars => LibraryInv'
  BY LibraryKeeps, LibraryStutters
<1> QED BY <1>1, <1>2, PTL DEF LibrarySpec

\* The commands of every task that is loaded come in the order of the stages,
\* what addons add to them comes at its stage, and the notes are those of their
\* addon, for all applications, templates and addons that follow their schemas,
\* however they are changed meanwhile (application-persistence-handler.mts:1054,
\* webapp-ve-addon-command-builder.mts:377).
THEOREM CommandsComeInOrder == LibrarySpec => []CommandsInStageOrder
<1>1. LibraryInv => CommandsInStageOrder
  BY DEF LibraryInv, IsGood, WellLoaded, CommandsInStageOrder
<1> QED BY <1>1, LibraryHolds, PTL

\* Every variable in the text of a script or command that runs has somebody who
\* gives it a value, in every load without an error: whatever the templates
\* announce, replace, skip or nest, to any depth (templateprocessor.mts:544, 609).
THEOREM VariablesAreGiven == LibrarySpec => []VariablesHaveASource
<1>1. LibraryInv => VariablesHaveASource
  BY DEF LibraryInv, IsGood, WellLoaded, VariablesHaveASource
<1> QED BY <1>1, LibraryHolds, PTL

=============================================================================
