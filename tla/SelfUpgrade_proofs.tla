------------------------- MODULE SelfUpgrade_proofs -------------------------
(* The self-upgrade for any number of upgrades and restarts.                *)
EXTENDS SelfUpgrade, TLAPS

USE SizeAssumption

----------------------------------------------------------------------------
(* The inductive invariants.                                                *)

\* Once a finalizer took the marker away, OLD is down, and its lock keeps the
\* host from starting it again.
OldStaysDown ==
    /\ post \subseteq {New(u) : u \in switched}
    /\ \A u \in switched : New(u) \notin post => ~Up(Old) /\ locked

\* Whoever carries number u has been asked for.
Numbered ==
    /\ \A u \in Upgrades : u > asked => /\ Clone(u) \notin there /\ New(u) \notin there
                                        /\ proc[Clone(u)] = "down" /\ task[u] = "none"
    /\ \A d \in Deployers : marker[d] <= asked
    /\ hub.upgrade <= asked /\ (hub.upgrade = 0 <=> hub = Idle)
    /\ hub = Idle <=> hub.step = "idle"
    /\ \A u \in Upgrades : proc[Clone(u)] = "destroying" => marker[Clone(u)] # 0

\* A task is accepted once, and has no successor by then.
AcceptedOnce ==
    /\ \A u \in Upgrades : New(u) \in there => task[u] # "accepted"
    /\ hub.step \in {"made", "started", "ready", "injected"} =>
          task[hub.upgrade] = "none" /\ New(hub.upgrade) \notin there

Lasting == Old \in there /\ onboot \subseteq {Old} \cup {New(u) : u \in Upgrades}

\* The clone of u was through with the clone it found in its own marker.
Cleared(u) == marker[Clone(u)] \in left \cup {0}

\* A clone that serves is; so is every one that a marker names.
ClonesAreCleared ==
    /\ \A u \in Upgrades : proc[Clone(u)] = "serving" => Cleared(u)
    /\ hub.step \in {"ready", "injected", "triggered"} => Cleared(hub.upgrade)
    /\ \A d \in Deployers : marker[d] # 0 => Cleared(marker[d])

\* What OLD's marker names is the new clone's to destroy, unless it is gone.
Inherited ==
    hub # Idle => \/ marker[Old] \in left \cup {0}
                  \/ Clone(marker[Old]) \notin there
                  \/ marker[Clone(hub.upgrade)] = marker[Old]

TypeInv == TypeOK /\ Numbered /\ Lasting

Memory == AcceptedOnce /\ ClonesAreCleared /\ Inherited /\ ClonesRemembered

----------------------------------------------------------------------------
(* Names and types.                                                         *)

(* No two deployers share a name.                                            *)
LEMMA Names ==
    /\ Old \in Deployers
    /\ \A u \in Upgrades : /\ Clone(u) \in Deployers /\ New(u) \in Deployers
                           /\ Clone(u) # Old /\ New(u) # Old /\ Clone(u)[1] = "clone"
                           /\ \A v \in Upgrades : /\ Clone(u) # New(v)
                                                  /\ Clone(u) = Clone(v) => u = v
                                                  /\ New(u) = New(v) => u = v
    /\ \A d \in Deployers : \/ d = Old
                            \/ \E u \in Upgrades : d = Clone(u)
                            \/ \E u \in Upgrades : d = New(u)
    /\ Clone(0) \notin Deployers
  BY DEF Deployers, Old, Clone, New, Upgrades

LEMMA OtherNames ==
    \A u, v \in Upgrades : /\ u # v => Clone(u) # Clone(v) /\ New(u) # New(v)
                           /\ Clone(u) # New(v) /\ New(u) # Clone(v)
  BY DEF Clone, New

LEMMA NamesOfOthers ==
    Old[1] # "clone" /\ \A u \in Upgrades : New(u)[1] # "clone"
  BY DEF Old, New

LEMMA Numbers ==
    /\ Upgrades \subseteq Nat /\ 0 \notin Upgrades
    /\ \A n \in 0 .. MaxUpgrades : n # 0 => n \in Upgrades
    /\ \A n \in 0 .. MaxUpgrades : n < MaxUpgrades =>
          n + 1 \in Upgrades /\ n + 1 > n /\ n + 1 \in 0 .. MaxUpgrades
  BY DEF Upgrades

LEMMA InitTypes == Init => TypeInv
<1> SUFFICES ASSUME Init PROVE TypeInv
  OBVIOUS
<1>1. TypeOK
  <2>1. hub \in [step : {"idle", "made", "started", "ready", "injected", "triggered"},
                upgrade : 0 .. MaxUpgrades]
    BY DEF Init, Idle
  <2>2. proc \in [Deployers -> ProcPhases] /\ task \in [Upgrades -> TaskPhases]
        /\ marker \in [Deployers -> 0 .. MaxUpgrades]
    BY DEF Init, ProcPhases, TaskPhases
  <2>3. 0 \in 0 .. MaxUpgrades /\ 0 \in 0 .. MaxRestarts
    OBVIOUS
  <2>4. there \subseteq Deployers /\ onboot \subseteq Deployers /\ locked \in BOOLEAN
        /\ post \subseteq Deployers /\ stopping \in BOOLEAN
        /\ left \subseteq Upgrades /\ switched \subseteq Upgrades /\ inPlace \subseteq Upgrades
        /\ asked \in 0 .. MaxUpgrades /\ restarts \in 0 .. MaxRestarts
    BY <2>3, Names DEF Init
  <2> QED BY <2>1, <2>2, <2>4 DEF TypeOK
<1>2. Numbered
  BY Names, Numbers DEF Init, Numbered, Idle
<1>3. Lasting
  BY DEF Init, Lasting
<1> QED BY <1>1, <1>2, <1>3 DEF TypeInv

(* A process that ends takes nothing but memory with it.                     *)
LEMMA EndTypes ==
    ASSUME TypeInv, NEW S
    PROVE  /\ Stopped(S) \in [Deployers -> ProcPhases]
           /\ \A d \in Deployers : Stopped(S)[d] \in {"down", proc[d]}
           /\ TasksAfter(S) \in [Upgrades -> TaskPhases]
           /\ \A u \in Upgrades : TasksAfter(S)[u] \in {"none", task[u]}
           /\ HubAfter(S) \in {hub, Idle}
           /\ LeftBy(S) \subseteq Upgrades
           /\ hub # Idle /\ HubAfter(S) = Idle => hub.upgrade \in LeftBy(S)
<1>1. hub # Idle => hub.upgrade \in Upgrades
  BY DEF TypeInv, TypeOK, Numbered, Upgrades
<1> QED BY <1>1 DEF TypeInv, TypeOK, Stopped, TasksAfter, HubAfter, LeftBy, ProcPhases, TaskPhases

Hubs == [step : {"idle", "made", "started", "ready", "injected", "triggered"},
         upgrade : 0 .. MaxUpgrades]

(* A request goes from step to step with its number.                         *)
LEMMA HubStepTypes ==
    ASSUME TypeInv, NEW from \in {"made", "started", "ready", "injected", "triggered"},
           NEW to \in {"idle", "started", "ready", "injected", "triggered"}, HubSteps(from, to)
    PROVE  /\ hub' \in Hubs /\ hub.step = from /\ hub # Idle
           /\ hub.upgrade \in Upgrades /\ proc[Old] = "serving"
           /\ to = "idle" => hub' = Idle
           /\ to # "idle" => hub'.step = to /\ hub'.upgrade = hub.upgrade /\ hub' # Idle
<1>1. hub \in Hubs /\ hub.step = from
  BY DEF TypeInv, TypeOK, Hubs, HubSteps
<1>2. hub # Idle /\ hub.upgrade # 0
  BY <1>1 DEF TypeInv, Numbered
<1> QED BY <1>1, <1>2, Numbers DEF Hubs, HubSteps, Idle

LEMMA HubTypes == ASSUME TypeInv, HubStep PROVE TypeInv'
<1>1. /\ TypeOK /\ Numbered /\ asked \in Nat /\ task \in [Upgrades -> TaskPhases]
      /\ proc \in [Deployers -> ProcPhases] /\ marker \in [Deployers -> 0 .. MaxUpgrades]
      /\ \A u \in Upgrades : u \in Nat
  BY Numbers DEF TypeInv, TypeOK
<1>2. ASSUME NEW from \in {"made", "started", "ready", "injected", "triggered"},
             NEW to \in {"idle", "started", "ready", "injected", "triggered"}, HubSteps(from, to),
             UNCHANGED <<onboot, locked, post, stopping, inPlace, asked, switched, restarts>>,
             there' = there,
             proc' \in {proc, [proc EXCEPT ![Clone(hub.upgrade)] = "finalizing"]},
             marker' \in {marker, [marker EXCEPT ![Old] = hub.upgrade]},
             task' \in {task, [task EXCEPT ![hub.upgrade] = "accepted"]},
             left' \in {left, left \cup {hub.upgrade}}
      PROVE  TypeInv'
  <2>1. /\ hub' \in Hubs /\ hub.upgrade \in Upgrades /\ hub.upgrade <= asked
        /\ hub'.upgrade \in {0, hub.upgrade}
        /\ (hub'.upgrade = 0 <=> hub' = Idle) /\ (hub' = Idle <=> hub'.step = "idle")
    <3>1. hub.upgrade \in Upgrades /\ hub.upgrade # 0 /\ hub.upgrade <= asked /\ hub' \in Hubs
      BY <1>1, <1>2, HubStepTypes, Numbers DEF Numbered
    <3>2. CASE to = "idle"
      BY <1>2, <3>1, <3>2, HubStepTypes DEF Idle
    <3>3. CASE to # "idle"
      <4>1. hub'.step = to /\ hub'.upgrade = hub.upgrade /\ hub' # Idle
        BY <1>2, <3>3, HubStepTypes
      <4> QED BY <3>1, <3>3, <4>1
    <3> QED BY <3>2, <3>3
  <2>2. TypeOK'
    <3>1. proc' \in [Deployers -> ProcPhases] /\ task' \in [Upgrades -> TaskPhases]
      BY <1>1, <1>2 DEF ProcPhases, TaskPhases
    <3>2. marker' \in [Deployers -> 0 .. MaxUpgrades]
      BY <1>1, <1>2, <2>1 DEF Upgrades
    <3>3. left' \subseteq Upgrades
      BY <1>1, <1>2, <2>1 DEF TypeOK
    <3> QED BY <1>1, <1>2, <2>1, <3>1, <3>2, <3>3 DEF TypeOK, Hubs
  <2>3. Numbered'
    <3>1. \A u \in Upgrades : u > asked => u # hub.upgrade
      BY <1>1, <2>1
    <3>2. ASSUME NEW u \in Upgrades, u > asked
          PROVE  /\ Clone(u) \notin there' /\ New(u) \notin there'
                 /\ proc'[Clone(u)] = "down" /\ task'[u] = "none"
      <4>1. Clone(u) \in Deployers /\ u # hub.upgrade /\ Clone(u) # Clone(hub.upgrade)
        BY <2>1, <3>1, <3>2, Names, OtherNames
      <4>2. proc'[Clone(u)] = proc[Clone(u)] /\ task'[u] = task[u]
        BY <1>1, <1>2, <4>1
      <4> QED BY <1>1, <1>2, <3>2, <4>2 DEF Numbered
    <3>3. \A d \in Deployers : marker'[d] <= asked'
      BY <1>1, <1>2, <2>1 DEF Numbered
    <3>4. hub'.upgrade <= asked'
      BY <1>1, <1>2, <2>1
    <3>5. \A u \in Upgrades : proc'[Clone(u)] = "destroying" => marker'[Clone(u)] # 0
      BY <1>1, <1>2, <2>1, Names DEF Numbered
    <3> QED BY <1>2, <2>1, <3>2, <3>3, <3>4, <3>5 DEF Numbered
  <2> QED BY <1>2, <2>2, <2>3 DEF TypeInv, Lasting
<1>3. CASE StartClone \/ CloneAnswers \/ InjectContext \/ Trigger
  BY <1>2, <1>3 DEF StartClone, CloneAnswers, InjectContext, Trigger, host, files, told
<1>4. CASE RequestFails \/ WriteMarker
  BY <1>2, <1>4 DEF RequestFails, WriteMarker, host, files
<1>5. ASSUME Free PROVE asked + 1 \in Upgrades /\ asked + 1 > asked /\ hub = Idle
                        /\ asked + 1 \in 0 .. MaxUpgrades
  BY <1>1, <1>5, Numbers DEF Free, TypeOK
<1>6. CASE AskInPlace \/ CreateClone \/ CreateFails
  <2>1. /\ asked' = asked + 1 /\ asked' \in Upgrades /\ asked' > asked /\ hub = Idle
        /\ asked' \in 0 .. MaxUpgrades
        /\ UNCHANGED <<onboot, locked, proc, post, stopping, switched, restarts>>
    BY <1>5, <1>6 DEF AskInPlace, CreateClone, CreateFails, host, files
  <2>2. /\ hub' \in {Idle, [step |-> "made", upgrade |-> asked']}
        /\ there' \in {there, there \cup {Clone(asked')}}
        /\ marker' \in {marker, [marker EXCEPT ![Clone(asked')] = marker[Old]]}
        /\ task' \in {task, [task EXCEPT ![asked'] = "accepted"]}
        /\ left' \in {left, left \cup {asked'}} /\ inPlace' \in {inPlace, inPlace \cup {asked'}}
    BY <1>6, <2>1 DEF AskInPlace, CreateClone, CreateFails, host, files
  <2>3. hub'.upgrade \in {0, asked'} /\ hub' \in Hubs
        /\ (hub'.upgrade = 0 <=> hub' = Idle) /\ (hub' = Idle <=> hub'.step = "idle")
    BY <2>1, <2>2, Numbers DEF Idle, Hubs
  <2>4. TypeOK'
    <3>1. task' \in [Upgrades -> TaskPhases]
      BY <1>1, <2>2 DEF TaskPhases
    <3>2. marker' \in [Deployers -> 0 .. MaxUpgrades]
      BY <1>1, <2>2, Names
    <3>3. there' \subseteq Deployers /\ left' \subseteq Upgrades /\ inPlace' \subseteq Upgrades
      BY <1>1, <2>1, <2>2, Names DEF TypeOK
    <3> QED BY <1>1, <2>1, <2>3, <3>1, <3>2, <3>3 DEF TypeOK, Hubs
  <2>5. Numbered'
    <3>1. ASSUME NEW u \in Upgrades, u > asked'
          PROVE  /\ Clone(u) \notin there' /\ New(u) \notin there'
                 /\ proc'[Clone(u)] = "down" /\ task'[u] = "none"
      <4>1. u > asked /\ u # asked'
        BY <1>1, <2>1, <3>1
      <4>2. Clone(u) # Clone(asked') /\ New(u) # Clone(asked')
        BY <2>1, <4>1, OtherNames
      <4>3. task'[u] = task[u]
        BY <1>1, <2>2, <4>1
      <4> QED BY <1>1, <2>1, <2>2, <4>1, <4>2, <4>3 DEF Numbered
    <3>2. \A d \in Deployers : marker'[d] \in Nat /\ marker'[d] <= asked'
      BY <1>1, <2>1, <2>2, Names DEF Numbered
    <3>3. \A u \in Upgrades : proc'[Clone(u)] = "destroying" => marker'[Clone(u)] # 0
      <4>1. proc[Clone(asked')] = "down"
        BY <1>1, <2>1 DEF Numbered
      <4> QED BY <1>1, <2>1, <2>2, <4>1, Names DEF Numbered
    <3> QED BY <1>1, <2>1, <2>3, <3>1, <3>2, <3>3 DEF Numbered
  <2> QED BY <2>1, <2>2, <2>4, <2>5 DEF TypeInv, Lasting
<1> QED BY <1>3, <1>4, <1>6 DEF HubStep

(* Apart from requests, nobody is given a number.                            *)
LEMMA NumberedKept ==
    ASSUME Numbered, asked' = asked, hub' \in {hub, Idle},
           \A u \in Upgrades : Clone(u) \in there' => Clone(u) \in there,
           \A u \in Upgrades : New(u) \in there' => New(u) \in there \/ task[u] # "none",
           \A u \in Upgrades : task[u] = "none" => task'[u] = "none",
           \A u \in Upgrades : proc[Clone(u)] = "down" => proc'[Clone(u)] = "down",
           \A d \in Deployers : marker'[d] \in {0, marker[d], marker[Old]},
           \A u \in Upgrades : proc'[Clone(u)] = "destroying" => marker'[Clone(u)] # 0,
           asked \in Nat
    PROVE  Numbered'
  BY Names DEF Numbered, Idle

LEMMA TaskTypes == ASSUME TypeInv, NEW u \in Upgrades, TaskStep(u) PROVE TypeInv'
<1>1. /\ TypeOK /\ Numbered /\ asked \in Nat /\ task \in [Upgrades -> TaskPhases]
      /\ proc \in [Deployers -> ProcPhases] /\ marker \in [Deployers -> 0 .. MaxUpgrades]
      /\ Lasting
  BY DEF TypeInv, TypeOK
<1>2. ASSUME NEW to \in TaskPhases, task' = [task EXCEPT ![u] = to], task[u] # "none",
             UNCHANGED <<inPlace, hub, asked, restarts>>,
             there' \in {there, there \cup {New(u)}},
             onboot' \in {onboot, onboot \cup {New(u)}, onboot \ {Old}, onboot \ {New(u)}},
             locked' \in BOOLEAN, stopping' \in BOOLEAN,
             proc' \in {proc, [proc EXCEPT ![New(u)] = "finalizing"], [proc EXCEPT ![New(u)] = "down"]},
             marker' \in {marker, [marker EXCEPT ![New(u)] = marker[Old]]},
             post' \in {post, post \cup {New(u)}}, switched' \in {switched, switched \cup {u}},
             left' \in {left, left \cup {u}}
      PROVE  TypeInv'
  <2>1. task' \in [Upgrades -> TaskPhases] /\ \A v \in Upgrades : task[v] = "none" => task'[v] = "none"
    BY <1>1, <1>2
  <2>2. proc' \in [Deployers -> ProcPhases] /\ \A v \in Upgrades : proc'[Clone(v)] = proc[Clone(v)]
    BY <1>1, <1>2, Names, OtherNames DEF ProcPhases
  <2>3. /\ marker' \in [Deployers -> 0 .. MaxUpgrades]
        /\ \A v \in Upgrades : marker'[Clone(v)] = marker[Clone(v)]
        /\ \A d \in Deployers : marker'[d] \in {0, marker[d], marker[Old]}
    BY <1>1, <1>2, Names, OtherNames
  <2>4. /\ there' \subseteq Deployers /\ onboot' \subseteq Deployers /\ post' \subseteq Deployers
        /\ left' \subseteq Upgrades /\ switched' \subseteq Upgrades
    BY <1>1, <1>2, Names DEF TypeOK
  <2>5. TypeOK'
    BY <1>1, <1>2, <2>1, <2>2, <2>3, <2>4 DEF TypeOK
  <2>6. /\ \A v \in Upgrades : Clone(v) \in there' => Clone(v) \in there
        /\ \A v \in Upgrades : New(v) \in there' => New(v) \in there \/ task[v] # "none"
    BY <1>2, Names, OtherNames
  <2>7. \A v \in Upgrades : proc'[Clone(v)] = "destroying" => marker'[Clone(v)] # 0
    BY <1>1, <2>2, <2>3 DEF Numbered
  <2>8. Numbered'
    BY <1>1, <1>2, <2>1, <2>2, <2>3, <2>6, <2>7, NumberedKept
  <2>9. Lasting'
    BY <1>1, <1>2 DEF Lasting
  <2> QED BY <2>5, <2>8, <2>9 DEF TypeInv
<1>3. CASE CopyOld(u)
  BY <1>1, <1>2, <1>3 DEF CopyOld, TaskSteps, TypeOK, TaskPhases
<1>4. CASE TaskFails(u)
  BY <1>1, <1>2, <1>4 DEF TaskFails, TaskSteps, TypeOK, TaskPhases, host, files, told
<1>5. CASE SwitchMarks(u)
  BY <1>1, <1>2, <1>5 DEF SwitchMarks, TaskSteps, TypeOK, TaskPhases
<1>6. CASE SwitchStarts(u)
  BY <1>1, <1>2, <1>6 DEF SwitchStarts, TaskSteps, TypeOK, TaskPhases, host, files, told
<1>7. CASE SwitchEnds(u)
  BY <1>1, <1>2, <1>7 DEF SwitchEnds, TaskSteps, TypeOK, TaskPhases, host, files, told
<1>8. CASE SwitchFails(u)
  BY <1>1, <1>2, <1>8 DEF SwitchFails, TaskSteps, TypeOK, TaskPhases, files, told
<1> QED BY <1>3, <1>4, <1>5, <1>6, <1>7, <1>8 DEF TaskStep

(* A boot, a stop, a restart and a reboot: who was down and is no container  *)
(* that starts with the host stays down.                                     *)
LEMMA ProcessTypes ==
    ASSUME TypeInv,
           UNCHANGED <<inPlace, asked, switched>>, stopping' \in BOOLEAN, locked' \in BOOLEAN,
           restarts' \in 0 .. MaxRestarts,
           hub' \in {hub, Idle}, task' \in [Upgrades -> TaskPhases],
           \A u \in Upgrades : task[u] = "none" => task'[u] = "none",
           left' \subseteq Upgrades,
           proc' \in [Deployers -> ProcPhases],
           \A u \in Upgrades : proc[Clone(u)] = "down" => proc'[Clone(u)] = "down",
           \A u \in Upgrades : proc'[Clone(u)] = "destroying" => marker'[Clone(u)] # 0,
           there' \subseteq there, Old \in there',
           onboot' \subseteq onboot \cup {Old}, post' \subseteq post,
           marker' \in [Deployers -> 0 .. MaxUpgrades],
           \A d \in Deployers : marker'[d] \in {0, marker[d]}
    PROVE  TypeInv'
<1>1. /\ TypeOK /\ Numbered /\ asked \in Nat /\ Lasting
      /\ hub \in Hubs /\ Idle \in Hubs
  BY DEF TypeInv, TypeOK, Hubs, Idle
<1>2. TypeOK'
  <2>1. hub' \in Hubs
    BY <1>1
  <2>2. there' \subseteq Deployers /\ onboot' \subseteq Deployers /\ post' \subseteq Deployers
    BY <1>1, Names DEF TypeOK
  <2> QED BY <1>1, <2>1, <2>2 DEF TypeOK, Hubs
<1>3. Numbered'
  BY <1>1, NumberedKept
<1>4. Lasting'
  BY <1>1 DEF Lasting
<1> QED BY <1>2, <1>3, <1>4 DEF TypeInv

LEMMA BootTypes == ASSUME TypeInv, NEW d \in Deployers, Boot(d) PROVE TypeInv'
<1>1. /\ TypeOK /\ Numbered /\ Lasting /\ proc \in [Deployers -> ProcPhases]
      /\ marker \in [Deployers -> 0 .. MaxUpgrades]
      /\ \A u \in Upgrades : proc[Clone(u)] = "destroying" => marker[Clone(u)] # 0
      /\ task \in [Upgrades -> TaskPhases]
      /\ locked \in BOOLEAN /\ stopping \in BOOLEAN /\ left \subseteq Upgrades
      /\ there \subseteq Deployers /\ restarts \in 0 .. MaxRestarts /\ Old \in there
  BY DEF TypeInv, TypeOK, Numbered, Lasting
<1>2. ASSUME NEW phase \in {"adopting", "serving", "destroying"}, Up(d),
             proc' = [proc EXCEPT ![d] = phase], phase = "destroying" => marker[d] # 0,
             UNCHANGED <<host, files, stopping, task, inPlace, hub, asked, switched, restarts>>,
             left' \in {left, left \cup {marker[d]}}, left' # left => marker[d] # 0
      PROVE  TypeInv'
  <2>1. /\ proc' \in [Deployers -> ProcPhases]
        /\ \A u \in Upgrades : proc[Clone(u)] = "down" => proc'[Clone(u)] = "down"
        /\ \A u \in Upgrades : proc'[Clone(u)] = "destroying" => marker[Clone(u)] # 0
    BY <1>1, <1>2 DEF ProcPhases, Up
  <2>2. left' \subseteq Upgrades
    BY <1>1, <1>2, Numbers
  <2> QED BY <1>1, <1>2, <2>1, <2>2, ProcessTypes DEF host, files
<1>3. CASE NothingToFinalize(d) \/ FinalizeFails(d)
  BY <1>2, <1>3 DEF NothingToFinalize, FinalizeFails, told, Up
<1>4. CASE NothingToAdopt(d) \/ AdoptClone(d)
  BY <1>2, <1>4 DEF NothingToAdopt, AdoptClone, told, Up
<1>5. CASE DestroyThrows(d)
  <2>1. d[1] = "clone" => marker[d] # 0
    BY <1>1, <1>5, Names, NamesOfOthers DEF DestroyThrows
  <2> QED BY <1>2, <1>5, <2>1 DEF DestroyThrows, Up
<1>6. CASE Finalize(d)
  <2>1. /\ proc' \in [Deployers -> ProcPhases]
        /\ \A u \in Upgrades : proc[Clone(u)] = "down" => proc'[Clone(u)] = "down"
        /\ \A u \in Upgrades : proc'[Clone(u)] = "destroying" => marker[Clone(u)] # 0
    <3>1. proc' = [Stopped({Old}) EXCEPT ![d] = "adopting"] /\ proc[d] = "finalizing"
      BY <1>6 DEF Finalize
    <3>2. Stopped({Old}) \in [Deployers -> ProcPhases]
          /\ \A e \in Deployers : Stopped({Old})[e] \in {"down", proc[e]}
      BY EndTypes
    <3> QED BY <1>1, <3>1, <3>2, Names DEF ProcPhases
  <2>2. /\ left' \subseteq Upgrades /\ hub' \in {hub, Idle} /\ task' \in [Upgrades -> TaskPhases]
        /\ \A u \in Upgrades : task[u] = "none" => task'[u] = "none"
    BY <1>1, <1>6, EndTypes DEF Finalize
  <2> QED BY <1>1, <1>6, <2>1, <2>2, ProcessTypes DEF Finalize
<1>7. CASE DestroyClone(d)
  <2> DEFINE u == marker[d]
  <2>1. /\ proc[d] = "destroying" /\ marker' = [marker EXCEPT ![d] = 0]
        /\ UNCHANGED <<onboot, locked, post, stopping, inPlace, hub, asked, switched, restarts>>
    BY <1>7 DEF DestroyClone
  <2>2. /\ marker' \in [Deployers -> 0 .. MaxUpgrades]
        /\ \A e \in Deployers : marker'[e] \in {0, marker[e]}
        /\ \A e \in Deployers : e # d => marker'[e] = marker[e]
    BY <1>1, <2>1
  <2>3. CASE /\ there' = there \ {Clone(u)}
             /\ proc' = [Stopped({Clone(u)}) EXCEPT ![d] = "serving"]
             /\ task' = TasksAfter({Clone(u)}) /\ UNCHANGED left
    <3>1. Stopped({Clone(u)}) \in [Deployers -> ProcPhases]
          /\ \A e \in Deployers : Stopped({Clone(u)})[e] \in {"down", proc[e]}
      BY EndTypes
    <3>2. /\ proc' \in [Deployers -> ProcPhases]
          /\ \A e \in Deployers : proc[e] = "down" => proc'[e] = "down"
          /\ \A e \in Deployers : proc'[e] = "destroying" => e # d /\ proc[e] = "destroying"
      BY <1>1, <2>1, <2>3, <3>1 DEF ProcPhases
    <3>3. Old \in there'
      BY <1>1, <2>3, Names, NamesOfOthers DEF Clone, Old
    <3>4. /\ task' \in [Upgrades -> TaskPhases]
          /\ \A v \in Upgrades : task[v] = "none" => task'[v] = "none"
      BY <2>3, EndTypes
    <3>5. /\ \A v \in Upgrades : proc[Clone(v)] = "down" => proc'[Clone(v)] = "down"
          /\ \A v \in Upgrades : proc'[Clone(v)] = "destroying" => marker'[Clone(v)] # 0
      BY <1>1, <2>2, <3>2, Names
    <3>6. there' \subseteq there /\ UNCHANGED <<left, hub>>
      BY <2>1, <2>3
    <3> QED BY <1>1, <2>1, <2>2, <3>2, <3>3, <3>4, <3>5, <3>6, ProcessTypes
  <2>4. CASE /\ Clone(u) \in there /\ proc' = [proc EXCEPT ![d] = "serving"]
             /\ left' = left \cup {u} /\ UNCHANGED <<there, task>>
    <3>1. left' \subseteq Upgrades
      BY <1>1, <2>4, Names, Numbers
    <3>2. /\ proc' \in [Deployers -> ProcPhases]
          /\ \A e \in Deployers : proc[e] = "down" => proc'[e] = "down"
          /\ \A e \in Deployers : proc'[e] = "destroying" => e # d /\ proc[e] = "destroying"
      BY <1>1, <2>1, <2>4 DEF ProcPhases
    <3> QED BY <1>1, <2>1, <2>2, <2>4, <3>1, <3>2, Names, ProcessTypes
  <2> QED BY <1>7, <2>3, <2>4 DEF DestroyClone
<1> QED BY <1>3, <1>4, <1>5, <1>6, <1>7 DEF Boot

LEMMA AroundTypes ==
    ASSUME TypeInv,
           DetachedStop \/ HostReboots \/ AdminRecovers \/ \E d \in Deployers : Restart(d)
    PROVE  TypeInv'
<1>1. /\ TypeOK /\ Numbered /\ Lasting /\ proc \in [Deployers -> ProcPhases]
      /\ \A u \in Upgrades : proc[Clone(u)] = "destroying" => marker[Clone(u)] # 0
      /\ task \in [Upgrades -> TaskPhases]
      /\ locked \in BOOLEAN /\ stopping \in BOOLEAN /\ left \subseteq Upgrades
      /\ there \subseteq Deployers /\ restarts \in 0 .. MaxRestarts /\ Old \in there
      /\ marker \in [Deployers -> 0 .. MaxUpgrades]
  BY DEF TypeInv, TypeOK, Numbered, Lasting
<1>2. ASSUME restarts < MaxRestarts PROVE restarts + 1 \in 0 .. MaxRestarts
  BY <1>1, <1>2
<1>3. CASE DetachedStop
  <2>1. PICK S \in {{}, {Old}} : /\ proc' = Stopped(S) /\ task' = TasksAfter(S)
                               /\ hub' = HubAfter(S) /\ left' = left \cup LeftBy(S)
    BY <1>3 DEF DetachedStop
  <2>2. /\ proc' \in [Deployers -> ProcPhases] /\ left' \subseteq Upgrades
        /\ \A e \in Deployers : proc'[e] \in {"down", proc[e]}
    BY <1>1, <2>1, EndTypes
  <2>3. /\ hub' \in {hub, Idle} /\ task' \in [Upgrades -> TaskPhases]
        /\ \A u \in Upgrades : task[u] = "none" => task'[u] = "none"
    BY <2>1, EndTypes
  <2> QED BY <1>1, <1>3, <2>1, <2>2, <2>3, Names, ProcessTypes DEF DetachedStop, host, files
<1>4. ASSUME NEW d \in Deployers, Restart(d) PROVE TypeInv'
  <2>1. /\ proc' \in [Deployers -> ProcPhases] /\ left' \subseteq Upgrades
        /\ \A e \in Deployers : proc[e] = "down" => proc'[e] = "down"
        /\ \A e \in Deployers : proc'[e] = "destroying" => proc[e] = "destroying"
    BY <1>1, <1>4, EndTypes DEF Restart, Up, ProcPhases
  <2>2. restarts' \in 0 .. MaxRestarts
    BY <1>2, <1>4 DEF Restart
  <2>3. /\ hub' \in {hub, Idle} /\ task' \in [Upgrades -> TaskPhases]
        /\ \A u \in Upgrades : task[u] = "none" => task'[u] = "none"
    BY <1>4, EndTypes DEF Restart
  <2> QED BY <1>1, <1>4, <2>1, <2>2, <2>3, Names, ProcessTypes DEF Restart, host, files
<1>5. CASE HostReboots
  <2>1. /\ proc' \in [Deployers -> ProcPhases] /\ left' \subseteq Upgrades
        /\ \A e \in Deployers : proc'[e] # "destroying"
    BY <1>1, <1>5, EndTypes DEF HostReboots, ProcPhases
  <2>2. \A u \in Upgrades : proc'[Clone(u)] = "down"
    BY <1>1, <1>5, Names, OtherNames DEF HostReboots, Lasting
  <2>3. restarts' \in 0 .. MaxRestarts
    BY <1>2, <1>5 DEF HostReboots
  <2>4. /\ hub' \in {hub, Idle} /\ task' \in [Upgrades -> TaskPhases]
        /\ \A u \in Upgrades : task[u] = "none" => task'[u] = "none"
    BY <1>5, EndTypes DEF HostReboots
  <2> QED BY <1>1, <1>5, <2>1, <2>2, <2>3, <2>4, Names, ProcessTypes DEF HostReboots, host, files
<1>6. CASE AdminRecovers
  BY <1>1, <1>6, ProcessTypes DEF AdminRecovers, files, told
<1> QED BY <1>3, <1>4, <1>5, <1>6

LEMMA StepTypes == TypeInv /\ [Next]_vars => TypeInv'
<1> SUFFICES ASSUME TypeInv, [Next]_vars PROVE TypeInv'
  OBVIOUS
<1>1. CASE UNCHANGED vars
  BY <1>1 DEF vars, TypeInv, TypeOK, Numbered, Lasting
<1> QED BY <1>1, HubTypes, TaskTypes, BootTypes, AroundTypes DEF Next

(* For any number of upgrades and restarts every variable keeps its type:    *)
(* markers, requests and tasks name upgrades that were asked for             *)
(* (self-upgrade-orchestrator.mts).                                          *)
THEOREM TypeCorrect == Spec => []TypeOK
<1>1. TypeInv => TypeOK
  BY DEF TypeInv
<1> QED BY <1>1, InitTypes, StepTypes, PTL DEF Spec

----------------------------------------------------------------------------
(* The successor is alone.                                                  *)

LEMMA FinalizeReleases ==
    ASSUME TypeInv, OldStaysDown, NEW d \in Deployers, Finalize(d)
    PROVE  OldStaysDown'
<1>1. d \in post /\ post' = post \ {d} /\ switched' = switched /\ locked'
      /\ proc' = [Stopped({Old}) EXCEPT ![d] = "adopting"]
  BY DEF Finalize
<1>2. d # Old
  BY <1>1, Names DEF OldStaysDown, TypeInv, TypeOK
<1>3. proc'[Old] = "down"
  BY <1>1, <1>2, Names DEF Stopped
<1> QED BY <1>1, <1>3 DEF OldStaysDown, Up

LEMMA TasksKeepOldDown ==
    ASSUME TypeInv, OldStaysDown, NEW u \in Upgrades, TaskStep(u)
    PROVE  OldStaysDown'
<1> USE DEF OldStaysDown, Up
<1>1. proc'[Old] = proc[Old]
  BY Names DEF TypeInv, TypeOK, TaskStep, CopyOld, TaskFails, SwitchMarks, SwitchStarts,
               SwitchEnds, SwitchFails, host
<1>2. CASE SwitchMarks(u)
  <2>1. /\ locked' /\ post \subseteq post' /\ post' \subseteq post \cup {New(u)}
        /\ \/ switched' = switched /\ post' = post
           \/ switched' = switched \cup {u} /\ post' = post \cup {New(u)}
    BY <1>2 DEF SwitchMarks
  <2> QED BY <1>1, <2>1
<1>3. CASE ~SwitchMarks(u)
  <2>1. UNCHANGED <<post, switched, locked>>
    BY <1>3 DEF TaskStep, CopyOld, TaskFails, SwitchStarts, SwitchEnds, SwitchFails, host, files,
                told
  <2> QED BY <1>1, <2>1
<1> QED BY <1>2, <1>3

(* Nothing but the administrator's recovery, which needs OLD up, unlocks it, *)
(* and nothing starts it while it is locked.                                 *)
LEMMA StepKeepsOldDown == TypeInv /\ OldStaysDown /\ [Next]_vars => OldStaysDown'
<1> SUFFICES ASSUME TypeInv, OldStaysDown, [Next]_vars PROVE OldStaysDown'
  OBVIOUS
<1>1. proc \in [Deployers -> ProcPhases] /\ Old \in Deployers
  BY Names DEF TypeInv, TypeOK
<1>2. ASSUME UNCHANGED <<post, switched>>,
             proc[Old] = "down" /\ locked => proc'[Old] = "down" /\ locked'
      PROVE  OldStaysDown'
  BY <1>2 DEF OldStaysDown, Up
<1>3. CASE HubStep
  <2>1. UNCHANGED <<post, switched, locked>>
    BY <1>3 DEF HubStep, AskInPlace, CreateClone, CreateFails, StartClone, CloneAnswers,
                InjectContext, Trigger, RequestFails, WriteMarker, host, files, told
  <2>2. proc[Old] = "serving"
    BY <1>3 DEF HubStep, AskInPlace, CreateClone, CreateFails, StartClone, CloneAnswers,
                InjectContext, Trigger, RequestFails, WriteMarker, Free, HubSteps
  <2> QED BY <1>2, <2>1, <2>2
<1>4. ASSUME NEW d \in Deployers, Boot(d) PROVE OldStaysDown'
  <2>1. CASE Finalize(d)
    BY <2>1, FinalizeReleases
  <2>2. CASE ~Finalize(d)
    <3>1. UNCHANGED <<post, switched, locked>>
      BY <1>4, <2>2 DEF Boot, NothingToFinalize, FinalizeFails, NothingToAdopt, AdoptClone,
                        DestroyClone, DestroyThrows, host, files, told
    <3>2. proc[d] # "down"
      BY <1>4, <2>2 DEF Boot, NothingToFinalize, FinalizeFails, NothingToAdopt, AdoptClone,
                        DestroyClone, DestroyThrows
    <3>3. \A e \in Deployers \ {d} : proc'[e] \in {"down", proc[e]}
      BY <1>1, <1>4, <2>2, EndTypes
         DEF Boot, NothingToFinalize, FinalizeFails, NothingToAdopt, AdoptClone, DestroyClone,
             DestroyThrows
    <3> QED BY <1>1, <1>2, <3>1, <3>2, <3>3
  <2> QED BY <2>1, <2>2
<1>5. ASSUME NEW d \in Deployers, Restart(d) PROVE OldStaysDown'
  BY <1>1, <1>2, <1>5 DEF Restart, host, files, Up
<1>6. CASE DetachedStop
  <2>1. proc'[Old] \in {"down", proc[Old]}
    BY <1>1, <1>6, EndTypes DEF DetachedStop
  <2> QED BY <1>2, <1>6, <2>1 DEF DetachedStop, host, files
<1>7. CASE HostReboots
  BY <1>1, <1>2, <1>7 DEF HostReboots, host, files
<1>8. CASE AdminRecovers
  BY <1>2, <1>8 DEF AdminRecovers, files, told, Up
<1>9. CASE UNCHANGED vars
  BY <1>2, <1>9 DEF vars
<1> QED BY <1>3, <1>4, <1>5, <1>6, <1>7, <1>8, <1>9, TasksKeepOldDown DEF Next

(* For any number of upgrades, failed finalizers, restarts and reboots: a    *)
(* successor that was handed the marker, serves and has nothing left to      *)
(* finalize never meets OLD (upgrade-finalization-service.mts:33).           *)
THEOREM SuccessorIsAlone == Spec => []SuccessorAlone
<1>1. Init => OldStaysDown
  BY DEF Init, OldStaysDown
<1>2. OldStaysDown => SuccessorAlone
  BY DEF OldStaysDown, SuccessorAlone
<1> QED BY <1>1, <1>2, InitTypes, StepTypes, StepKeepsOldDown, PTL DEF Spec

----------------------------------------------------------------------------
(* Every clone is remembered.                                               *)

Early == {"made", "started", "ready", "injected"}
Late  == {"ready", "injected", "triggered"}

(* What makes no clone, destroys none and writes no marker.                  *)
LEMMA QuietKeeps ==
    ASSUME TypeInv, Memory, UNCHANGED <<there, marker>>, left \subseteq left',
           hub' # Idle => hub # Idle /\ hub'.upgrade = hub.upgrade,
           hub # Idle /\ hub' = Idle => hub.upgrade \in left',
           hub'.step \in Early => hub.step \in Early,
           hub'.step \in Late => hub.step \in Late \/ proc[Clone(hub.upgrade)] = "serving",
           \A u \in Upgrades : task'[u] = "accepted" => task[u] = "accepted" \/ New(u) \notin there,
           \A u \in Upgrades : task[u] = "none" => task'[u] = "none" \/ hub'.step \notin Early,
           \A u \in Upgrades : proc'[Clone(u)] = "serving" =>
                 proc[Clone(u)] = "serving" \/ marker[Clone(u)] \in left' \cup {0}
    PROVE  Memory'
<1>1. hub # Idle => hub.upgrade \in Upgrades
  BY DEF TypeInv, TypeOK, Numbered, Upgrades
<1>2. AcceptedOnce'
  <2>1. ASSUME hub'.step \in Early
        PROVE  task'[hub'.upgrade] = "none" /\ New(hub'.upgrade) \notin there'
    <3>1. hub' # Idle /\ hub # Idle /\ hub'.upgrade = hub.upgrade /\ hub.step \in Early
      BY <2>1 DEF Idle, Early
    <3> QED BY <1>1, <2>1, <3>1 DEF Memory, AcceptedOnce, Early
  <2> QED BY <2>1 DEF Memory, AcceptedOnce, Early
<1>3. \A u \in Upgrades : Cleared(u) => Cleared(u)'
  BY DEF Cleared
<1>4. ClonesAreCleared'
  <2>1. \A u \in Upgrades : proc'[Clone(u)] = "serving" => Cleared(u)'
    BY <1>3 DEF Memory, ClonesAreCleared, Cleared
  <2>2. ASSUME hub'.step \in Late PROVE Cleared(hub.upgrade)' /\ hub'.upgrade = hub.upgrade
    <3>1. hub' # Idle /\ hub # Idle /\ hub'.upgrade = hub.upgrade /\ hub.upgrade \in Upgrades
      BY <1>1, <2>2 DEF Idle, Late
    <3> QED BY <1>3, <2>2, <3>1 DEF Memory, ClonesAreCleared, Late
  <2>3. (\A d \in Deployers : marker[d] # 0 => Cleared(marker[d]))'
    BY DEF Memory, ClonesAreCleared, Cleared
  <2> QED BY <2>1, <2>2, <2>3 DEF ClonesAreCleared, Late, Cleared
<1>5. Inherited' /\ ClonesRemembered'
  BY DEF Memory, Inherited, ClonesRemembered
<1> QED BY <1>2, <1>4, <1>5 DEF Memory

(* OLD's request goes on, or fails: its clone is serving, or left to nobody. *)
LEMMA RequestKeeps ==
    ASSUME TypeInv, Memory, StartClone \/ CloneAnswers \/ InjectContext \/ Trigger \/ RequestFails
    PROVE  Memory'
<1>1. /\ proc \in [Deployers -> ProcPhases] /\ task \in [Upgrades -> TaskPhases]
      /\ \A u \in Upgrades : Clone(u) \in Deployers
  BY Names DEF TypeInv, TypeOK
<1>2. ASSUME NEW u \in Upgrades, task' \in {task, [task EXCEPT ![u] = "accepted"]},
             New(u) \notin there
      PROVE  \A v \in Upgrades : task'[v] = "accepted" => task[v] = "accepted" \/ New(v) \notin there
  BY <1>1, <1>2
<1>3. CASE StartClone
  <2>1. /\ hub'.step = "started" /\ hub.step = "made" /\ hub' # Idle /\ hub # Idle
        /\ hub'.upgrade = hub.upgrade /\ hub.upgrade \in Upgrades
    BY <1>3, HubStepTypes DEF StartClone
  <2>2. \A u \in Upgrades : proc'[Clone(u)] = "serving" => proc[Clone(u)] = "serving"
    BY <1>1, <1>3, <2>1 DEF StartClone
  <2> QED BY <1>3, <2>1, <2>2, QuietKeeps DEF StartClone, Early, Late, host, files, told
<1>4. CASE CloneAnswers
  <2>1. /\ hub'.step = "ready" /\ hub.step = "started" /\ hub' # Idle /\ hub # Idle
        /\ hub'.upgrade = hub.upgrade
    BY <1>4, HubStepTypes DEF CloneAnswers
  <2> QED BY <1>4, <2>1, QuietKeeps DEF CloneAnswers, Early, Late, host, files, told
<1>5. CASE InjectContext
  <2>1. /\ hub'.step = "injected" /\ hub.step = "ready" /\ hub' # Idle /\ hub # Idle
        /\ hub'.upgrade = hub.upgrade
    BY <1>5, HubStepTypes DEF InjectContext
  <2> QED BY <1>5, <2>1, QuietKeeps DEF InjectContext, Early, Late, host, files, told
<1>6. CASE Trigger
  <2>1. /\ hub'.step = "triggered" /\ hub.step = "injected" /\ hub' # Idle /\ hub # Idle
        /\ hub'.upgrade = hub.upgrade /\ hub.upgrade \in Upgrades
    BY <1>6, HubStepTypes DEF Trigger
  <2>2. New(hub.upgrade) \notin there
    BY <2>1 DEF Memory, AcceptedOnce
  <2>3. \A v \in Upgrades : task'[v] = "accepted" => task[v] = "accepted" \/ New(v) \notin there
    BY <1>2, <1>6, <2>1, <2>2 DEF Trigger
  <2> QED BY <1>6, <2>1, <2>3, QuietKeeps DEF Trigger, Early, Late, host, files, told
<1>7. CASE RequestFails
  <2>1. /\ hub' = Idle /\ hub # Idle /\ hub.step \in Early /\ hub.upgrade \in Upgrades
    BY <1>7, HubStepTypes DEF RequestFails, Early
  <2>2. New(hub.upgrade) \notin there
    BY <2>1 DEF Memory, AcceptedOnce, Early
  <2>3. \A v \in Upgrades : task'[v] = "accepted" => task[v] = "accepted" \/ New(v) \notin there
    BY <1>2, <1>7, <2>1, <2>2 DEF RequestFails
  <2>4. hub'.step \notin Early /\ hub'.step \notin Late
    BY <2>1 DEF Idle, Early, Late
  <2>5. /\ UNCHANGED <<there, marker, proc>> /\ left' = left \cup {hub.upgrade}
    BY <1>7 DEF RequestFails, host, files
  <2> QED BY <2>1, <2>3, <2>4, <2>5, QuietKeeps
<1> QED BY <1>3, <1>4, <1>5, <1>6, <1>7

(* The clone OLD's marker named so far is gone, left, or the new clone's.    *)
LEMMA MarkerKeeps == ASSUME TypeInv, Memory, WriteMarker PROVE Memory'
<1>1. /\ marker \in [Deployers -> 0 .. MaxUpgrades] /\ Old \in Deployers /\ Old \in there
  BY Names DEF TypeInv, TypeOK, Lasting
<1>2. /\ hub' = Idle /\ hub # Idle /\ hub.step = "triggered" /\ hub.upgrade \in Upgrades
      /\ hub'.step \notin Early /\ hub'.step \notin Late
      /\ UNCHANGED <<there, proc, task>> /\ left \subseteq left'
  BY HubStepTypes DEF WriteMarker, Idle, Early, Late, host
<1>3. CASE left' = left \cup {hub.upgrade} /\ UNCHANGED marker
  BY <1>2, <1>3, QuietKeeps
<1>4. CASE marker' = [marker EXCEPT ![Old] = hub.upgrade] /\ UNCHANGED left
  <2>1. /\ \A u \in Upgrades : marker'[Clone(u)] = marker[Clone(u)]
        /\ \A d \in Deployers : d # Old => marker'[d] = marker[d]
        /\ marker'[Old] = hub.upgrade
    BY <1>1, <1>4, Names
  <2>2. Cleared(hub.upgrade)
    BY <1>2 DEF Memory, ClonesAreCleared
  <2>3. \A u \in Upgrades : Cleared(u) => Cleared(u)'
    BY <1>4, <2>1 DEF Cleared
  <2>4. \A d \in Deployers : marker[d] # 0 => marker[d] \in Upgrades
    BY <1>1, Numbers
  <2>5. ClonesAreCleared'
    <3>1. \A u \in Upgrades : proc[Clone(u)] = "serving" => Cleared(u)'
      BY <2>3 DEF Memory, ClonesAreCleared
    <3>2. \A d \in Deployers : marker'[d] # 0 => marker'[d] \in Upgrades /\ Cleared(marker'[d])
      BY <1>2, <2>1, <2>2, <2>4 DEF Memory, ClonesAreCleared
    <3>3. (\A d \in Deployers : marker[d] # 0 => Cleared(marker[d]))'
      BY <1>4, <2>1, <3>2 DEF Cleared
    <3> QED BY <1>2, <3>1, <3>3 DEF ClonesAreCleared, Late
  <2>6. AcceptedOnce'
    BY <1>2 DEF Memory, AcceptedOnce, Early
  <2>7. Inherited'
    BY <1>2 DEF Inherited
  <2>8. ASSUME NEW u \in Upgrades \ left, Clone(u) \in there
        PROVE  \E d \in there \ {Clone(u)} : marker'[d] = u
    <3>1. CASE u = hub.upgrade
      BY <1>1, <2>1, <3>1, Names
    <3>2. CASE u # hub.upgrade
      <4>1. PICK d \in there \ {Clone(u)} : marker[d] = u
        BY <2>8, <3>2 DEF Memory, ClonesRemembered
      <4>2. marker[Old] # u
        BY <1>2, <2>2, <2>8, Numbers DEF Memory, Inherited, Cleared
      <4> QED BY <2>1, <4>1, <4>2 DEF TypeInv, TypeOK
    <3> QED BY <3>1, <3>2
  <2>9. ClonesRemembered'
    BY <1>2, <1>4, <2>8 DEF ClonesRemembered
  <2> QED BY <2>5, <2>6, <2>7, <2>9 DEF Memory
<1> QED BY <1>3, <1>4 DEF WriteMarker

(* A fresh number belongs to nobody; its clone is the request's, or left.    *)
LEMMA AskingKeeps ==
    ASSUME TypeInv, Memory, AskInPlace \/ CreateClone \/ CreateFails PROVE Memory'
<1> DEFINE n == asked + 1
<1>1. /\ marker \in [Deployers -> 0 .. MaxUpgrades] /\ Old \in Deployers /\ asked \in Nat
      /\ task \in [Upgrades -> TaskPhases] /\ there \subseteq Deployers
      /\ \A u \in Upgrades : u \in Nat
  BY Names, Numbers DEF TypeInv, TypeOK
<1>2. asked' = n /\ n \in Upgrades /\ n > asked /\ hub = Idle
  <2>1. Free /\ asked' = asked + 1
    BY DEF AskInPlace, CreateClone, CreateFails
  <2> QED BY <2>1, Numbers DEF Free, TypeInv, TypeOK
<1>3. /\ Clone(n) \notin there /\ New(n) \notin there /\ Clone(n) \in Deployers
      /\ proc[Clone(n)] = "down" /\ task[n] = "none"
      /\ \A d \in Deployers : marker[d] # n
  BY <1>1, <1>2, Names DEF TypeInv, Numbered
<1>4. hub.step \notin Early /\ hub.step \notin Late
  BY <1>2 DEF Idle, Early, Late
<1>5. CASE AskInPlace
  <2>1. \A v \in Upgrades : task'[v] = "accepted" => task[v] = "accepted" \/ New(v) \notin there
    BY <1>1, <1>2, <1>3, <1>5 DEF AskInPlace
  <2>2. UNCHANGED <<there, marker, hub, left, proc>>
    BY <1>5 DEF AskInPlace, host, files
  <2> QED BY <1>2, <1>4, <2>1, <2>2, QuietKeeps
<1>6. CASE CreateClone
  <2>1. /\ there' = there \cup {Clone(n)} /\ hub' = [step |-> "made", upgrade |-> n]
        /\ marker' = [marker EXCEPT ![Clone(n)] = marker[Old]]
        /\ UNCHANGED <<proc, task, left>>
    BY <1>2, <1>6 DEF CreateClone
  <2>2. /\ \A d \in Deployers : d # Clone(n) => marker'[d] = marker[d]
        /\ marker'[Clone(n)] = marker[Old] /\ marker'[Old] = marker[Old]
    BY <1>1, <1>2, <1>3, <2>1, Names
  <2>3. \A u \in Upgrades : u # n => marker'[Clone(u)] = marker[Clone(u)]
    BY <1>2, <2>2, Names, OtherNames
  <2>4. AcceptedOnce'
    <3>1. \A u \in Upgrades : New(u) \in there' => New(u) \in there
      BY <1>2, <2>1, OtherNames, Names
    <3>2. hub'.upgrade = n
      BY <2>1
    <3> QED BY <1>2, <1>3, <2>1, <3>1, <3>2 DEF Memory, AcceptedOnce
  <2>5. ClonesAreCleared'
    <3>1. \A u \in Upgrades : u # n => (Cleared(u) => Cleared(u)')
      BY <2>1, <2>3 DEF Cleared
    <3>2. \A u \in Upgrades : proc'[Clone(u)] = "serving" => Cleared(u)'
      BY <1>3, <2>1, <3>1 DEF Memory, ClonesAreCleared
    <3>3. \A d \in Deployers : marker'[d] # 0 =>
             marker'[d] \in Upgrades /\ marker'[d] # n /\ Cleared(marker'[d])
      <4>1. \A d \in Deployers : marker[d] # 0 =>
               marker[d] \in Upgrades /\ marker[d] # n /\ Cleared(marker[d])
        BY <1>1, <1>3, Numbers DEF Memory, ClonesAreCleared
      <4> QED BY <1>1, <2>2, <4>1
    <3>4. (\A d \in Deployers : marker[d] # 0 => Cleared(marker[d]))'
      BY <2>1, <2>3, <3>3 DEF Cleared
    <3>5. hub'.step \notin Late
      BY <2>1 DEF Late
    <3> QED BY <3>2, <3>4, <3>5 DEF ClonesAreCleared, Late
  <2>6. Inherited'
    BY <2>1, <2>2 DEF Inherited
  <2>7. ClonesRemembered'
    <3>1. hub' # Idle /\ hub'.upgrade = n
      BY <2>1 DEF Idle
    <3>2. ASSUME NEW u \in Upgrades \ left, u # n, Clone(u) \in there'
          PROVE  \E d \in there' \ {Clone(u)} : marker'[d] = u
      <4>1. Clone(u) \in there
        BY <1>2, <2>1, <3>2, OtherNames
      <4>2. PICK d \in there \ {Clone(u)} : marker[d] = u
        BY <1>2, <3>2, <4>1 DEF Memory, ClonesRemembered
      <4>3. d \in Deployers /\ d # Clone(n)
        BY <1>1, <1>3, <4>2
      <4> QED BY <2>1, <2>2, <4>2, <4>3
    <3> QED BY <2>1, <3>1, <3>2 DEF ClonesRemembered
  <2> QED BY <2>4, <2>5, <2>6, <2>7 DEF Memory
<1>7. CASE CreateFails
  <2>1. /\ UNCHANGED <<marker, hub, proc, task>> /\ left \subseteq left'
        /\ \/ there' = there
           \/ there' = there \cup {Clone(n)} /\ n \in left'
    BY <1>2, <1>7 DEF CreateFails, files
  <2>2. CASE there' = there
    BY <1>2, <1>4, <2>1, <2>2, QuietKeeps
  <2>3. CASE there' = there \cup {Clone(n)} /\ n \in left'
    <3>1. \A u \in Upgrades : New(u) \in there' => New(u) \in there
      BY <1>2, <2>3, OtherNames, Names
    <3>2. AcceptedOnce' /\ ClonesAreCleared' /\ Inherited'
      BY <1>2, <1>4, <2>1, <3>1
         DEF Memory, AcceptedOnce, ClonesAreCleared, Cleared, Inherited, Early, Late
    <3>3. \A u \in Upgrades \ left' : Clone(u) \in there' => Clone(u) \in there
      BY <1>2, <2>3, OtherNames
    <3>4. ClonesRemembered'
      BY <1>2, <2>1, <2>3, <3>3 DEF Memory, ClonesRemembered
    <3> QED BY <3>2, <3>4 DEF Memory
  <2> QED BY <2>1, <2>2, <2>3
<1> QED BY <1>5, <1>6, <1>7

(* The successor's copy of OLD's marker names what OLD's names.              *)
LEMMA CopyKeeps == ASSUME TypeInv, Memory, NEW u \in Upgrades, CopyOld(u) PROVE Memory'
<1>1. /\ marker \in [Deployers -> 0 .. MaxUpgrades] /\ Old \in Deployers
      /\ task \in [Upgrades -> TaskPhases] /\ there \subseteq Deployers
      /\ hub # Idle => hub.upgrade \in Upgrades
  BY Names DEF TypeInv, TypeOK, Numbered, Upgrades
<1>2. /\ task[u] = "accepted" /\ task' = [task EXCEPT ![u] = "copied"]
      /\ there' = there \cup {New(u)} /\ left \subseteq left'
      /\ marker' = [marker EXCEPT ![New(u)] = marker[Old]] /\ UNCHANGED <<proc, hub>>
  BY DEF CopyOld, TaskSteps
<1>3. New(u) \notin there /\ New(u) \in Deployers
  BY <1>2, Names DEF Memory, AcceptedOnce
<1>4. /\ \A d \in Deployers : d # New(u) => marker'[d] = marker[d]
      /\ marker'[New(u)] = marker[Old] /\ marker'[Old] = marker[Old]
      /\ \A v \in Upgrades : marker'[Clone(v)] = marker[Clone(v)]
  BY <1>1, <1>2, <1>3, Names, OtherNames
<1>5. \A v \in Upgrades : /\ task'[v] = "accepted" => task[v] = "accepted" /\ v # u
                          /\ New(v) \in there' => New(v) \in there \/ v = u
                          /\ Clone(v) \in there' => Clone(v) \in there
                          /\ task[v] = "none" => task'[v] = "none" /\ v # u
  BY <1>1, <1>2, OtherNames, Names
<1>6. AcceptedOnce'
  <2>1. hub.step \in Early => hub.upgrade \in Upgrades
    BY <1>1 DEF Idle, Early
  <2> QED BY <1>2, <1>5, <2>1 DEF Memory, AcceptedOnce, Early
<1>7. ClonesAreCleared'
  <2>1. \A v \in Upgrades : Cleared(v) => Cleared(v)'
    BY <1>2, <1>4 DEF Cleared
  <2>2. \A d \in Deployers : marker'[d] # 0 => marker'[d] \in Upgrades /\ Cleared(marker'[d])
    <3>1. \A d \in Deployers : marker[d] # 0 => marker[d] \in Upgrades /\ Cleared(marker[d])
      BY <1>1, Numbers DEF Memory, ClonesAreCleared
    <3> QED BY <1>1, <1>4, <3>1
  <2>3. (\A d \in Deployers : marker[d] # 0 => Cleared(marker[d]))'
    BY <1>2, <1>4, <2>2 DEF Cleared
  <2>4. hub.step \in Late => hub.upgrade \in Upgrades
    BY <1>1 DEF Idle, Late
  <2> QED BY <1>2, <2>1, <2>3, <2>4 DEF Memory, ClonesAreCleared, Late
<1>8. Inherited'
  <2>1. marker[Old] # 0 => marker[Old] \in Upgrades
    BY <1>1, Numbers
  <2> QED BY <1>1, <1>2, <1>4, <1>5, <2>1 DEF Memory, Inherited
<1>9. ClonesRemembered'
  <2>1. ASSUME NEW v \in Upgrades \ left, NEW d \in there \ {Clone(v)}, marker[d] = v
        PROVE  d \in there' \ {Clone(v)} /\ marker'[d] = v
    BY <1>1, <1>2, <1>3, <1>4, <2>1
  <2> QED BY <1>2, <1>5, <2>1 DEF Memory, ClonesRemembered
<1> QED BY <1>6, <1>7, <1>8, <1>9 DEF Memory

LEMMA TasksRemember == ASSUME TypeInv, Memory, NEW u \in Upgrades, TaskStep(u) PROVE Memory'
<1>1. CASE CopyOld(u)
  BY <1>1, CopyKeeps
<1>2. CASE ~CopyOld(u)
  <2>1. /\ task \in [Upgrades -> TaskPhases] /\ proc \in [Deployers -> ProcPhases]
        /\ \A v \in Upgrades : New(u) # Clone(v) /\ Clone(v) \in Deployers
    BY Names, OtherNames DEF TypeInv, TypeOK
  <2>2. UNCHANGED <<there, marker, hub, left>>
    BY <1>2 DEF TaskStep, TaskFails, SwitchMarks, SwitchStarts, SwitchEnds, SwitchFails, host,
                files, told
  <2>3. /\ \A v \in Upgrades : task'[v] = "accepted" => task[v] = "accepted"
        /\ \A v \in Upgrades : task[v] = "none" => task'[v] = "none"
    BY <1>2, <2>1 DEF TaskStep, TaskFails, SwitchMarks, SwitchStarts, SwitchEnds, SwitchFails,
                      TaskSteps
  <2>4. \A v \in Upgrades : proc'[Clone(v)] = proc[Clone(v)]
    BY <1>2, <2>1 DEF TaskStep, TaskFails, SwitchMarks, SwitchStarts, SwitchEnds, SwitchFails,
                      host
  <2> QED BY <2>2, <2>3, <2>4, QuietKeeps
<1> QED BY <1>1, <1>2

(* Destroying a clone forgets nobody else: what it was to destroy itself is  *)
(* gone or left.                                                             *)
LEMMA DestroyKeeps == ASSUME TypeInv, Memory, NEW d \in Deployers, DestroyClone(d) PROVE Memory'
<1> DEFINE c == marker[d]
<1>1. /\ marker \in [Deployers -> 0 .. MaxUpgrades] /\ proc \in [Deployers -> ProcPhases]
      /\ Old \in Deployers /\ there \subseteq Deployers
      /\ hub # Idle => hub.upgrade \in Upgrades
  BY Names DEF TypeInv, TypeOK, Numbered, Upgrades
<1>2. /\ marker' = [marker EXCEPT ![d] = 0] /\ UNCHANGED hub
      /\ left \subseteq left' /\ left' \subseteq left \cup {c} /\ there' \subseteq there
      /\ c \in left' \/ there' = there \ {Clone(c)}
      /\ \A e \in Deployers : e # d => proc'[e] \in {"down", proc[e]}
      /\ \A v \in Upgrades : task'[v] \in {"none", task[v]}
      /\ there \ {Clone(c)} \subseteq there'
  BY <1>1, EndTypes DEF DestroyClone
<1>3. /\ \A e \in Deployers : e # d => marker'[e] = marker[e]
      /\ marker'[d] = 0
      /\ \A e \in Deployers : marker'[e] \in {0, marker[e]}
      /\ \A v \in Upgrades : marker'[Clone(v)] \in {0, marker[Clone(v)]}
  BY <1>1, <1>2, Names
<1>4. \A v \in Upgrades : Cleared(v) => Cleared(v)'
  BY <1>2, <1>3 DEF Cleared
<1>5. \A e \in Deployers : marker[e] # 0 => marker[e] \in Upgrades /\ Cleared(marker[e])
  BY <1>1, Numbers DEF Memory, ClonesAreCleared
<1>6. AcceptedOnce'
  <2>1. hub.step \in Early => hub.upgrade \in Upgrades
    BY <1>1 DEF Idle, Early
  <2> QED BY <1>2, <2>1 DEF Memory, AcceptedOnce, Early
<1>7. ClonesAreCleared'
  <2>1. ASSUME NEW v \in Upgrades, proc'[Clone(v)] = "serving" PROVE Cleared(v)'
    <3>1. CASE Clone(v) = d
      BY <1>3, <3>1 DEF Cleared
    <3>2. CASE Clone(v) # d
      BY <1>2, <1>4, <2>1, <3>2, Names DEF Memory, ClonesAreCleared
    <3> QED BY <3>1, <3>2
  <2>2. \A e \in Deployers : marker'[e] # 0 => marker'[e] \in Upgrades /\ Cleared(marker'[e])
    BY <1>3, <1>5
  <2>3. (\A e \in Deployers : marker[e] # 0 => Cleared(marker[e]))'
    <3>1. ASSUME NEW e \in Deployers, marker'[e] # 0
          PROVE  marker'[Clone(marker'[e])] \in left' \cup {0}
      BY <1>2, <1>3, <2>2, <3>1 DEF Cleared
    <3> QED BY <3>1 DEF Cleared
  <2>4. hub.step \in Late => hub.upgrade \in Upgrades
    BY <1>1 DEF Idle, Late
  <2> QED BY <1>2, <1>4, <2>1, <2>3, <2>4 DEF Memory, ClonesAreCleared, Late
<1>8. Inherited'
  <2> SUFFICES ASSUME hub # Idle, marker'[Old] \notin left' \cup {0}, Clone(marker'[Old]) \in there'
               PROVE  marker'[Clone(hub.upgrade)] = marker'[Old]
    BY <1>2 DEF Inherited
  <2>1. marker'[Old] = marker[Old] /\ marker[Old] # 0 /\ marker[Old] \notin left
    BY <1>1, <1>2, <1>3
  <2>2. marker[Clone(hub.upgrade)] = marker[Old] /\ Clone(hub.upgrade) \in Deployers
    BY <1>1, <1>2, <2>1, Names DEF Memory, Inherited
  <2>3. CASE Clone(hub.upgrade) = d
    BY <1>2, <2>1, <2>2, <2>3
  <2>4. CASE Clone(hub.upgrade) # d
    BY <1>3, <2>1, <2>2, <2>4
  <2> QED BY <2>3, <2>4
<1>9. ClonesRemembered'
  <2> SUFFICES ASSUME NEW v \in Upgrades \ left', Clone(v) \in there', hub = Idle \/ hub.upgrade # v
               PROVE  \E e \in there' \ {Clone(v)} : marker'[e] = v
    BY <1>2 DEF ClonesRemembered
  <2>1. v # c
    BY <1>2
  <2>2. PICK e \in there \ {Clone(v)} : marker[e] = v
    BY <1>2 DEF Memory, ClonesRemembered
  <2>3. e # d /\ e \in Deployers
    BY <1>1, <2>1, <2>2
  <2>4. e # Clone(c)
    <3>1. ASSUME e = Clone(c) PROVE FALSE
      <4>1. c # 0
        BY <2>3, <3>1, Names
      <4>2. marker[Clone(c)] \in left \cup {0}
        BY <1>5, <4>1 DEF Cleared
      <4> QED BY <1>2, <2>2, <3>1, <4>2, Numbers
    <3> QED BY <3>1
  <2> QED BY <1>2, <1>3, <2>2, <2>3, <2>4
<1> QED BY <1>6, <1>7, <1>8, <1>9 DEF Memory

LEMMA BootsRemember == ASSUME TypeInv, Memory, NEW d \in Deployers, Boot(d) PROVE Memory'
<1>1. proc \in [Deployers -> ProcPhases] /\ \A v \in Upgrades : Clone(v) \in Deployers
  BY Names DEF TypeInv, TypeOK
<1>2. ASSUME UNCHANGED <<there, marker, task, hub>>, left \subseteq left',
             NEW phase \in {"adopting", "destroying", "serving"},
             proc' = [proc EXCEPT ![d] = phase],
             phase = "serving" /\ d[1] = "clone" => marker[d] \in left' \cup {0}
      PROVE  Memory'
  <2>1. \A v \in Upgrades : proc'[Clone(v)] = "serving" =>
           proc[Clone(v)] = "serving" \/ marker[Clone(v)] \in left' \cup {0}
    BY <1>1, <1>2, Names
  <2> QED BY <1>2, <2>1, QuietKeeps
<1>3. CASE NothingToFinalize(d) \/ FinalizeFails(d)
  BY <1>2, <1>3 DEF NothingToFinalize, FinalizeFails, host, files, told
<1>4. CASE NothingToAdopt(d) \/ AdoptClone(d)
  BY <1>2, <1>4 DEF NothingToAdopt, AdoptClone, host, files, told
<1>5. CASE DestroyThrows(d)
  BY <1>2, <1>5 DEF DestroyThrows, host, files
<1>6. CASE Finalize(d)
  <2>1. UNCHANGED <<there, marker>> /\ left' = left \cup LeftBy({Old})
        /\ hub' = HubAfter({Old}) /\ task' = TasksAfter({Old})
        /\ proc' = [Stopped({Old}) EXCEPT ![d] = "adopting"]
    BY <1>6 DEF Finalize
  <2>2. /\ Stopped({Old}) \in [Deployers -> ProcPhases]
        /\ \A e \in Deployers : Stopped({Old})[e] \in {"down", proc[e]}
    BY EndTypes
  <2>3. \A v \in Upgrades : proc'[Clone(v)] = "serving" => proc[Clone(v)] = "serving"
    BY <1>1, <2>1, <2>2
  <2>4. /\ hub' \in {hub, Idle} /\ (hub # Idle /\ hub' = Idle => hub.upgrade \in left')
        /\ \A v \in Upgrades : task'[v] \in {"none", task[v]}
    BY <2>1, EndTypes
  <2>5. Idle.step \notin Early /\ Idle.step \notin Late
    BY DEF Idle, Early, Late
  <2> QED BY <2>1, <2>3, <2>4, <2>5, QuietKeeps
<1> QED BY <1>3, <1>4, <1>5, <1>6, DestroyKeeps DEF Boot

LEMMA EndsRemember ==
    ASSUME TypeInv, Memory,
           DetachedStop \/ HostReboots \/ AdminRecovers \/ \E d \in Deployers : Restart(d)
    PROVE  Memory'
<1>1. /\ proc \in [Deployers -> ProcPhases] /\ \A v \in Upgrades : Clone(v) \in Deployers
      /\ Idle.step \notin Early /\ Idle.step \notin Late
  BY Names DEF TypeInv, TypeOK, Idle, Early, Late
<1>2. ASSUME NEW S, UNCHANGED <<there, marker>>, hub' = HubAfter(S), task' = TasksAfter(S),
             left' = left \cup LeftBy(S),
             \A v \in Upgrades : proc'[Clone(v)] = "serving" => proc[Clone(v)] = "serving"
      PROVE  Memory'
  <2>1. /\ hub' \in {hub, Idle} /\ (hub # Idle /\ hub' = Idle => hub.upgrade \in left')
        /\ \A v \in Upgrades : task'[v] \in {"none", task[v]}
    BY <1>2, EndTypes
  <2> QED BY <1>1, <1>2, <2>1, QuietKeeps
<1>3. CASE DetachedStop
  <2>1. PICK S \in {{}, {Old}} : /\ proc' = Stopped(S) /\ task' = TasksAfter(S)
                               /\ hub' = HubAfter(S) /\ left' = left \cup LeftBy(S)
    BY <1>3 DEF DetachedStop
  <2>2. \A v \in Upgrades : proc'[Clone(v)] = "serving" => proc[Clone(v)] = "serving"
    BY <1>1, <2>1, EndTypes
  <2> QED BY <1>2, <1>3, <2>1, <2>2 DEF DetachedStop, host, files
<1>4. ASSUME NEW d \in Deployers, Restart(d) PROVE Memory'
  <2>1. \A v \in Upgrades : proc'[Clone(v)] = "serving" => proc[Clone(v)] = "serving"
    BY <1>1, <1>4 DEF Restart
  <2> QED BY <1>2, <1>4, <2>1 DEF Restart, host, files
<1>5. CASE HostReboots
  <2>1. \A v \in Upgrades : proc'[Clone(v)] # "serving"
    BY <1>1, <1>5 DEF HostReboots
  <2> QED BY <1>2, <1>5, <2>1 DEF HostReboots, host, files
<1>6. CASE AdminRecovers
  BY <1>6, QuietKeeps DEF AdminRecovers, files, told
<1> QED BY <1>3, <1>4, <1>5, <1>6

LEMMA StepRemembers == TypeInv /\ Memory /\ [Next]_vars => Memory'
<1> SUFFICES ASSUME TypeInv, Memory, [Next]_vars PROVE Memory'
  OBVIOUS
<1>1. CASE UNCHANGED vars
  BY <1>1, QuietKeeps DEF vars
<1>2. CASE HubStep
  BY <1>2, RequestKeeps, MarkerKeeps, AskingKeeps DEF HubStep
<1> QED BY <1>1, <1>2, TasksRemember, BootsRemember, EndsRemember DEF Next

(* For any number of upgrades, with every step failing, the deployers        *)
(* restarting and the host rebooting wherever they may: a clone that exists  *)
(* is in the hands of the request that made it, or named by the marker of    *)
(* another deployer, but for those left for a reason the code states         *)
(* (clone-cleanup-service.mts:36).                                           *)
THEOREM NoCloneIsForgotten == Spec => []ClonesRemembered
<1>1. Init => Memory
  <2> SUFFICES ASSUME Init PROVE Memory
    OBVIOUS
  <2>1. \A u \in Upgrades : Clone(u) \in Deployers /\ Clone(u) # Old /\ New(u) # Old
    BY Names
  <2> QED BY <2>1
     DEF Init, Memory, AcceptedOnce, ClonesAreCleared, Cleared, Inherited, ClonesRemembered, Idle
<1>2. Memory => ClonesRemembered
  BY DEF Memory
<1> QED BY <1>1, <1>2, InitTypes, StepTypes, StepRemembers, PTL DEF Spec
=============================================================================
