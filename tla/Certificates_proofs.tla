------------------------ MODULE Certificates_proofs ------------------------
(* Certificates and their dialog, for every set of containers and bounds.   *)
EXTENDS CertificateDialog, TLAPS

USE DeployerAssumption, DialogAssumption

----------------------------------------------------------------------------
(* The inductive invariant.                                                 *)

CaCounted == \A d \in Deployers : ca[d] <= turns + 1

\* A certificate the hub gave away: of the CA known before, or of a later one.
FromHub(k, x) ==
    x \in SomeCa /\ x[1] = "hub" /\ k[2] <= x[2] /\ x[2] <= ca["hub"]

\* A certificate that goes with a CA of the hub: not older, if answers do not mix.
Fits(x, k, how) ==
    x # NoCa => FromHub(NoCa, x) /\ (how # "mixed" => FromHub(k, x))

\* The caches are filled in order, and up to date unless the hub's CA changed.
CacheInv ==
    /\ caCache # NoCa => FromHub(NoCa, caCache) /\ (known = "present" => caCache = AtHub)
    /\ \A c \in Containers :
          /\ leafCache[c] # NoCa => caCache # NoCa
          /\ Fits(leafCache[c], caCache, known)

\* What is about to be written: never older than the CA it goes with, and of the
\* present one if that did not change meanwhile.
Ordered(o) ==
    /\ o.kind = "local" => o.signed = o.ca /\ o.ca # NoCa /\ o.known # "mixed"
    /\ o.kind = "asking" => /\ o.ca # NoCa => FromHub(NoCa, o.ca)
                            /\ o.signed = NoCa /\ o.cached = NoCa /\ o.known # "mixed"
    /\ o.kind = "remote" => /\ FromHub(NoCa, o.ca)
                            /\ Fits(o.signed, o.ca, o.known) /\ Fits(o.cached, o.ca, o.known)
    /\ o.kind # "idle" /\ o.known = "present" /\ o.ca # NoCa => o.ca = Own(o.ca[1])

\* How a task stands to the caches of the provider it shares: it has their CA, or
\* another one since answers were mixed.
Shares(o, cache, how) ==
    ~o.orphan =>
        /\ o.kind = "asking" /\ o.ca # NoCa /\ how = "present" => o.ca = AtHub
        /\ o.kind = "remote" => cache # NoCa /\ (how # "mixed" => o.ca = cache)
        /\ o.kind = "remote" /\ o.known = "mixed" => how = "mixed"

OpInv  == \A c \in Containers :
             /\ Ordered(op[c]) /\ Shares(op[c], caCache, known)
             /\ op[c].kind \in {"asking", "remote"} => Deployer[c] = "spoke"
RunInv == \A d \in Deployers :
             /\ run[d].fresh => run[d].ca = Own(d)
             /\ run[d].todo # {} => run[d].ca # NoCa

CertInv == CacheInv /\ OpInv /\ RunInv /\ ChainNotNewer /\ FreshSignatureHeals

----------------------------------------------------------------------------
(* What a step of the dialog, or of anything else, does to the world.       *)

WorldStep ==
    \/ \E d \in Deployers : ReplaceCa(d) \/ ListForRenewal(d) \/ EndRenewal(d)
    \/ \E d \in Deployers, forced \in BOOLEAN, hosts \in SUBSET Containers :
          BeginRenewal(d, forced, hosts)
    \/ \E e \in {"hub", "own"} : SaveEntry(e) \/ SelectEntry(e)
    \/ RestartSpoke
    \/ \E c \in Containers : Signing(c) \/ WriteRenewed(c) \/ ComesDue(c)
    \/ UNCHANGED world

(* A click and an answer change nothing but the page, and a request does     *)
(* nothing that could not happen without the dialog.                        *)
LEMMA DialogSteps == ASSUME DialogTypeOK, [DialogNext]_all PROVE WorldStep
<1>1. CASE Elsewhere
  BY <1>1 DEF Elsewhere, Check, WorldStep
<1>2. CASE Restart
  BY <1>2 DEF Restart, WorldStep
<1>3. ASSUME NEW d \in Deployers, EndAndAnswer(d) PROVE WorldStep
  BY <1>3 DEF EndAndAnswer, WorldStep
<1>4. CASE Click
  <2>1. UNCHANGED world
    BY <1>4 DEF Click, ToggleRow, ToggleAll, RenewOne, RenewSelected, RenewAll,
                ReplaceByDialog, ProvisionPve, Ask
  <2> QED BY <2>1 DEF WorldStep
<1>5. ASSUME NEW k \in Slots, Serve(k) PROVE WorldStep
  <2>1. calls[k].hosts \in SUBSET Containers /\ At \in Deployers
    BY DEF DialogTypeOK, Mine, At, Pages
  <2>2. CASE ServeList(k) \/ ServeProvision(k)
    BY <2>2 DEF ServeList, ServeProvision, WorldStep
  <2>3. CASE ServeReplace(k)
    BY <2>1, <2>3 DEF ServeReplace, WorldStep
  <2>4. CASE ServeRenewal(k)
    <3>1. CASE BeginRenewal(At, TRUE, calls[k].hosts)
      BY <2>1, <3>1 DEF WorldStep
    <3>2. CASE UNCHANGED world
      BY <3>2 DEF WorldStep
    <3> QED BY <2>4, <3>1, <3>2 DEF ServeRenewal
  <2> QED BY <1>5, <2>2, <2>3, <2>4 DEF Serve
<1>6. ASSUME NEW k \in Slots, Arrives(k) \/ Fails(k) PROVE WorldStep
  <2>1. UNCHANGED world
    BY <1>6 DEF Arrives, Fails
  <2> QED BY <2>1 DEF WorldStep
<1>7. CASE UNCHANGED all
  BY <1>7 DEF all, vars, world, cas, mode, caches, disk, WorldStep
<1> QED BY <1>1, <1>2, <1>3, <1>4, <1>5, <1>6, <1>7 DEF DialogNext

----------------------------------------------------------------------------
(* Types of the world.                                                      *)

LEMMA CaTypes ==
    /\ NoCa \in AnyCa /\ Idle \in Ops /\ NoRun \in Runs /\ Empty \in [Containers -> AnyCa]
    /\ NoCa \notin SomeCa
  BY DEF NoCa, AnyCa, Idle, Ops, Known, NoRun, Runs, Empty, SomeCa, Deployers

LEMMA OwnTypes == TypeOK => \A d \in Deployers : Own(d) \in SomeCa /\ Own(d) \in AnyCa
  BY DEF TypeOK, Own, SomeCa, AnyCa

LEMMA OpUpdates ==
    ASSUME NEW o \in Ops
    PROVE  /\ o.ca \in AnyCa /\ o.signed \in AnyCa /\ o.cached \in AnyCa
           /\ o.known \in Known /\ o.orphan \in BOOLEAN
           /\ o.kind \in {"idle", "local", "asking", "remote"}
           /\ [o EXCEPT !.known = Past(@)] \in Ops /\ Orphaned(o) \in Ops
           /\ [o EXCEPT !.kind = "remote"] \in Ops
           /\ \A x \in AnyCa : [o EXCEPT !.signed = x] \in Ops /\ [o EXCEPT !.ca = x] \in Ops
  BY DEF Ops, Known, Past, Orphaned

LEMMA RunUpdates ==
    ASSUME NEW r \in Runs
    PROVE  /\ r.ca \in AnyCa /\ r.todo \subseteq Containers /\ r.fresh \in BOOLEAN
           /\ \A fresh \in BOOLEAN : [r EXCEPT !.fresh = fresh] \in Runs
           /\ \A c : [r EXCEPT !.todo = @ \ {c}] \in Runs
           /\ \A forced \in BOOLEAN, only \in SUBSET Containers :
                 [r EXCEPT !.on = TRUE, !.forced = forced, !.only = only] \in Runs
           /\ \A todo \in SUBSET Containers, x \in AnyCa :
                 [r EXCEPT !.on = TRUE, !.listed = TRUE, !.todo = todo, !.ca = x,
                           !.fresh = TRUE] \in Runs
  BY DEF Runs

Typed == TypeOK /\ CaCounted

LEMMA ReplaceCaTypes == ASSUME Typed, NEW d \in Deployers, ReplaceCa(d) PROVE Typed'
<1>1. ca[d] \in 1 .. MaxTurns /\ ca[d] + 1 \in 1 .. MaxTurns + 1
  BY DEF ReplaceCa, NextCa, Turn, Typed, TypeOK, CaCounted
<1>2. ca' \in [Deployers -> 1 .. MaxTurns + 1] /\ turns' \in 0 .. MaxTurns /\ CaCounted'
  BY <1>1 DEF ReplaceCa, NextCa, Turn, Typed, TypeOK, CaCounted
<1>3. foreign' \subseteq SomeCa
  BY <1>1 DEF ReplaceCa, Typed, TypeOK, SomeCa
<1>4. run' \in [Deployers -> Runs]
  <2>1. ASSUME NEW e \in Deployers PROVE [run[e] EXCEPT !.fresh = @ /\ e # d] \in Runs
    <3>1. run[e] \in Runs
      BY DEF Typed, TypeOK
    <3>2. (run[e].fresh /\ e # d) \in BOOLEAN
      OBVIOUS
    <3> QED BY <3>1, <3>2, RunUpdates
  <2> QED BY <2>1 DEF ReplaceCa
<1>5. op' \in [Containers -> Ops]
  BY OpUpdates DEF ReplaceCa, Typed, TypeOK
<1>6. settled' \in [Containers -> Deployers \cup {"nobody", "mixed"}] /\ known' \in Known
  BY DEF ReplaceCa, Typed, TypeOK, Past, Known
<1> QED BY <1>2, <1>3, <1>4, <1>5, <1>6 DEF ReplaceCa, Typed, TypeOK, mode, caches

LEMMA EntryTypes ==
    ASSUME Typed, NEW e \in {"hub", "own"}, SaveEntry(e) \/ SelectEntry(e) \/ RestartSpoke
    PROVE  Typed'
<1> USE DEF Typed, TypeOK, CaCounted, cas, caches, disk
<1>1. CASE SaveEntry(e)
  <2>1. turns' \in 0 .. MaxTurns /\ CaCounted'
    BY <1>1 DEF SaveEntry, Turn
  <2>2. provider' = "none" /\ caCache' \in AnyCa /\ leafCache' \in [Containers -> AnyCa]
        /\ known' \in Known /\ entry' \in {"hub", "own"}
    BY <1>1, CaTypes DEF SaveEntry, Forget, Known
  <2>3. op' \in [Containers -> Ops]
    BY <1>1, OpUpdates DEF SaveEntry
  <2> QED BY <1>1, <2>1, <2>2, <2>3 DEF SaveEntry
<1>2. CASE SelectEntry(e)
  BY <1>2 DEF SelectEntry, Turn
<1>3. CASE RestartSpoke
  <2>1. op' \in [Containers -> Ops] /\ run' \in [Deployers -> Runs]
    BY <1>3, CaTypes DEF RestartSpoke
  <2> QED BY <1>3, <2>1, CaTypes DEF RestartSpoke, Forget, Known
<1> QED BY <1>1, <1>2, <1>3

LEMMA RenewalTypes ==
    ASSUME Typed, NEW d \in Deployers,
           \/ ListForRenewal(d) \/ EndRenewal(d)
           \/ \E forced \in BOOLEAN, hosts \in SUBSET Containers : BeginRenewal(d, forced, hosts)
    PROVE  Typed'
<1>1. run' \in [Deployers -> Runs]
  <2>1. run \in [Deployers -> Runs]
    BY DEF Typed, TypeOK
  <2>2. CASE ListForRenewal(d)
    <3>1. PICK todo \in {Targets(d), {}} :
            run' = [run EXCEPT ![d] = [NoRun EXCEPT !.on = TRUE, !.listed = TRUE,
                                          !.todo = todo, !.ca = Own(d), !.fresh = TRUE]]
      BY <2>2 DEF ListForRenewal
    <3>2. todo \in SUBSET Containers /\ Own(d) \in AnyCa
      BY <3>1, OwnTypes DEF Targets, Typed
    <3>3. [NoRun EXCEPT !.on = TRUE, !.listed = TRUE, !.todo = todo, !.ca = Own(d),
                        !.fresh = TRUE] \in Runs
      BY <3>2, CaTypes, RunUpdates
    <3> QED BY <2>1, <3>1, <3>3
  <2>3. CASE EndRenewal(d)
    BY <2>1, <2>3, CaTypes DEF EndRenewal
  <2>4. ASSUME NEW forced \in BOOLEAN, NEW hosts \in SUBSET Containers,
               BeginRenewal(d, forced, hosts)
        PROVE  run' \in [Deployers -> Runs]
    <3>1. [NoRun EXCEPT !.on = TRUE, !.forced = forced, !.only = hosts] \in Runs
      BY CaTypes, RunUpdates
    <3> QED BY <2>1, <2>4, <3>1 DEF BeginRenewal
  <2> QED BY <2>2, <2>3, <2>4
<1>2. UNCHANGED <<cas, mode, caches, op, disk, turns>>
  BY DEF ListForRenewal, EndRenewal, BeginRenewal
<1> QED BY <1>1, <1>2 DEF Typed, TypeOK, CaCounted, cas, mode, caches, disk

LEMMA SettledTypes ==
    ASSUME TypeOK, NEW c, NEW d \in Deployers \cup {"nobody"}, NEW how, Settled(c, d, how)
    PROVE  /\ settled' \in [Containers -> Deployers \cup {"nobody", "mixed"}]
           /\ \A x \in Containers \ {c} : settled'[x] = settled[x]
           /\ c \in Containers =>
                 \/ how = "present" /\ settled'[c] = d
                 \/ how = "mixed" /\ settled'[c] = "mixed"
                 \/ settled'[c] = "nobody"
<1> DEFINE mark == CASE how = "present" -> d
                     [] how = "mixed"   -> "mixed"
                     [] OTHER           -> "nobody"
<1>1. \/ how = "present" /\ mark = d
      \/ how = "mixed" /\ mark = "mixed"
      \/ mark = "nobody"
  OBVIOUS
<1>2. settled' = [settled EXCEPT ![c] = mark]
  BY DEF Settled
<1> HIDE DEF mark
<1>3. mark \in Deployers \cup {"nobody", "mixed"}
  BY <1>1
<1>4. settled \in [Containers -> Deployers \cup {"nobody", "mixed"}]
  BY DEF TypeOK
<1>5. settled' \in [Containers -> Deployers \cup {"nobody", "mixed"}]
  BY <1>2, <1>3, <1>4
<1>6. \A x \in Containers \ {c} : settled'[x] = settled[x]
  BY <1>2, <1>4
<1>7. c \in Containers => settled'[c] = mark
  BY <1>2, <1>4
<1> QED BY <1>1, <1>5, <1>6, <1>7

LEMMA SigningTypes == ASSUME Typed, NEW c \in Containers, Signing(c) PROVE Typed'
<1>1. op \in [Containers -> Ops] /\ op[c] \in Ops
  BY DEF Typed, TypeOK
<1>2. CASE DeployLocally(c)
  <2>1. Own(Deployer[c]) \in AnyCa
    BY OwnTypes DEF Typed
  <2>2. op' \in [Containers -> Ops]
    <3>1. [Idle EXCEPT !.kind = "local", !.ca = Own(Deployer[c]),
                       !.signed = Own(Deployer[c]), !.known = "present"] \in Ops
      BY <2>1, CaTypes DEF Ops, Known
    <3> QED BY <1>1, <1>2, <3>1 DEF DeployLocally
  <2>3. provider' \in {"none", "local", "remote"}
    BY <1>2 DEF DeployLocally, Typed, TypeOK
  <2> QED BY <1>2, <2>2, <2>3 DEF DeployLocally, Typed, TypeOK, CaCounted, cas, caches, disk
<1>3. CASE DeployFromHub(c)
  <2> DEFINE kind == IF caCache = NoCa THEN "asking" ELSE "remote"
             how  == IF caCache = NoCa THEN "present" ELSE known
  <2>1. /\ caCache \in AnyCa /\ leafCache[c] \in AnyCa
        /\ kind \in {"asking", "remote"} /\ how \in Known
    BY DEF Typed, TypeOK, Known
  <2>2. op' = [op EXCEPT ![c] = [Idle EXCEPT !.kind = kind, !.ca = caCache,
                                             !.cached = leafCache[c], !.known = how]]
    BY <1>3 DEF DeployFromHub
  <2> HIDE DEF kind, how
  <2>3. op' \in [Containers -> Ops]
    BY <1>1, <2>1, <2>2, CaTypes DEF Ops
  <2> QED BY <1>3, <2>3 DEF DeployFromHub, Typed, TypeOK, CaCounted, cas, caches, disk
<1>6. CASE HubAnswers(c) \/ HubFails(c)
  <2>1. [op[c] EXCEPT !.ca = AtHub] \in Ops /\ Idle \in Ops
    BY <1>1, OpUpdates, OwnTypes, CaTypes DEF AtHub, Deployers, Typed
  <2>2. op' \in [Containers -> Ops]
    BY <1>1, <1>6, <2>1 DEF HubAnswers, HubFails
  <2> QED BY <1>6, <2>2
          DEF HubAnswers, HubFails, Typed, TypeOK, CaCounted, cas, mode, caches, disk
<1>7. CASE CaFromHub(c)
  <2>1. [op[c] EXCEPT !.kind = "remote"] \in Ops /\ op[c].ca \in AnyCa
    BY <1>1, OpUpdates
  <2>2. op' \in [Containers -> Ops]
    BY <1>1, <1>7, <2>1 DEF CaFromHub
  <2>3. caCache' \in AnyCa /\ known' \in Known
    BY <1>7, <2>1 DEF CaFromHub, Known, Typed, TypeOK
  <2> QED BY <1>7, <2>2, <2>3 DEF CaFromHub, Typed, TypeOK, CaCounted, mode, disk
<1>4. CASE SignAtHub(c)
  <2> DEFINE signer == IF op[c].cached # NoCa THEN op[c].cached ELSE AtHub
  <2>1. signer \in AnyCa
    BY <1>1, OpUpdates, OwnTypes DEF AtHub, Deployers, Typed
  <2> HIDE DEF signer
  <2>2. \/ /\ op' = [op EXCEPT ![c].signed = signer]
           /\ leafCache' \in {leafCache, [leafCache EXCEPT ![c] = signer]}
        \/ op' = [op EXCEPT ![c] = Idle] /\ UNCHANGED leafCache
    BY <1>4 DEF SignAtHub, signer
  <2>3. op' \in [Containers -> Ops]
    <3>1. [op[c] EXCEPT !.signed = signer] \in Ops /\ Idle \in Ops
      BY <1>1, <2>1, OpUpdates, CaTypes
    <3> QED BY <1>1, <2>2, <3>1
  <2>4. leafCache' \in [Containers -> AnyCa]
    BY <2>1, <2>2 DEF Typed, TypeOK
  <2> QED BY <1>4, <2>3, <2>4 DEF SignAtHub, Typed, TypeOK, CaCounted, cas, mode, disk
<1>5. CASE WriteDeployed(c)
  <2>1. op[c].signed \in AnyCa /\ op[c].ca \in AnyCa
    BY <1>1, OpUpdates
  <2>2. op' \in [Containers -> Ops]
    BY <1>1, <1>5, CaTypes DEF WriteDeployed
  <2>3. op[c].ca[1] \in Deployers \cup {"nobody"}
    BY <2>1 DEF AnyCa, SomeCa, NoCa
  <2>4. leaf' \in [Containers -> AnyCa] /\ chain' \in [Containers -> AnyCa]
        /\ due' \subseteq Containers
    BY <1>5, <2>1 DEF WriteDeployed, Typed, TypeOK
  <2>5. settled' \in [Containers -> Deployers \cup {"nobody", "mixed"}]
    BY <1>5, <2>3, SettledTypes DEF WriteDeployed, Typed, TypeOK
  <2> QED BY <1>5, <2>2, <2>4, <2>5 DEF WriteDeployed, Typed, TypeOK, CaCounted, cas, mode, caches
<1> QED BY <1>2, <1>3, <1>4, <1>5, <1>6, <1>7 DEF Signing

LEMMA WritingTypes ==
    ASSUME Typed, NEW c \in Containers, WriteRenewed(c) \/ ComesDue(c) PROVE Typed'
<1>1. CASE WriteRenewed(c)
  <2> DEFINE d == Deployer[c]
  <2>1. d \in Deployers /\ run[d] \in Runs
    BY DEF Typed, TypeOK
  <2>2. run' \in [Deployers -> Runs]
    BY <1>1, <2>1, RunUpdates DEF WriteRenewed, Typed, TypeOK
  <2>3. run[d].ca \in AnyCa
    BY <2>1, RunUpdates
  <2>4. leaf' \in [Containers -> AnyCa] /\ chain' \in [Containers -> AnyCa]
        /\ due' \subseteq Containers
        /\ settled' \in [Containers -> Deployers \cup {"nobody", "mixed"}]
    BY <1>1, <2>1, <2>3, SettledTypes DEF WriteRenewed, Typed, TypeOK
  <2> QED BY <1>1, <2>2, <2>4 DEF WriteRenewed, Typed, TypeOK, CaCounted, cas, mode, caches
<1>2. CASE ComesDue(c)
  BY <1>2 DEF ComesDue, Turn, Typed, TypeOK, CaCounted, cas, mode, caches
<1> QED BY <1>1, <1>2

LEMMA WorldTypes == Typed /\ WorldStep => Typed'
<1> SUFFICES ASSUME Typed, WorldStep PROVE Typed'
  OBVIOUS
<1>1. CASE UNCHANGED world
  BY <1>1 DEF world, cas, mode, caches, disk, Typed, TypeOK, CaCounted
<1> QED BY <1>1, ReplaceCaTypes, EntryTypes, RenewalTypes, SigningTypes, WritingTypes DEF WorldStep

----------------------------------------------------------------------------
(* Types of the dialog.                                                     *)

LEMMA CallTypes ==
    /\ Blank \in Rows /\ NoCall \in Calls /\ NoCall.hosts = {}
    /\ \A kind \in {"none", "list", "replace", "pve"} \cup Renewals, hosts \in SUBSET Containers :
          Call(kind, hosts) \in Calls /\ Call(kind, hosts).hosts = hosts
    /\ \A k \in Calls, x \in AnyCa, rows \in Rows, at \in {"sent", "running", "answered"} :
          /\ k.ca \in AnyCa /\ k.rows \in Rows
          /\ [k EXCEPT !.at = at] \in Calls
          /\ [k EXCEPT !.at = "answered", !.ca = x, !.rows = rows] \in Calls
  BY CaTypes DEF Blank, Rows, NoCall, Call, Calls, Renewals

LEMMA PageTypes ==
    ASSUME NEW p \in Pages
    PROVE  /\ p.at \in Deployers /\ p.marked \subseteq Containers /\ p.spinning \subseteq Containers
           /\ \A x \in AnyCa : [p EXCEPT !.ca = x] \in Pages
           /\ \A set \in SUBSET Containers :
                 [p EXCEPT !.marked = set] \in Pages /\ [p EXCEPT !.spinning = set] \in Pages
           /\ \A marked \in SUBSET Containers, rows \in Rows :
                 [p EXCEPT !.rows = rows, !.marked = marked] \in Pages
           /\ \A marked, spinning \in SUBSET Containers :
                 [p EXCEPT !.spinning = spinning, !.marked = marked] \in Pages
  BY DEF Pages

LEMMA InitTypes == DialogInit => Typed /\ DialogTypeOK
<1> SUFFICES ASSUME DialogInit PROVE Typed /\ DialogTypeOK
  OBVIOUS
<1>1. Typed
  <2>1. \A d \in Deployers : 1 \in 1 .. MaxTurns + 1 /\ 0 \in 0 .. MaxTurns
    OBVIOUS
  <2>2. ca \in [Deployers -> 1 .. MaxTurns + 1] /\ turns \in 0 .. MaxTurns /\ CaCounted
    BY <2>1 DEF DialogInit, Init, CaCounted
  <2>3. /\ op \in [Containers -> Ops] /\ run \in [Deployers -> Runs]
        /\ caCache \in AnyCa /\ leafCache \in [Containers -> AnyCa]
        /\ leaf \in [Containers -> AnyCa] /\ chain \in [Containers -> AnyCa]
    BY CaTypes DEF DialogInit, Init
  <2>4. settled \in [Containers -> Deployers \cup {"nobody", "mixed"}]
    BY DEF DialogInit, Init
  <2> QED BY <2>2, <2>3, <2>4 DEF DialogInit, Init, Typed, TypeOK, Known
<1>2. page \in Pages /\ page.marked = {} /\ page.spinning = {}
  <2>1. PICK d \in Deployers :
          page = [at |-> d, ca |-> Own(d), rows |-> Blank, marked |-> {}, spinning |-> {},
                  spoke |-> d = "spoke" /\ entry = "hub"]
    BY DEF DialogInit
  <2>2. Own(d) \in AnyCa /\ Blank \in Rows
    BY <1>1, OwnTypes, CallTypes DEF Typed
  <2> QED BY <2>1, <2>2 DEF Pages
<1>3. Call("list", {}) \in Calls /\ NoCall \in Calls
      /\ Call("list", {}).hosts = {} /\ NoCall.hosts = {}
  BY CallTypes
<1>4. calls \in [Slots -> Calls] /\ \A k \in Slots : calls[k].hosts = {}
  BY <1>3 DEF DialogInit
<1> QED BY <1>1, <1>2, <1>4 DEF DialogInit, DialogTypeOK

LEMMA AskTypes ==
    ASSUME DialogTypeOK, NEW kind \in {"none", "list", "replace", "pve"} \cup Renewals,
           NEW hosts \in SUBSET Mine, Ask(kind, hosts)
    PROVE  /\ calls' \in [Slots -> Calls] /\ \A k \in Slots : calls'[k].hosts \subseteq Mine
           /\ clicks' \in 0 .. MaxClicks
<1>1. PICK k \in Slots : calls' = [calls EXCEPT ![k] = Call(kind, hosts)]
  BY DEF Ask
<1>2. Call(kind, hosts) \in Calls /\ Call(kind, hosts).hosts = hosts
  BY CallTypes DEF Mine
<1>3. clicks' \in 0 .. MaxClicks
  BY DEF Ask, DialogTypeOK
<1> QED BY <1>1, <1>2, <1>3 DEF DialogTypeOK

(* The page stays that of one deployer, and marks rows of his containers.    *)
LEMMA ClickTypes == ASSUME DialogTypeOK, Click PROVE DialogTypeOK'
<1>1. page \in Pages /\ Mine \subseteq Containers
  BY DEF DialogTypeOK, Mine
<1>2. ASSUME NEW marked \in SUBSET Mine, page' = [page EXCEPT !.marked = marked]
      PROVE  page' \in Pages /\ page'.marked \cup page'.spinning \subseteq Mine /\ Mine' = Mine
  <2>1. page' \in Pages
    BY <1>1, <1>2, PageTypes
  <2>2. page'.marked = marked /\ page'.spinning = page.spinning /\ page'.at = page.at
    BY <1>1, <1>2 DEF Pages
  <2> QED BY <2>1, <2>2 DEF DialogTypeOK, Mine, At
<1>3. ASSUME NEW spinning \in SUBSET Mine, page' = [page EXCEPT !.spinning = spinning]
      PROVE  page' \in Pages /\ page'.marked \cup page'.spinning \subseteq Mine /\ Mine' = Mine
  <2>1. page' \in Pages
    BY <1>1, <1>3, PageTypes
  <2>2. page'.spinning = spinning /\ page'.marked = page.marked /\ page'.at = page.at
    BY <1>1, <1>3 DEF Pages
  <2> QED BY <2>1, <2>2 DEF DialogTypeOK, Mine, At
<1>4. ASSUME NEW c \in Mine, ToggleRow(c) PROVE DialogTypeOK'
  <2>1. (IF c \in page.marked THEN page.marked \ {c} ELSE page.marked \cup {c}) \in SUBSET Mine
    BY DEF DialogTypeOK
  <2> QED BY <1>2, <1>4, <2>1 DEF ToggleRow, DialogTypeOK
<1>5. CASE ToggleAll
  <2>1. PICK checked \in BOOLEAN :
          page' = [page EXCEPT !.marked = IF checked
                      THEN @ \cup {c \in Mine : CanRenewCert(c)} ELSE {}]
    BY <1>5 DEF ToggleAll
  <2>2. (IF checked THEN page.marked \cup {c \in Mine : CanRenewCert(c)} ELSE {}) \in SUBSET Mine
    BY DEF DialogTypeOK
  <2> QED BY <1>2, <1>5, <2>1, <2>2 DEF ToggleAll, DialogTypeOK
<1>6. ASSUME NEW c \in Mine, RenewOne(c) PROVE DialogTypeOK'
  <2>1. page.spinning \cup {c} \in SUBSET Mine /\ {c} \in SUBSET Mine
    BY DEF DialogTypeOK
  <2>2. Ask("one", {c}) /\ page' = [page EXCEPT !.spinning = page.spinning \cup {c}]
    BY <1>6 DEF RenewOne
  <2> QED BY <1>3, <2>1, <2>2, AskTypes DEF DialogTypeOK, Renewals
<1>7. CASE RenewSelected
  <2>1. SelectedHostnames \in SUBSET Mine /\ page.spinning \cup SelectedHostnames \in SUBSET Mine
    BY DEF DialogTypeOK, SelectedHostnames
  <2>2. Ask("selected", SelectedHostnames)
        /\ page' = [page EXCEPT !.spinning = page.spinning \cup SelectedHostnames]
    BY <1>7 DEF RenewSelected
  <2> QED BY <1>3, <2>1, <2>2, AskTypes DEF DialogTypeOK, Renewals
<1>8. CASE RenewAll \/ ReplaceByDialog \/ ProvisionPve
  <2>1. \E kind \in {"all", "replace", "pve"} : Ask(kind, {}) /\ UNCHANGED page
    BY <1>8 DEF RenewAll, ReplaceByDialog, ProvisionPve
  <2> QED BY <2>1, AskTypes DEF DialogTypeOK, Renewals, Mine, At
<1> QED BY <1>4, <1>5, <1>6, <1>7, <1>8 DEF Click

(* So does what the server answers,                                          *)
LEMMA ServeTypes ==
    ASSUME DialogTypeOK, Typed, Typed', NEW k \in Slots, Serve(k) PROVE DialogTypeOK'
<1>1. calls \in [Slots -> Calls] /\ calls[k] \in Calls
  BY DEF DialogTypeOK
<1>2. UNCHANGED <<page, clicks>> /\ Mine' = Mine /\ At \in Deployers
  BY DEF Serve, ServeList, ServeReplace, ServeRenewal, ServeProvision, Mine, At,
         DialogTypeOK, Pages
<1>3. ASSUME NEW at \in {"sent", "running", "answered"}, NEW x \in AnyCa, NEW rows \in Rows,
             \/ calls' = [calls EXCEPT ![k].at = at]
             \/ Answered(k, x, rows)
      PROVE  DialogTypeOK'
  <2>1. /\ [calls[k] EXCEPT !.at = at] \in Calls
        /\ [calls[k] EXCEPT !.at = "answered", !.ca = x, !.rows = rows] \in Calls
    BY <1>1, CallTypes
  <2>2. /\ [calls[k] EXCEPT !.at = at].hosts = calls[k].hosts
        /\ [calls[k] EXCEPT !.at = "answered", !.ca = x, !.rows = rows].hosts = calls[k].hosts
    BY <1>1 DEF Calls
  <2>3. \E call \in Calls : call.hosts = calls[k].hosts /\ calls' = [calls EXCEPT ![k] = call]
    BY <1>1, <1>3, <2>1, <2>2 DEF Answered
  <2> QED BY <1>1, <1>2, <2>3 DEF DialogTypeOK
<1>4. CASE ServeList(k)
  <2>1. [c \in Containers |-> IF c \in Mine THEN leaf[c] ELSE NoCa] \in Rows /\ Blank \in Rows
    BY CaTypes, CallTypes DEF Typed, TypeOK, Rows
  <2> QED BY <1>3, <1>4, <2>1, CaTypes DEF ServeList
<1>5. CASE ServeReplace(k)
  <2>1. <<At, ca'[At]>> \in AnyCa /\ calls[k].rows \in Rows
    BY <1>1, <1>2, CallTypes DEF Typed, TypeOK, AnyCa, SomeCa
  <2> QED BY <1>3, <1>5, <2>1 DEF ServeReplace
<1>6. CASE ServeRenewal(k) \/ ServeProvision(k)
  <2>1. NoCa \in AnyCa /\ calls[k].rows \in Rows
    BY <1>1, CaTypes, CallTypes
  <2> QED BY <1>3, <1>6, <2>1 DEF ServeRenewal, ServeProvision
<1> QED BY <1>4, <1>5, <1>6 DEF Serve

(* and what the dialog does with an answer or without one.                   *)
LEMMA ArrivesTypes ==
    ASSUME DialogTypeOK, NEW k \in Slots, Arrives(k) \/ Fails(k) PROVE DialogTypeOK'
<1>1. /\ calls \in [Slots -> Calls] /\ calls[k] \in Calls /\ page \in Pages
      /\ calls[k].hosts \subseteq Mine /\ Mine \subseteq Containers
  BY DEF DialogTypeOK, Mine
<1>2. calls' \in [Slots -> Calls] /\ \A j \in Slots : calls'[j].hosts \subseteq Mine
  <2>1. \E call \in {NoCall, Call("list", {})} : calls' = [calls EXCEPT ![k] = call]
    BY DEF Arrives, Fails
  <2>2. {NoCall, Call("list", {})} \subseteq Calls
        /\ \A call \in {NoCall, Call("list", {})} : call.hosts = {}
    BY CallTypes
  <2> QED BY <1>1, <2>1, <2>2 DEF DialogTypeOK
<1>3. /\ page' \in Pages /\ page'.at = page.at
      /\ page'.marked \subseteq page.marked /\ page'.spinning \subseteq page.spinning
  <2>1. /\ page.spinning \ calls[k].hosts \in SUBSET Containers
        /\ page.marked \in SUBSET Containers /\ {} \in SUBSET Containers
        /\ calls[k].ca \in AnyCa /\ calls[k].rows \in Rows
    BY <1>1, PageTypes, CallTypes DEF Calls
  <2>2. \/ page' = page
        \/ page' = [page EXCEPT !.ca = calls[k].ca]
        \/ page' = [page EXCEPT !.rows = calls[k].rows, !.marked = {}]
        \/ page' = [page EXCEPT !.spinning = @ \ calls[k].hosts]
        \/ \E marked \in {{}, page.marked} :
               page' = [page EXCEPT !.spinning = @ \ calls[k].hosts, !.marked = marked]
    BY DEF Arrives, Fails
  <2> DEFINE spinning == page.spinning \ calls[k].hosts
  <2>3. page' \in Pages
    <3>1. spinning \in SUBSET Containers
      BY <2>1
    <3>2. /\ [page EXCEPT !.ca = calls[k].ca] \in Pages
          /\ [page EXCEPT !.rows = calls[k].rows, !.marked = {}] \in Pages
          /\ [page EXCEPT !.spinning = spinning] \in Pages
      BY <1>1, <2>1, <3>1, PageTypes
    <3>3. \A marked \in {{}, page.marked} :
             [page EXCEPT !.spinning = spinning, !.marked = marked] \in Pages
      BY <1>1, <2>1, <3>1, PageTypes
    <3> QED BY <1>1, <2>2, <3>2, <3>3
  <2> QED BY <1>1, <2>2, <2>3 DEF Pages
<1>4. Mine' = Mine /\ clicks' = clicks
  BY <1>3 DEF Mine, At, Arrives, Fails
<1> QED BY <1>2, <1>3, <1>4 DEF DialogTypeOK

LEMMA DialogTypes ==
    ASSUME DialogTypeOK, Typed, Typed', [DialogNext]_all PROVE DialogTypeOK'
<1>1. CASE Elsewhere \/ UNCHANGED all
  BY <1>1 DEF Elsewhere, all, dialog, DialogTypeOK, Mine, At
<1>2. CASE Restart
  <2>1. NoCall \in Calls /\ NoCall.hosts = {}
    BY CallTypes
  <2>2. calls' \in [Slots -> Calls] /\ \A k \in Slots : calls'[k].hosts \subseteq Mine
    BY <1>2, <2>1 DEF Restart, DialogTypeOK
  <2>3. page' \in Pages /\ page'.at = page.at /\ page'.marked \cup page'.spinning \subseteq Mine
    <3>1. page \in Pages /\ {} \in SUBSET Containers
      BY DEF DialogTypeOK
    <3>2. page' = page \/ page' = [page EXCEPT !.spinning = {}]
      BY <1>2 DEF Restart
    <3>3. page' \in Pages
      BY <3>1, <3>2, PageTypes
    <3> QED BY <3>1, <3>2, <3>3 DEF Pages, DialogTypeOK
  <2> QED BY <1>2, <2>2, <2>3 DEF Restart, DialogTypeOK, Mine, At
<1>3. ASSUME NEW d \in Deployers, EndAndAnswer(d) PROVE DialogTypeOK'
  <2>1. ASSUME NEW k \in Slots
        PROVE  calls'[k] \in Calls /\ calls'[k].hosts = calls[k].hosts
    <3>1. calls[k] \in Calls
      BY DEF DialogTypeOK
    <3>2. [calls[k] EXCEPT !.at = "answered"] \in Calls
          /\ [calls[k] EXCEPT !.at = "answered"].hosts = calls[k].hosts
      BY <3>1 DEF Calls
    <3> QED BY <1>3, <3>1, <3>2 DEF EndAndAnswer
  <2>2. calls' \in [Slots -> Calls]
    BY <1>3, <2>1 DEF EndAndAnswer
  <2> QED BY <1>3, <2>1, <2>2 DEF EndAndAnswer, DialogTypeOK, Mine, At
<1> QED BY <1>1, <1>2, <1>3, ClickTypes, ServeTypes, ArrivesTypes DEF DialogNext

LEMMA StepTypes == Typed /\ DialogTypeOK /\ [DialogNext]_all => (Typed /\ DialogTypeOK)'
<1> SUFFICES ASSUME Typed, DialogTypeOK, [DialogNext]_all PROVE (Typed /\ DialogTypeOK)'
  OBVIOUS
<1>1. Typed'
  BY DialogSteps, WorldTypes
<1> QED BY <1>1, DialogTypes

(* CAs, caches, signatures, renewals and the page keep their types, and the  *)
(* marks of a page are on containers of its deployer, whatever overlaps or   *)
(* is lost (certificate-management-dialog.ts:862).                          *)
THEOREM TypeCorrect == DialogSpec => [](TypeOK /\ DialogTypeOK)
<1>1. Typed /\ DialogTypeOK => TypeOK /\ DialogTypeOK
  BY DEF Typed
<1> QED BY <1>1, InitTypes, StepTypes, PTL DEF DialogSpec

----------------------------------------------------------------------------
(* The invariant.                                                           *)

(* The hub's present CA is the last of its CAs,                              *)
LEMMA PresentIsLast ==
    ASSUME TypeOK
    PROVE  /\ FromHub(NoCa, AtHub)
           /\ \A x : FromHub(NoCa, x) => FromHub(x, AtHub)
           /\ \A x : FromHub(NoCa, x) => FromHub(x, x)
           /\ \A x : FromHub(AtHub, x) => x = AtHub
  BY DEF FromHub, AtHub, Own, TypeOK, SomeCa, Deployers, NoCa

LEMMA FromHubTypes ==
    \A k, x : FromHub(k, x) => x \in SomeCa /\ x # NoCa /\ x[1] = "hub" /\ FromHub(NoCa, x)
  BY DEF FromHub, SomeCa, NoCa, Deployers

(* and what it gave away stays that when it gets another.                    *)
LEMMA FromHubStays ==
    ASSUME TypeOK, \/ UNCHANGED ca
                   \/ \E d \in Deployers : ca' = [ca EXCEPT ![d] = @ + 1]
    PROVE  /\ \A k, x : FromHub(k, x) => FromHub(k, x)'
           /\ \A x, k, how : Fits(x, k, how) => Fits(x, k, how)'
<1>1. ca["hub"] \in Nat /\ ca'["hub"] \in Nat /\ ca["hub"] <= ca'["hub"]
  BY DEF TypeOK, Deployers
<1>2. \A k, x : FromHub(k, x) => FromHub(k, x)'
  BY <1>1 DEF FromHub, SomeCa
<1> QED BY <1>2 DEF Fits

(* Two certificates of the hub that belong together fit or are in order.     *)
LEMMA FromHubOrder ==
    \A k, x : FromHub(NoCa, k) /\ FromHub(k, x) /\ x # k
                 => x[1] = "hub" /\ k[1] = "hub" /\ x[2] > k[2]
  BY DEF FromHub, SomeCa, Deployers

LEMMA ReplaceCaKeeps == ASSUME TypeOK, CertInv, NEW d \in Deployers, ReplaceCa(d) PROVE CertInv'
<1>1. ca' = [ca EXCEPT ![d] = @ + 1]
  BY DEF ReplaceCa, NextCa
<1>2. /\ \A k, x : FromHub(k, x) => FromHub(k, x)'
      /\ \A x, k, how : Fits(x, k, how) => Fits(x, k, how)'
  BY <1>1, FromHubStays
<1>3. \A e \in Deployers : e # d => Own(e)' = Own(e)
  BY <1>1 DEF Own, TypeOK
<1>4. CacheInv'
  <2>1. caCache # NoCa /\ known' = "present" => AtHub' = AtHub /\ known = "present"
    BY <1>3 DEF ReplaceCa, AtHub, Deployers, Past
  <2>2. known' = "mixed" <=> known = "mixed"
    BY DEF ReplaceCa, Past
  <2>3. \A x, k : Fits(x, k, known) => Fits(x, k, known)'
    BY <1>2, <2>2 DEF Fits
  <2> QED BY <1>2, <2>1, <2>3 DEF ReplaceCa, caches, CertInv, CacheInv
<1>5. OpInv'
  <2>1. ASSUME NEW c \in Containers
        PROVE  /\ Ordered(op[c])' /\ Shares(op[c], caCache, known)'
               /\ op'[c].kind = op[c].kind
    <3>1. /\ op[c] \in Ops /\ op'[c] = [op[c] EXCEPT !.known = Past(@)]
          /\ Ordered(op[c]) /\ Shares(op[c], caCache, known)
      BY DEF TypeOK, ReplaceCa, CertInv, OpInv
    <3>2. /\ op'[c].kind = op[c].kind /\ op'[c].ca = op[c].ca
          /\ op'[c].signed = op[c].signed /\ op'[c].cached = op[c].cached
          /\ op'[c].orphan = op[c].orphan
          /\ op'[c].known # "present" /\ (op'[c].known = "mixed" <=> op[c].known = "mixed")
      BY <3>1 DEF Ops, Past
    <3>3. Ordered(op[c])'
      <4>1. \A x, k : Fits(x, k, op[c].known) => Fits(x, k, op[c].known)'
        BY <1>2, <3>2 DEF Fits
      <4> QED BY <1>2, <3>1, <3>2, <4>1 DEF Ordered
    <3>4. Shares(op[c], caCache, known)'
      <4>1. op[c].kind = "asking" /\ ~op[c].orphan /\ known' = "present"
              => AtHub' = AtHub /\ known = "present"
        BY <1>3 DEF ReplaceCa, HubIsAsked, AtHub, Deployers, Past
      <4>2. known' = "mixed" <=> known = "mixed"
        BY DEF ReplaceCa, Past
      <4> QED BY <3>1, <3>2, <4>1, <4>2 DEF ReplaceCa, caches, Shares
    <3> QED BY <3>2, <3>3, <3>4
  <2> QED BY <2>1 DEF OpInv, CertInv
<1>6. RunInv'
  <2>1. ASSUME NEW e \in Deployers
        PROVE  /\ run'[e].fresh => run'[e].ca = Own(e)'
               /\ run'[e].todo # {} => run'[e].ca # NoCa
    <3>1. run[e] \in Runs /\ run'[e] = [run[e] EXCEPT !.fresh = @ /\ e # d]
      BY DEF TypeOK, ReplaceCa
    <3>2. /\ run'[e].ca = run[e].ca /\ run'[e].todo = run[e].todo
          /\ run'[e].fresh => run[e].fresh /\ e # d
      BY <3>1 DEF Runs
    <3> QED BY <1>3, <3>2 DEF CertInv, RunInv
  <2> QED BY <2>1 DEF RunInv
<1>7. ChainNotNewer'
  <2>1. \A c \in Containers : settled[c] = "mixed" => settled'[c] = "mixed"
    BY DEF ReplaceCa, Deployers
  <2> QED BY <2>1 DEF ReplaceCa, CertInv, ChainNotNewer
<1>8. FreshSignatureHeals'
  BY <1>3 DEF ReplaceCa, CertInv, FreshSignatureHeals, TypeOK, Deployers
<1> QED BY <1>4, <1>5, <1>6, <1>7, <1>8 DEF CertInv

(* While no CA changes, only the part that a step writes is in question.     *)
LEMMA SameCaKeeps ==
    ASSUME CertInv, UNCHANGED ca
    PROVE  /\ UNCHANGED <<caCache, leafCache, known>> => CacheInv'
           /\ UNCHANGED <<op, caCache, known>> => OpInv'
           /\ UNCHANGED run => RunInv'
           /\ UNCHANGED <<leaf, chain, settled>> => ChainNotNewer'
           /\ UNCHANGED <<leaf, settled>> => FreshSignatureHeals'
           /\ \A o : Ordered(o)' <=> Ordered(o)
           /\ \A o, cache, how : Shares(o, cache, how)' <=> Shares(o, cache, how)
           /\ \A x, k, how : Fits(x, k, how)' <=> Fits(x, k, how)
<1>1. /\ \A k, x : FromHub(k, x)' <=> FromHub(k, x)
      /\ \A d : Own(d)' = Own(d)
      /\ AtHub' = AtHub
  BY DEF FromHub, AtHub, Own
<1>2. \A x, k, how : Fits(x, k, how)' <=> Fits(x, k, how)
  BY <1>1 DEF Fits
<1>3. \A o : Ordered(o)' <=> Ordered(o)
  BY <1>1, <1>2 DEF Ordered
<1>4. \A o, cache, how : Shares(o, cache, how)' <=> Shares(o, cache, how)
  BY <1>1 DEF Shares
<1>5. UNCHANGED <<caCache, leafCache, known>> => CacheInv'
  BY <1>1, <1>2 DEF CertInv, CacheInv
<1>6. UNCHANGED <<op, caCache, known>> => OpInv'
  BY <1>3, <1>4 DEF CertInv, OpInv
<1>7. UNCHANGED run => RunInv'
  BY <1>1 DEF CertInv, RunInv
<1>8. /\ UNCHANGED <<leaf, chain, settled>> => ChainNotNewer'
      /\ UNCHANGED <<leaf, settled>> => FreshSignatureHeals'
  BY <1>1 DEF CertInv, ChainNotNewer, FreshSignatureHeals
<1> QED BY <1>2, <1>3, <1>4, <1>5, <1>6, <1>7, <1>8

LEMMA IdleOrdered ==
    /\ Ordered(Idle) /\ Idle.kind = "idle" /\ \A cache, how : Shares(Idle, cache, how)
  BY DEF Ordered, Shares, Idle

(* A provider that is reset leaves its tasks to themselves.                  *)
LEMMA OrphanOrdered ==
    ASSUME NEW o \in Ops, Ordered(o)
    PROVE  /\ Ordered(Orphaned(o)) /\ Orphaned(o).kind = o.kind
           /\ \A cache, how : Shares(Orphaned(o), cache, how)
<1>1. CASE o.kind \in {"asking", "remote"}
  <2>1. Orphaned(o) = [o EXCEPT !.orphan = TRUE]
    BY <1>1 DEF Orphaned
  <2> QED BY <2>1 DEF Ops, Ordered, Shares
<1>2. CASE o.kind \notin {"asking", "remote"}
  BY <1>2 DEF Orphaned, Shares
<1> QED BY <1>1, <1>2

LEMMA EntryKeeps ==
    ASSUME TypeOK, CertInv, NEW e \in {"hub", "own"},
           SaveEntry(e) \/ SelectEntry(e) \/ RestartSpoke
    PROVE  CertInv'
<1>1. UNCHANGED <<ca, leaf, chain, settled>>
  BY DEF SaveEntry, SelectEntry, RestartSpoke, cas, disk
<1>2. CacheInv'
  <2>1. Forget => CacheInv'
    BY DEF Forget, Empty, CacheInv, Fits
  <2> QED BY <1>1, <2>1, SameCaKeeps DEF SaveEntry, SelectEntry, RestartSpoke, cas, caches
<1>3. OpInv'
  <2>1. CASE SaveEntry(e)
    <3>1. ASSUME NEW c \in Containers
          PROVE  /\ Ordered(op'[c]) /\ Shares(op'[c], caCache', known')
                 /\ op'[c].kind = op[c].kind
      BY <2>1, OrphanOrdered DEF SaveEntry, TypeOK, CertInv, OpInv
    <3> QED BY <1>1, <3>1, SameCaKeeps DEF OpInv, CertInv
  <2>2. CASE SelectEntry(e)
    BY <2>2, <1>1, SameCaKeeps DEF SelectEntry, cas, caches
  <2>3. CASE RestartSpoke
    <3>1. ASSUME NEW c \in Containers
          PROVE  /\ Ordered(op'[c]) /\ Shares(op'[c], caCache', known')
                 /\ op'[c].kind \in {"asking", "remote"} => Deployer[c] = "spoke"
      <4>1. CASE Deployer[c] = "spoke"
        BY <2>3, <4>1, IdleOrdered DEF RestartSpoke
      <4>2. CASE Deployer[c] # "spoke"
        <5>1. op'[c] = op[c] /\ Ordered(op[c]) /\ op[c].kind \notin {"asking", "remote"}
          BY <2>3, <4>2 DEF RestartSpoke, CertInv, OpInv
        <5> QED BY <5>1 DEF Shares
      <4> QED BY <4>1, <4>2
    <3> QED BY <1>1, <3>1, SameCaKeeps DEF OpInv
  <2> QED BY <2>1, <2>2, <2>3
<1>4. RunInv'
  <2>1. \A d \in Deployers : run'[d] = run[d] \/ run'[d] = NoRun
    BY DEF SaveEntry, SelectEntry, RestartSpoke, TypeOK
  <2> QED BY <1>1, <2>1 DEF RunInv, CertInv, NoRun, Own
<1> QED BY <1>1, <1>2, <1>3, <1>4, SameCaKeeps DEF CertInv

LEMMA RenewalKeeps ==
    ASSUME TypeOK, CertInv, NEW d \in Deployers,
           \/ ListForRenewal(d) \/ EndRenewal(d)
           \/ \E forced \in BOOLEAN, hosts \in SUBSET Containers : BeginRenewal(d, forced, hosts)
    PROVE  CertInv'
<1>1. UNCHANGED <<cas, mode, caches, op, disk>>
  BY DEF ListForRenewal, EndRenewal, BeginRenewal
<1>2. /\ \A e \in Deployers \ {d} : run'[e] = run[e]
      /\ run'[d].fresh => run'[d].ca = Own(d)
      /\ run'[d].todo # {} => run'[d].ca # NoCa
  <2>1. CASE ListForRenewal(d)
    <3>1. PICK todo :
            run' = [run EXCEPT ![d] = [NoRun EXCEPT !.on = TRUE, !.listed = TRUE,
                                          !.todo = todo, !.ca = Own(d), !.fresh = TRUE]]
      BY <2>1 DEF ListForRenewal
    <3>2. Own(d) # NoCa
      BY OwnTypes, CaTypes
    <3>3. run'[d].ca = Own(d)
      BY <3>1 DEF NoRun, TypeOK
    <3>4. \A e \in Deployers \ {d} : run'[e] = run[e]
      BY <3>1 DEF TypeOK
    <3> QED BY <3>2, <3>3, <3>4
  <2>2. CASE EndRenewal(d)
    BY <2>2 DEF EndRenewal, NoRun, TypeOK
  <2>3. CASE \E forced \in BOOLEAN, hosts \in SUBSET Containers : BeginRenewal(d, forced, hosts)
    <3>1. PICK forced, hosts :
            run' = [run EXCEPT ![d] = [NoRun EXCEPT !.on = TRUE, !.forced = forced, !.only = hosts]]
      BY <2>3 DEF BeginRenewal
    <3>2. run'[d].fresh = FALSE /\ run'[d].todo = {}
      BY <3>1 DEF NoRun, TypeOK
    <3> QED BY <3>1, <3>2 DEF TypeOK
  <2> QED BY <2>1, <2>2, <2>3
<1>3. RunInv'
  BY <1>1, <1>2 DEF RunInv, CertInv, cas, Own
<1> QED BY <1>1, <1>3, SameCaKeeps DEF CertInv, cas, caches, disk

LEMMA SigningKeeps == ASSUME TypeOK, CertInv, NEW c \in Containers, Signing(c) PROVE CertInv'
<1>1. /\ op \in [Containers -> Ops] /\ op[c] \in Ops /\ Ordered(op[c])
      /\ CacheInv /\ Deployer[c] \in Deployers
  BY DEF TypeOK, CertInv, OpInv
<1>2. UNCHANGED <<ca, run>>
  BY DEF Signing, DeployLocally, DeployFromHub, HubAnswers, CaFromHub, HubFails, SignAtHub,
         WriteDeployed, cas
<1>0. /\ Shares(op[c], caCache, known)
      /\ op[c].kind \in {"asking", "remote"} => Deployer[c] = "spoke"
  BY DEF CertInv, OpInv
<1>3. ASSUME \A x \in Containers \ {c} : op'[x] = op[x], UNCHANGED <<caCache, known>>,
             Ordered(op'[c]), Shares(op'[c], caCache, known),
             op'[c].kind \in {"asking", "remote"} => Deployer[c] = "spoke"
      PROVE  OpInv'
  BY <1>2, <1>3, SameCaKeeps DEF OpInv, CertInv
<1>4. CASE DeployLocally(c)
  <2>1. op' = [op EXCEPT ![c] = [Idle EXCEPT !.kind = "local", !.ca = Own(Deployer[c]),
                                             !.signed = Own(Deployer[c]), !.known = "present"]]
        /\ UNCHANGED <<caches, disk, known>>
    BY <1>4 DEF DeployLocally, cas
  <2>2. Own(Deployer[c]) # NoCa /\ Own(Deployer[c])[1] = Deployer[c]
    BY <1>1, OwnTypes, CaTypes DEF Own
  <2>3. /\ op'[c].kind = "local" /\ op'[c].ca = Own(Deployer[c])
        /\ op'[c].signed = Own(Deployer[c]) /\ op'[c].known = "present"
    BY <1>1, <2>1 DEF Idle
  <2>4. /\ Ordered(op'[c]) /\ Shares(op'[c], caCache, known)
        /\ \A x \in Containers \ {c} : op'[x] = op[x]
    BY <1>1, <2>1, <2>2, <2>3 DEF Ordered, Shares
  <2> QED BY <1>2, <1>3, <2>1, <2>3, <2>4, SameCaKeeps DEF CertInv, caches, disk
<1>5. CASE DeployFromHub(c)
  <2> DEFINE kind == IF caCache = NoCa THEN "asking" ELSE "remote"
             how  == IF caCache = NoCa THEN "present" ELSE known
  <2>1. /\ op' = [op EXCEPT ![c] = [Idle EXCEPT !.kind = kind, !.ca = caCache,
                                                !.cached = leafCache[c], !.known = how]]
        /\ Deployer[c] = "spoke" /\ UNCHANGED <<caches, disk, known>>
    BY <1>5 DEF DeployFromHub, cas
  <2>2. /\ op'[c].kind = kind /\ op'[c].ca = caCache /\ op'[c].cached = leafCache[c]
        /\ op'[c].known = how /\ op'[c].signed = NoCa /\ ~op'[c].orphan
        /\ \A x \in Containers \ {c} : op'[x] = op[x]
    BY <1>1, <2>1 DEF Idle
  <2>3. AtHub = Own(AtHub[1])
    BY DEF AtHub, Own
  <2>4. Ordered(op'[c]) /\ Shares(op'[c], caCache, known)
    BY <1>1, <2>2, <2>3 DEF Ordered, Shares, CacheInv, Fits
  <2> QED BY <1>2, <1>3, <2>1, <2>2, <2>4, SameCaKeeps DEF CertInv, caches, disk
<1>6. CASE SignAtHub(c)
  <2> DEFINE signer == IF op[c].cached # NoCa THEN op[c].cached ELSE AtHub
  <2>1. op[c].kind = "remote" /\ UNCHANGED <<caCache, known, disk>>
    BY <1>6 DEF SignAtHub, cas
  <2>2. FromHub(NoCa, op[c].ca) /\ signer # NoCa /\ Fits(signer, op[c].ca, op[c].known)
    BY <1>1, <2>1, PresentIsLast, FromHubTypes DEF Ordered, Fits
  <2> HIDE DEF signer
  <2>3. CASE op' = [op EXCEPT ![c] = Idle] /\ UNCHANGED leafCache
    <3>1. op'[c] = Idle /\ \A x \in Containers \ {c} : op'[x] = op[x]
      BY <1>1, <2>3
    <3> QED BY <1>2, <1>3, <2>1, <2>3, <3>1, IdleOrdered, SameCaKeeps DEF CertInv, disk
  <2>4. CASE /\ op' = [op EXCEPT ![c].signed = signer]
             /\ leafCache' = IF op[c].orphan THEN leafCache
                             ELSE [leafCache EXCEPT ![c] = signer]
    <3>1. /\ op'[c].kind = "remote" /\ op'[c].ca = op[c].ca /\ op'[c].signed = signer
          /\ op'[c].cached = op[c].cached /\ op'[c].known = op[c].known
          /\ op'[c].orphan = op[c].orphan
          /\ \A x \in Containers \ {c} : op'[x] = op[x]
      BY <1>1, <2>1, <2>4 DEF Ops
    <3>2. Ordered(op'[c])
      BY <1>1, <2>1, <2>2, <3>1 DEF Ordered
    <3>3. Shares(op'[c], caCache, known)
      BY <1>0, <2>1, <3>1 DEF Shares
    <3>4. CacheInv'
      <4>1. leafCache \in [Containers -> AnyCa]
        BY DEF TypeOK
      <4>2. CASE op[c].orphan
        BY <1>2, <2>1, <2>4, <4>2, SameCaKeeps DEF CertInv
      <4>3. CASE ~op[c].orphan
        <5>1. caCache # NoCa /\ Fits(signer, caCache, known)
          BY <1>0, <2>1, <2>2, <4>3 DEF Shares, Fits
        <5>2. \A x \in Containers :
                 /\ leafCache'[x] # NoCa => caCache # NoCa
                 /\ Fits(leafCache'[x], caCache, known)
          BY <1>1, <2>4, <4>1, <4>3, <5>1 DEF CacheInv
        <5>3. \A x, k, how : Fits(x, k, how)' <=> Fits(x, k, how)
          BY <1>2 DEF Fits, FromHub
        <5> QED BY <1>1, <1>2, <2>1, <5>2, <5>3 DEF CacheInv, FromHub, AtHub, Own
      <4> QED BY <4>2, <4>3
    <3> QED BY <1>0, <1>2, <1>3, <2>1, <3>1, <3>2, <3>3, <3>4, SameCaKeeps DEF CertInv, disk
  <2> QED BY <1>6, <2>3, <2>4 DEF SignAtHub, signer
<1>8. CASE HubAnswers(c) \/ HubFails(c)
  <2>1. op[c].kind = "asking" /\ UNCHANGED <<caches, disk, known>>
        /\ \A x \in Containers \ {c} : op'[x] = op[x]
    BY <1>1, <1>8 DEF HubAnswers, HubFails, cas
  <2>2. /\ Ordered(op'[c]) /\ Shares(op'[c], caCache, known)
        /\ op'[c].kind \in {"asking", "remote"} => Deployer[c] = "spoke"
    <3>1. CASE HubFails(c)
      BY <1>1, <3>1, IdleOrdered DEF HubFails
    <3>2. CASE HubAnswers(c)
      <4>1. /\ op'[c].kind = "asking" /\ op'[c].ca = AtHub /\ op'[c].signed = op[c].signed
            /\ op'[c].cached = op[c].cached /\ op'[c].known = op[c].known
        BY <1>1, <2>1, <3>2 DEF HubAnswers, Ops
      <4>2. AtHub = Own(AtHub[1])
        BY DEF AtHub, Own
      <4> QED BY <1>0, <1>1, <2>1, <4>1, <4>2, PresentIsLast DEF Ordered, Shares
    <3> QED BY <1>8, <3>1, <3>2
  <2> QED BY <1>2, <1>3, <2>1, <2>2, SameCaKeeps DEF CertInv, caches, disk
<1>9. CASE CaFromHub(c)
  <2>1. /\ op[c].kind = "asking" /\ op[c].ca # NoCa
        /\ op' = [op EXCEPT ![c].kind = "remote"] /\ UNCHANGED <<leafCache, disk>>
    BY <1>9 DEF CaFromHub
  <2>2. /\ op'[c].kind = "remote" /\ op'[c].ca = op[c].ca /\ op'[c].signed = NoCa
        /\ op'[c].cached = NoCa /\ op'[c].known = op[c].known
        /\ op'[c].orphan = op[c].orphan
        /\ \A x \in Containers \ {c} : op'[x] = op[x]
    BY <1>1, <2>1 DEF Ops, Ordered
  <2>3. Ordered(op'[c]) /\ Deployer[c] = "spoke"
    BY <1>0, <1>1, <2>1, <2>2 DEF Ordered, Fits
  <2>4. CASE op[c].orphan /\ UNCHANGED <<caCache, known>>
    <3>1. Shares(op'[c], caCache, known)
      BY <2>2, <2>4 DEF Shares
    <3> QED BY <1>2, <1>3, <2>1, <2>2, <2>3, <2>4, <3>1, SameCaKeeps DEF CertInv, disk
  <2>5. CASE /\ ~op[c].orphan /\ caCache' = op[c].ca
             /\ known' = IF caCache \in {NoCa, op[c].ca} THEN known ELSE "mixed"
    <3>1. FromHub(NoCa, op[c].ca) /\ (known = "present" => op[c].ca = AtHub)
      BY <1>0, <1>1, <2>1, <2>5 DEF Ordered, Shares
    <3>2. /\ \/ known' = "mixed"
             \/ known' = known /\ caCache \in {NoCa, op[c].ca}
          /\ known = "mixed" => known' = "mixed"
      BY <2>5
    <3>3. ASSUME NEW x \in Containers PROVE Shares(op'[x], caCache', known')
      <4>1. CASE x = c
        BY <2>1, <2>2, <2>5, <3>2, <4>1, <1>1 DEF Shares, Ordered
      <4>2. CASE x # c
        <5>1. op'[x] = op[x] /\ Shares(op[x], caCache, known)
          BY <2>2, <4>2 DEF CertInv, OpInv
        <5> QED BY <2>1, <2>5, <3>2, <5>1 DEF Shares
      <4> QED BY <4>1, <4>2
    <3>4. OpInv'
      <4>1. \A x \in Containers : Ordered(op'[x])
                                 /\ (op'[x].kind \in {"asking", "remote"} => Deployer[x] = "spoke")
        BY <2>2, <2>3 DEF CertInv, OpInv
      <4>2. /\ \A o : Ordered(o)' <=> Ordered(o)
            /\ \A o, cache, how : Shares(o, cache, how)' <=> Shares(o, cache, how)
        BY <1>2, SameCaKeeps
      <4> QED BY <3>3, <4>1, <4>2 DEF OpInv
    <3>5. CacheInv'
      <4>1. \A x \in Containers : Fits(leafCache[x], caCache', known')
        <5>1. ASSUME NEW x \in Containers PROVE Fits(leafCache[x], caCache', known')
          BY <1>1, <2>5, <3>2 DEF CacheInv, Fits
        <5> QED BY <5>1
      <4>2. \A x, k, how : Fits(x, k, how)' <=> Fits(x, k, how)
        BY <1>2, SameCaKeeps
      <4>3. AtHub' = AtHub /\ \A k, x : FromHub(k, x)' <=> FromHub(k, x)
        BY <1>2 DEF AtHub, Own, FromHub
      <4> QED BY <2>1, <2>5, <3>1, <3>2, <4>1, <4>2, <4>3 DEF CacheInv
    <3> QED BY <1>2, <2>1, <3>4, <3>5, SameCaKeeps DEF CertInv, disk
  <2> QED BY <1>9, <2>4, <2>5 DEF CaFromHub
<1>7. CASE WriteDeployed(c)
  <2>1. op[c].kind \in {"local", "remote"} /\ op[c].signed # NoCa
        /\ UNCHANGED <<caches, known>> /\ op' = [op EXCEPT ![c] = Idle]
    BY <1>7 DEF WriteDeployed, cas
  <2>2. op'[c] = Idle /\ \A x \in Containers \ {c} : op'[x] = op[x]
    BY <1>1, <2>1
  <2>0. OpInv'
    BY <1>3, <2>1, <2>2, IdleOrdered DEF caches
  <2>3. /\ op[c].known = "present" => op[c].ca = Own(op[c].ca[1]) /\ op[c].signed = op[c].ca
        /\ op[c].signed # op[c].ca /\ op[c].known # "mixed"
              => /\ op[c].signed[1] = "hub" /\ op[c].ca[1] = "hub"
                 /\ op[c].signed[2] > op[c].ca[2]
    <3>1. CASE op[c].kind = "local"
      BY <1>1, <2>1, <3>1 DEF Ordered
    <3>2. CASE op[c].kind = "remote"
      <4>1. FromHub(NoCa, op[c].ca)
            /\ (op[c].known # "mixed" => FromHub(op[c].ca, op[c].signed))
        BY <1>1, <2>1, <3>2 DEF Ordered, Fits
      <4>2. op[c].known = "present" => op[c].ca = AtHub
        BY <1>1, <2>1, <4>1, FromHubTypes DEF Ordered, AtHub
      <4>3. op[c].known = "present" => op[c].ca = Own(op[c].ca[1])
        BY <1>1, <2>1, <4>1, FromHubTypes DEF Ordered
      <4> QED BY <4>1, <4>2, <4>3, PresentIsLast, FromHubOrder
    <3> QED BY <2>1, <3>1, <3>2
  <2>4. /\ leaf \in [Containers -> AnyCa] /\ chain \in [Containers -> AnyCa]
        /\ settled \in [Containers -> Deployers \cup {"nobody", "mixed"}]
        /\ ChainNotNewer /\ FreshSignatureHeals
    BY DEF TypeOK, CertInv
  <2>5. \A d : Own(d)' = Own(d)
    BY <1>2 DEF Own
  <2>6. CASE UNCHANGED <<leaf, chain, settled>>
    BY <1>2, <2>0, <2>1, <2>6, SameCaKeeps DEF CertInv, caches
  <2>9. op[c].ca[1] \in Deployers \cup {"nobody"}
    <3>1. op[c].ca \in AnyCa
      BY <1>1, OpUpdates
    <3> QED BY <3>1 DEF AnyCa, SomeCa, NoCa
  <2>7. CASE /\ leaf[c] = op[c].ca /\ Settled(c, op[c].ca[1], op[c].known)
             /\ settled[c] # "mixed" /\ UNCHANGED <<leaf, chain>>
    <3>1. /\ \A x \in Containers \ {c} : settled'[x] = settled[x]
          /\ \/ op[c].known = "present" /\ settled'[c] = op[c].ca[1]
             \/ settled'[c] \in {"nobody", "mixed"}
      BY <2>7, <2>9, SettledTypes
    <3>2. FreshSignatureHeals'
      BY <2>3, <2>4, <2>5, <2>7, <3>1 DEF FreshSignatureHeals, Deployers
    <3>3. ChainNotNewer'
      BY <2>4, <2>7, <3>1 DEF ChainNotNewer
    <3> QED BY <1>2, <2>0, <2>1, <3>2, <3>3, SameCaKeeps DEF CertInv, caches
  <2>8. CASE /\ leaf' = [leaf EXCEPT ![c] = op[c].signed]
             /\ chain' = [chain EXCEPT ![c] = op[c].ca]
             /\ Settled(c, op[c].ca[1], op[c].known)
    <3>1. /\ \A x \in Containers \ {c} : settled'[x] = settled[x]
          /\ \/ op[c].known = "present" /\ settled'[c] = op[c].ca[1]
             \/ op[c].known = "mixed" /\ settled'[c] = "mixed"
             \/ settled'[c] = "nobody"
      BY <2>8, <2>9, SettledTypes
    <3>2. FreshSignatureHeals'
      BY <2>3, <2>4, <2>5, <2>8, <3>1 DEF FreshSignatureHeals, Deployers
    <3>3. ChainNotNewer'
      <4>2. leaf'[c] = op[c].signed /\ chain'[c] = op[c].ca
        BY <2>4, <2>8
      <4>3. \A x \in Containers \ {c} :
               leaf'[x] = leaf[x] /\ chain'[x] = chain[x] /\ settled'[x] = settled[x]
        BY <2>4, <2>8, <3>1
      <4>4. op[c].known = "mixed" => settled'[c] = "mixed"
        BY <2>8, <2>4 DEF Settled
      <4> QED BY <2>3, <2>4, <4>2, <4>3, <4>4 DEF ChainNotNewer
    <3> QED BY <1>2, <2>0, <2>1, <3>2, <3>3, SameCaKeeps DEF CertInv, caches
  <2> QED BY <1>7, <2>6, <2>7, <2>8 DEF WriteDeployed, KeepsExisting
<1> QED BY <1>4, <1>5, <1>6, <1>7, <1>8, <1>9 DEF Signing

LEMMA WritingKeeps ==
    ASSUME TypeOK, CertInv, NEW c \in Containers, WriteRenewed(c) \/ ComesDue(c) PROVE CertInv'
<1>1. CASE ComesDue(c)
  BY <1>1, SameCaKeeps DEF ComesDue, CertInv, cas, mode, caches
<1>2. CASE WriteRenewed(c)
  <2> DEFINE d == Deployer[c]
  <2>1. d \in Deployers /\ run[d] \in Runs /\ c \in run[d].todo
        /\ run' = [run EXCEPT ![d].todo = @ \ {c}] /\ UNCHANGED <<cas, caches, op>>
    BY <1>2 DEF WriteRenewed, TypeOK
  <2>2. (run[d].fresh => run[d].ca = Own(d)) /\ run[d].ca # NoCa
    BY <2>1 DEF CertInv, RunInv
  <2>3. RunInv'
    <3>1. run'[d].ca = run[d].ca /\ run'[d].fresh = run[d].fresh
          /\ \A e \in Deployers \ {d} : run'[e] = run[e]
      BY <2>1 DEF TypeOK, Runs
    <3> QED BY <2>1, <2>2, <3>1 DEF RunInv, CertInv, cas, Own
  <2>4. ChainNotNewer' /\ FreshSignatureHeals'
    <3>1. CASE UNCHANGED <<leaf, chain, settled>>
      BY <2>1, <3>1, SameCaKeeps DEF cas
    <3>2. CASE /\ leaf' = [leaf EXCEPT ![c] = run[d].ca]
               /\ chain' = [chain EXCEPT ![c] = run[d].ca]
               /\ Settled(c, d, IF run[d].fresh THEN "present" ELSE "past")
      <4>1. \A e : Own(e)' = Own(e)
        BY <2>1 DEF cas, Own
      <4>2. /\ \A x \in Containers \ {c} : settled'[x] = settled[x]
            /\ \/ run[d].fresh /\ settled'[c] = d
               \/ settled'[c] \in {"nobody", "mixed"}
        BY <2>1, <3>2, SettledTypes
      <4>3. ChainNotNewer'
        BY <3>2, <4>2 DEF ChainNotNewer, CertInv, TypeOK
      <4>4. FreshSignatureHeals'
        BY <2>2, <3>2, <4>1, <4>2 DEF FreshSignatureHeals, CertInv, TypeOK, Deployers
      <4> QED BY <4>3, <4>4
    <3> QED BY <1>2, <3>1, <3>2 DEF WriteRenewed
  <2> QED BY <2>1, <2>3, <2>4, SameCaKeeps DEF CertInv, cas, caches
<1> QED BY <1>1, <1>2

LEMMA StepKeeps == Typed /\ CertInv /\ WorldStep => CertInv'
<1> SUFFICES ASSUME TypeOK, CertInv, WorldStep PROVE CertInv'
  BY DEF Typed
<1>1. CASE UNCHANGED world
  BY <1>1, SameCaKeeps DEF CertInv, world, cas, caches, disk
<1> QED BY <1>1, ReplaceCaKeeps, EntryKeeps, RenewalKeeps, SigningKeeps, WritingKeeps DEF WorldStep

LEMMA InitKeeps == DialogInit => CertInv
<1> SUFFICES ASSUME DialogInit PROVE CertInv
  OBVIOUS
<1> USE DEF DialogInit, Init
<1>1. CacheInv
  BY DEF CacheInv, Fits, Empty
<1>2. OpInv
  BY IdleOrdered DEF OpInv
<1>3. RunInv
  BY DEF RunInv, NoRun
<1>4. ChainNotNewer /\ FreshSignatureHeals
  BY DEF ChainNotNewer, FreshSignatureHeals, Empty, Deployers
<1> QED BY <1>1, <1>2, <1>3, <1>4 DEF CertInv

LEMMA CertInvHolds == DialogSpec => []CertInv
<1>1. Typed /\ DialogTypeOK /\ CertInv /\ [DialogNext]_all => CertInv'
  BY DialogSteps, StepKeeps
<1> QED BY <1>1, InitTypes, InitKeeps, StepTypes, PTL DEF DialogSpec

(* For every set of containers and any number of new CAs, entries, tasks     *)
(* side by side, renewals and requests of the dialog: a certificate that     *)
(* does not fit the CA of its chain is one of the hub's, and newer than that *)
(* CA, unless answers of the hub with different CAs met in one provider      *)
(* (remote-ca-provider.mts:234).                                             *)
THEOREM ChainsAreNotNewer == DialogSpec => []ChainNotNewer
<1>1. CertInv => ChainNotNewer
  BY DEF CertInv
<1> QED BY <1>1, CertInvHolds, PTL

(* Likewise: who signed after the last change of his CA, by a task or by a   *)
(* renewal, leaves a certificate of that CA                                  *)
(* (conf-generate-certificates.sh:95).                                       *)
THEOREM SignaturesHeal == DialogSpec => []FreshSignatureHeals
<1>1. CertInv => FreshSignatureHeals
  BY DEF CertInv
<1> QED BY <1>1, CertInvHolds, PTL
=============================================================================
