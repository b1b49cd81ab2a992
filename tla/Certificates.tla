---------------------------- MODULE Certificates ----------------------------
(***************************************************************************)
(* Who signs the certificate a container serves with, and for how long.    *)
(*                                                                         *)
(* A hub and a spoke each keep a CA of their own in their storage context  *)
(* (ca_global; proxvex.mts:181 makes one on every deployer). Tasks ask the *)
(* CA provider, which in spoke mode is a client of the hub that caches     *)
(* was given (remote-ca-provider.mts); renewals, the maintenance           *)
(* routes and the dialog always ask the deployer's own CA. The provider is *)
(* chosen on first use and kept until an SSH entry is saved; a task that   *)
(* began with it goes on with it and its caches. Tasks of different        *)
(* hostnames run side by side, and each awaits the hub on its own.         *)
(*                                                                         *)
(* A CA is named by its deployer and how many that deployer had.           *)
(***************************************************************************)
EXTENDS Naturals

CONSTANTS
    Deployer,       \* the deployer of each container: "hub" or "spoke"
    MaxTurns        \* bound: changes of a CA or of the spoke's current SSH entry
                    \* and certificates that come to their last 30 days

Deployers  == {"hub", "spoke"}
Containers == DOMAIN Deployer

ASSUME DeployerAssumption ==
    /\ Deployer \in [Containers -> Deployers]
    /\ MaxTurns \in Nat

NoCa  == <<"nobody", 0>>
SomeCa == Deployers \X (1 .. MaxTurns + 1)
AnyCa  == SomeCa \cup {NoCa}

VARIABLES
    ca,         \* how many CAs each deployer had; the last is its own
    entry,      \* the spoke's current SSH entry names a hub, or not
    provider,   \* the spoke's memoised provider: none, local or remote
    caCache,    \* RemoteCaProvider: the CA certificate it was given first
    leafCache,  \* and the signer of each server certificate it was given
    known,      \* how that stands to the hub's CA
    op,         \* what is about to write a container's certificate
    leaf,       \* the signer of the certificate each container serves
    chain,      \* the CA in its fullchain.pem
    due,        \* the certificate has less than 30 days left
    settled,    \* whose present CA must have signed it; mixed caches may not fit
    foreign,    \* imported CAs, which carry a name of their own
    run,        \* the renewal each deployer has under way
    turns

cas    == <<ca, known, foreign>>
mode   == <<entry, provider>>
caches == <<caCache, leafCache>>
disk   == <<leaf, chain, due, settled>>
vars   == <<ca, known, entry, provider, caCache, leafCache, op, leaf, chain, due,
            settled, foreign, run, turns>>

\* What the outside world does is counted.
Turn == turns < MaxTurns /\ turns' = turns + 1

\* Nothing changed since the caches were filled, the hub's CA did, or an answer
\* of the hub has moreover put its CA in place of another one.
Known == {"present", "past", "mixed"}

\* An orphan's provider was reset: it goes on with caches nobody else will ask.
Idle == [kind |-> "idle", ca |-> NoCa, signed |-> NoCa, cached |-> NoCa,
         known |-> "past", orphan |-> FALSE]

\* CertificateAutoRenewalService.running, and what its script has left to do.
NoRun == [on |-> FALSE, listed |-> FALSE, forced |-> FALSE, only |-> {},
          ca |-> NoCa, todo |-> {}, fresh |-> FALSE]

Ops  == [kind : {"idle", "local", "asking", "remote"}, ca : AnyCa, signed : AnyCa,
         cached : AnyCa, known : Known, orphan : BOOLEAN]
Runs == [on : BOOLEAN, listed : BOOLEAN, forced : BOOLEAN, only : SUBSET Containers,
         ca : AnyCa, todo : SUBSET Containers, fresh : BOOLEAN]

TypeOK ==
    /\ ca \in [Deployers -> 1 .. MaxTurns + 1] /\ known \in Known
    /\ entry \in {"hub", "own"} /\ provider \in {"none", "local", "remote"}
    /\ caCache \in AnyCa /\ leafCache \in [Containers -> AnyCa]
    /\ op \in [Containers -> Ops]
    /\ leaf \in [Containers -> AnyCa] /\ chain \in [Containers -> AnyCa]
    /\ due \subseteq Containers
    /\ settled \in [Containers -> Deployers \cup {"nobody", "mixed"}]
    /\ turns \in 0 .. MaxTurns
    /\ foreign \subseteq SomeCa
    /\ run \in [Deployers -> Runs]

\* getCA of CertificateAuthorityService.
Own(d) == <<d, ca[d]>>

\* HubCaSign and HubCaCert: the hub's provider is its own CA.
AtHub == Own("hub")

Empty == [c \in Containers |-> NoCa]

Init ==
    /\ ca = [d \in Deployers |-> 1] /\ known = "present"
    /\ entry = "hub" /\ provider = "none"
    /\ caCache = NoCa /\ leafCache = Empty
    /\ op = [c \in Containers |-> Idle]
    /\ leaf = Empty /\ chain = Empty /\ due = {}
    /\ settled = [c \in Containers |-> "nobody"]
    /\ turns = 0
    /\ foreign = {} /\ run = [d \in Deployers |-> NoRun]

----------------------------------------------------------------------------
(* CAs and modes                                                           *)

\* generateCA, or setCA with an imported pair.
NextCa(d) == Turn /\ ca' = [ca EXCEPT ![d] = @ + 1]

Past(k) == IF k = "present" THEN "past" ELSE k

\* A task of the provider in use awaits the hub's CA.
HubIsAsked == \E c \in Containers : op[c].kind = "asking" /\ ~op[c].orphan

\* A generated CA is always "Proxvex CA". What was signed before stays where it is.
ReplaceCa(d) ==
    /\ NextCa(d)
    /\ foreign' \in {foreign, foreign \cup {<<d, ca[d] + 1>>}}
    /\ run' = [e \in Deployers |-> [run[e] EXCEPT !.fresh = @ /\ e # d]]
    /\ known' = IF d = "hub" /\ (caCache # NoCa \/ HubIsAsked) THEN Past(known) ELSE known
    /\ op' = [c \in Containers |-> [op[c] EXCEPT !.known = Past(@)]]
    /\ settled' = [c \in Containers |-> IF settled[c] = d THEN "nobody" ELSE settled[c]]
    /\ UNCHANGED <<mode, caches, leaf, chain, due>>

\* Mutant: signed certificates survive the provider that asked for them.
Forget_KeepsLeaves ==
    /\ provider' = "none" /\ caCache' = NoCa /\ known' = "present"
    /\ UNCHANGED leafCache

\* resetProviders: the next provider starts with empty caches.
Forget ==
    /\ provider' = "none" /\ caCache' = NoCa /\ known' = "present"
    /\ leafCache' = Empty

Orphaned(o) == IF o.kind \in {"asking", "remote"} THEN [o EXCEPT !.orphan = TRUE] ELSE o

\* POST of an SSH entry resets the providers.
SaveEntry(e) ==
    /\ Turn
    /\ entry' = e
    /\ Forget
    /\ op' = [c \in Containers |-> Orphaned(op[c])]
    /\ UNCHANGED <<ca, foreign, disk, run>>

\* PUT and DELETE change the current entry as well and reset nothing.
SelectEntry(e) ==
    /\ Turn /\ e # entry
    /\ entry' = e
    /\ UNCHANGED <<cas, provider, caches, op, disk, run>>

\* A restart of the spoke; its tasks and renewals are lost with it.
RestartSpoke ==
    /\ provider # "none"
    /\ Forget
    /\ op' = [c \in Containers |-> IF Deployer[c] = "spoke" THEN Idle ELSE op[c]]
    /\ run' = [run EXCEPT !["spoke"] = NoRun]
    /\ UNCHANGED <<ca, foreign, entry, disk, turns>>

----------------------------------------------------------------------------
(* A task with the SSL addon: injectCertificateRequests, then the script   *)

\* getCaProvider.
Chosen ==
    IF provider # "none" THEN provider
    ELSE IF entry = "hub" THEN "remote" ELSE "local"

\* Nothing is awaited between the CA and the signature of the own deployer.
DeployLocally(c) ==
    /\ op[c] = Idle
    /\ Deployer[c] = "hub" \/ Chosen = "local"
    /\ LET d == Deployer[c] IN
          /\ op' = [op EXCEPT ![c] = [Idle EXCEPT !.kind = "local", !.ca = Own(d),
                                                  !.signed = Own(d), !.known = "present"]]
          /\ provider' = IF d = "spoke" THEN "local" ELSE provider
    /\ UNCHANGED <<cas, entry, caches, disk, run, turns>>

\* getCACert: the cached CA, or the hub is asked. What is cached for a hostname
\* only its own tasks change, one at a time.
DeployFromHub(c) ==
    /\ op[c] = Idle
    /\ Deployer[c] = "spoke" /\ Chosen = "remote"
    /\ provider' = "remote"
    /\ op' = [op EXCEPT ![c] =
          [Idle EXCEPT !.kind = IF caCache = NoCa THEN "asking" ELSE "remote",
                       !.ca = caCache, !.cached = leafCache[c],
                       !.known = IF caCache = NoCa THEN "present" ELSE known]]
    /\ UNCHANGED <<cas, entry, caches, disk, run, turns>>

\* HubCaCert: the CA the hub has now.
HubAnswers(c) ==
    /\ op[c].kind = "asking" /\ op[c].ca = NoCa
    /\ op' = [op EXCEPT ![c].ca = AtHub]
    /\ UNCHANGED <<cas, mode, caches, disk, run, turns>>

\* The answer arrives behind the await, and is cached whatever is cached by then.
CaFromHub(c) ==
    /\ op[c].kind = "asking" /\ op[c].ca # NoCa
    /\ op' = [op EXCEPT ![c].kind = "remote"]
    /\ IF op[c].orphan
       THEN UNCHANGED <<caCache, known>>
       ELSE /\ caCache' = op[c].ca
            /\ known' = IF caCache \in {NoCa, op[c].ca} THEN known ELSE "mixed"
    /\ UNCHANGED <<ca, foreign, mode, leafCache, disk, run, turns>>

\* A hub that does not answer: the task goes on without a certificate.
HubFails(c) ==
    /\ op[c].kind = "asking"
    /\ op' = [op EXCEPT ![c] = Idle]
    /\ UNCHANGED <<cas, mode, caches, disk, run, turns>>

\* ensureServerCert: cached by hostname, or signed by the hub; a hub that does
\* not answer fails the request. The answer's way back is part of the step, since
\* nobody else looks at this hostname's entry meanwhile.
SignAtHub(c) ==
    /\ op[c].kind = "remote" /\ op[c].signed = NoCa
    /\ \/ LET signer == IF op[c].cached # NoCa THEN op[c].cached ELSE AtHub IN
             /\ op' = [op EXCEPT ![c].signed = signer]
             /\ leafCache' = IF op[c].orphan THEN leafCache
                             ELSE [leafCache EXCEPT ![c] = signer]
       \/ op' = [op EXCEPT ![c] = Idle] /\ UNCHANGED leafCache
    /\ UNCHANGED <<cas, mode, caCache, disk, run, turns>>

\* Mutant: the certificate on disk is not verified against the CA.
KeepsExisting_AnyCa(c) == leaf[c] # NoCa /\ c \notin due

\* cert_should_skip_write: same names, valid for 30 days, verifies.
KeepsExisting(c) == leaf[c] = op[c].ca /\ c \notin due

\* Its present signer is the present CA of who signed, if nothing came between.
Settled(c, d, how) ==
    settled' = [settled EXCEPT ![c] = CASE how = "present" -> d
                                        [] how = "mixed"   -> "mixed"
                                        [] OTHER           -> "nobody"]

WriteDeployed(c) ==
    /\ op[c].kind \in {"local", "remote"} /\ op[c].signed # NoCa
    /\ \/ /\ KeepsExisting(c)
          /\ IF settled[c] = "mixed" THEN UNCHANGED settled
                                    ELSE Settled(c, op[c].ca[1], op[c].known)
          /\ UNCHANGED <<leaf, chain, due>>
       \/ /\ ~KeepsExisting(c)
          /\ leaf' = [leaf EXCEPT ![c] = op[c].signed]
          /\ chain' = [chain EXCEPT ![c] = op[c].ca]
          /\ due' = due \ {c}
          /\ Settled(c, op[c].ca[1], op[c].known)
       \/ UNCHANGED <<leaf, chain, due, settled>>
    /\ op' = [op EXCEPT ![c] = Idle]
    /\ UNCHANGED <<cas, mode, caches, run, turns>>

----------------------------------------------------------------------------
(* Renewal: by the timer, by renew-all or for one host                     *)

\* filterRenewableCerts: signed by some "Proxvex CA", and due or forced.
Renewable(c, forced) == leaf[c] \notin foreign \cup {NoCa} /\ (c \in due \/ forced)

\* runRenewal: one at a time, and none without a host; an empty list of hostnames
\* stands for all of them.
BeginRenewal(d, forced, only) ==
    /\ ~run[d].on /\ \E c \in Containers : Deployer[c] = d
    /\ run' = [run EXCEPT ![d] =
                 [NoRun EXCEPT !.on = TRUE, !.forced = forced, !.only = only]]
    /\ UNCHANGED <<cas, mode, caches, op, disk, turns>>

Targets(d) == {c \in Containers : /\ Deployer[c] = d
                                  /\ run[d].only = {} \/ c \in run[d].only
                                  /\ Renewable(c, run[d].forced)}

\* The certificates are listed and the deployer's own CA is read, on a spoke as
\* well; a host that cannot be asked is skipped.
ListForRenewal(d) ==
    /\ run[d].on /\ ~run[d].listed
    /\ \E todo \in {Targets(d), {}} :
          run' = [run EXCEPT ![d] = [NoRun EXCEPT !.on = TRUE, !.listed = TRUE,
                                        !.todo = todo, !.ca = Own(d), !.fresh = TRUE]]
    /\ UNCHANGED <<cas, mode, caches, op, disk, turns>>

\* conf-renew-certificates.sh takes one host after the other; the result of the
\* script is not read.
WriteRenewed(c) ==
    LET d == Deployer[c] IN
    /\ c \in run[d].todo
    /\ run' = [run EXCEPT ![d].todo = @ \ {c}]
    /\ \/ /\ leaf' = [leaf EXCEPT ![c] = run[d].ca]
          /\ chain' = [chain EXCEPT ![c] = run[d].ca]
          /\ due' = due \ {c}
          /\ Settled(c, d, IF run[d].fresh THEN "present" ELSE "past")
       \/ UNCHANGED <<leaf, chain, due, settled>>
    /\ UNCHANGED <<cas, mode, caches, op, turns>>

\* finally: running = false.
EndRenewal(d) ==
    /\ run[d].on /\ run[d].listed /\ run[d].todo = {}
    /\ run' = [run EXCEPT ![d] = NoRun]
    /\ UNCHANGED <<cas, mode, caches, op, disk, turns>>

ComesDue(c) ==
    /\ Turn /\ leaf[c] # NoCa
    /\ due' = due \cup {c}
    /\ UNCHANGED <<cas, mode, caches, op, leaf, chain, settled, run>>

Signing(c) == \/ DeployLocally(c) \/ DeployFromHub(c)
              \/ HubAnswers(c) \/ CaFromHub(c) \/ HubFails(c)
              \/ SignAtHub(c) \/ WriteDeployed(c)

\* The timer, POST CertificateAutoRenewalCheck, or another page's renewal.
Check(d) == \E forced \in BOOLEAN : BeginRenewal(d, forced, {})

Renewing(d) == ListForRenewal(d) \/ EndRenewal(d)

Next ==
    \/ \E d \in Deployers : ReplaceCa(d) \/ Check(d) \/ Renewing(d)
    \/ \E e \in {"hub", "own"} : SaveEntry(e) \/ SelectEntry(e)
    \/ RestartSpoke
    \/ \E c \in Containers : Signing(c) \/ WriteRenewed(c) \/ ComesDue(c)

Spec == Init /\ [][Next]_vars

----------------------------------------------------------------------------
\* A certificate and the CA in its chain fit, except on a spoke whose hub got a
\* new CA between the two: RemoteCaProvider caches the CA first and certificates
\* behind it, and never again, so that none is older than the CA it goes with.
\* That may go wrong only if two tasks asked while no CA was cached and the hub
\* answered them with different ones ("mixed"): the later answer takes the
\* earlier one's place beside the certificates that are cached (line 240).
ChainNotNewer ==
    \A c \in Containers :
        leaf[c] # chain[c] /\ settled[c] # "mixed" =>
                              leaf[c][1] = "hub" /\ chain[c][1] = "hub"
                              /\ leaf[c][2] > chain[c][2]

\* A task or a renewal that began behind the last change of a CA leaves a
\* certificate that CA has signed, whatever was on disk before: no container
\* keeps one that nobody trusts any more (conf-generate-certificates.sh:95).
FreshSignatureHeals ==
    \A c \in Containers : settled[c] \in Deployers => leaf[c] = Own(settled[c])

=============================================================================
