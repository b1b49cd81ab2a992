-------------------------- MODULE CertificateDialog --------------------------
(***************************************************************************)
(* The certificate dialog of one deployer, beside everything that happens  *)
(* to its certificates (module Certificates).                              *)
(*                                                                         *)
(* The dialog shows what it was told when it asked, and a request of its   *)
(* own is answered when the server is done, minutes later for a renewal.   *)
(* Requests overlap, answers overtake each other, and each of them may be  *)
(* lost on its way.                                                        *)
(***************************************************************************)
EXTENDS Certificates

CONSTANTS
    MaxCalls,   \* bound: requests of the page at a time
    MaxClicks   \* bound: requests the operator sets off

ASSUME DialogAssumption ==
    MaxCalls \in Nat \ {0, 1} /\ MaxClicks \in Nat

VARIABLES
    page,    \* what the dialog shows
    calls,   \* its requests under way
    clicks

dialog == <<page, calls, clicks>>
world  == <<cas, mode, caches, op, disk, run, turns>>
all    == <<vars, dialog>>

Slots == 1 .. MaxCalls
At    == page.at            \* the deployer whose page this is
Mine  == {c \in Containers : Deployer[c] = At}
Rows  == [Containers -> AnyCa]
Blank == [c \in Containers |-> NoCa]

\* hosts are the hostnames a renewal was asked for, {} for all of them; ca and
\* rows are the answer.
Call(kind, hosts) == [kind |-> kind, hosts |-> hosts, at |-> "sent", ca |-> NoCa,
                      rows |-> Blank]
NoCall == Call("none", {})

Renewals == {"one", "selected", "all"}

\* renewingAll, renewingSelected, loadingCa, loadingPve: what disables a button.
Asking(kinds) == \E k \in Slots : calls[k].kind \in kinds

Pages == [at : Deployers, ca : AnyCa, rows : Rows, marked : SUBSET Containers,
          spinning : SUBSET Containers, spoke : BOOLEAN]
Calls == [kind : {"none", "list", "replace", "pve"} \cup Renewals, hosts : SUBSET Containers,
          at : {"sent", "running", "answered"}, ca : AnyCa, rows : Rows]

DialogTypeOK ==
    /\ page \in Pages /\ page.marked \cup page.spinning \subseteq Mine
    /\ calls \in [Slots -> Calls] /\ \A k \in Slots : calls[k].hosts \subseteq Mine
    /\ clicks \in 0 .. MaxClicks

\* ngOnInit: of what it asks for only the rows come later here.
DialogInit ==
    /\ Init
    /\ \E d \in Deployers :
          page = [at |-> d, ca |-> Own(d), rows |-> Blank, marked |-> {}, spinning |-> {},
                  spoke |-> d = "spoke" /\ entry = "hub"]
    /\ calls = [k \in Slots |-> IF k = 1 THEN Call("list", {}) ELSE NoCall]
    /\ clicks = 0

----------------------------------------------------------------------------
(* What the operator does                                                  *)

\* The common name is all the dialog compares: every generated CA has the same,
\* and here every imported one.
SameName(one, other) == (one \in foreign) = (other \in foreign)

CanRenewCert(c) ==
    /\ page.ca # NoCa /\ page.rows[c] # NoCa
    /\ SameName(page.rows[c], page.ca)

Ask(kind, hosts) ==
    /\ clicks < MaxClicks
    /\ clicks' = clicks + 1
    /\ \E k \in Slots : /\ calls[k] = NoCall
                        /\ \A j \in Slots : j < k => calls[j] # NoCall
                        /\ calls' = [calls EXCEPT ![k] = Call(kind, hosts)]
    /\ UNCHANGED world

\* A mark stays until the next rows arrive. The bound: nobody marks a row when
\* nothing more will be asked.
ToggleRow(c) ==
    /\ clicks < MaxClicks
    /\ CanRenewCert(c)
    /\ page' = [page EXCEPT !.marked = IF c \in @ THEN @ \ {c} ELSE @ \cup {c}]
    /\ UNCHANGED <<world, calls, clicks>>

ToggleAll ==
    /\ clicks < MaxClicks
    /\ \E checked \in BOOLEAN :
          page' = [page EXCEPT !.marked = IF checked
                      THEN @ \cup {c \in Mine : CanRenewCert(c)} ELSE {}]
    /\ UNCHANGED <<world, calls, clicks>>

RenewOne(c) ==
    /\ CanRenewCert(c) /\ c \notin page.spinning /\ ~Asking({"all"})
    /\ page' = [page EXCEPT !.spinning = @ \cup {c}]
    /\ Ask("one", {c})

SelectedHostnames == {c \in page.marked : page.rows[c] # NoCa}

RenewSelected ==
    /\ SelectedHostnames # {} /\ page.ca # NoCa /\ ~Asking({"all", "selected"})
    /\ page' = [page EXCEPT !.spinning = @ \cup SelectedHostnames]
    /\ Ask("selected", SelectedHostnames)

RenewAll ==
    /\ \E c \in Mine : page.rows[c] # NoCa
    /\ page.ca # NoCa /\ ~Asking({"all", "selected"})
    /\ Ask("all", {})
    /\ UNCHANGED page

\* generateCa, importCa: not offered on a spoke.
ReplaceByDialog ==
    /\ ~page.spoke /\ ~Asking({"replace"})
    /\ Ask("replace", {})
    /\ UNCHANGED page

ProvisionPve ==
    /\ page.ca # NoCa /\ ~Asking({"pve"})
    /\ Ask("pve", {})
    /\ UNCHANGED page

----------------------------------------------------------------------------
(* What the server does with a request                                     *)

Answered(k, ca_, rows) ==
    calls' = [calls EXCEPT ![k].at = "answered", ![k].ca = ca_, ![k].rows = rows]

\* GET CertificatesAll: a host that cannot be asked has no rows.
ServeList(k) ==
    /\ calls[k].kind = "list" /\ calls[k].at = "sent"
    /\ \E rows \in {[c \in Containers |-> IF c \in Mine THEN leaf[c] ELSE NoCa], Blank} :
          Answered(k, NoCa, rows)
    /\ UNCHANGED <<world, page, clicks>>

ServeReplace(k) ==
    /\ calls[k].kind = "replace" /\ calls[k].at = "sent"
    /\ ReplaceCa(At)
    /\ Answered(k, <<At, ca'[At]>>, calls[k].rows)
    /\ UNCHANGED <<page, clicks>>

\* A renewal that is under way, for whomever it is, is all the server has to say.
ServeRenewal(k) ==
    /\ calls[k].kind \in Renewals /\ calls[k].at = "sent"
    /\ \/ /\ BeginRenewal(At, TRUE, calls[k].hosts)
          /\ calls' = [calls EXCEPT ![k].at = "running"]
       \/ /\ run[At].on
          /\ Answered(k, NoCa, calls[k].rows)
          /\ UNCHANGED world
    /\ UNCHANGED <<page, clicks>>

\* The request that began the renewal is answered when it ends.
EndAndAnswer(d) ==
    /\ EndRenewal(d)
    /\ calls' = [k \in Slots |-> IF d = At /\ calls[k].at = "running"
                    THEN [calls[k] EXCEPT !.at = "answered"] ELSE calls[k]]
    /\ UNCHANGED <<page, clicks>>

\* The script's result is not read, and only the host's own web server uses the
\* certificate it writes.
ServeProvision(k) ==
    /\ calls[k].kind = "pve" /\ calls[k].at = "sent"
    /\ Answered(k, NoCa, calls[k].rows)
    /\ UNCHANGED <<world, page, clicks>>

Serve(k) == ServeList(k) \/ ServeReplace(k) \/ ServeRenewal(k) \/ ServeProvision(k)

----------------------------------------------------------------------------
(* What the dialog does with an answer                                     *)

Arrives(k) ==
    /\ calls[k].at = "answered"
    /\ LET call == calls[k] IN
          \/ /\ call.kind = "replace"
             /\ page' = [page EXCEPT !.ca = call.ca]
             /\ calls' = [calls EXCEPT ![k] = NoCall]
          \/ /\ call.kind = "list"
             /\ page' = [page EXCEPT !.rows = call.rows, !.marked = {}]
             /\ calls' = [calls EXCEPT ![k] = NoCall]
          \/ /\ call.kind \in Renewals
             /\ page' = [page EXCEPT !.spinning = @ \ call.hosts,
                            !.marked = IF call.kind = "selected" THEN {} ELSE @]
             /\ calls' = [calls EXCEPT ![k] = Call("list", {})]
          \/ /\ call.kind = "pve"
             /\ calls' = [calls EXCEPT ![k] = NoCall]
             /\ UNCHANGED page
    /\ UNCHANGED <<world, clicks>>

\* A request or its answer is lost; the server goes on with what it began.
Fails(k) ==
    /\ calls[k] # NoCall
    /\ page' = [page EXCEPT !.spinning = @ \ calls[k].hosts]
    /\ calls' = [calls EXCEPT ![k] = NoCall]
    /\ UNCHANGED <<world, clicks>>

Click ==
    \/ \E c \in Mine : ToggleRow(c) \/ RenewOne(c)
    \/ ToggleAll \/ RenewSelected \/ RenewAll \/ ReplaceByDialog \/ ProvisionPve

\* Everything that is not the dialog's.
Elsewhere ==
    /\ \/ \E d \in Deployers : ReplaceCa(d) \/ Check(d) \/ ListForRenewal(d)
       \/ \E e \in {"hub", "own"} : SaveEntry(e) \/ SelectEntry(e)
       \/ \E c \in Containers : Signing(c) \/ WriteRenewed(c) \/ ComesDue(c)
    /\ UNCHANGED dialog

\* The requests to a spoke that restarts fail.
Restart ==
    /\ RestartSpoke
    /\ IF At = "spoke"
       THEN /\ calls' = [k \in Slots |-> NoCall]
            /\ page' = [page EXCEPT !.spinning = {}]
       ELSE UNCHANGED <<page, calls>>
    /\ UNCHANGED clicks

DialogNext ==
    \/ Elsewhere
    \/ Restart
    \/ \E d \in Deployers : EndAndAnswer(d)
    \/ Click
    \/ \E k \in Slots : Serve(k) \/ Arrives(k) \/ Fails(k)

DialogSpec == DialogInit /\ [][DialogNext]_all
=============================================================================
