------------------------- MODULE BootstrapDelivery -------------------------
(***************************************************************************)
(* How the bootstrap Secret of a sandbox is published and taken away.  One *)
(* materialization issues a credential, journals a plan, creates the       *)
(* Secret, binds its uid in the journal and hands its name to the          *)
(* projection; workers sweep the journal and delete what was consumed,     *)
(* given up or has expired.                                                *)
(*                                                                         *)
(* A materialization and a worker call the database and the provider step  *)
(* by step, and may fail or end between any two steps.  A create whose     *)
(* answer is lost may still arrive later.  Someone else may delete, edit   *)
(* or replace the object.                                                  *)
(***************************************************************************)
EXTENDS Naturals, Sequences, FiniteSets, Functions

CONSTANTS
  Creds,     \* bootstrap credentials, one materialization each
  Abandoned, \* those given up, fenced and expired before their object was created
  Workers,   \* sweeping workers
  Limit,     \* entries of one sweep
  MaxFaults  \* failed calls, ended processes and interventions from outside

ASSUME DeliveryAssumption ==
  /\ Creds # {} /\ Creds \cap Workers = {} /\ Abandoned \subseteq Creds /\ Cardinality(Abandoned) \in Nat
  /\ Limit \in Nat \ {0} /\ MaxFaults \in Nat

VARIABLES
  cred,    \* the registered credential: NONE, PENDING or CONSUMED
  expired, \* its deadline has passed
  fenced,  \* its Attempt or binding is no longer current
  row,     \* the journal entry
  due,     \* entries whose retry time has come, by retry time
  later,   \* the other entries, by retry time
  secret,  \* the object under the Secret's name
  flight,  \* credentials whose create was given up and may still arrive
  created, \* objects created under a name; a uid is the number of its creation
  pub,     \* materializations
  clean,   \* cleanups, of materializations and of workers
  pod,     \* NO projection, projected (YES), the Pod has the material (HELD)
  faults

registry == <<cred, expired, fenced>>
journal == <<row, due, later>>
provider == <<secret, flight, created>>
vars == <<registry, journal, provider, pub, clean, pod, faults>>

Procs == Creds \cup Workers

NoRow == [saved |-> FALSE, uid |-> 0, requested |-> FALSE, cleaned |-> FALSE]
NoSecret == [uid |-> 0, owned |-> FALSE]
Fresh(c) == [uid |-> created[c] + 1, owned |-> TRUE]
Resting(c) == [at |-> "IDLE", c |-> c, ref |-> 0, seen |-> NoSecret, whole |-> TRUE, batch |-> <<>>]

\* A resting worker names any entry.
AnyCred == CHOOSE c \in Creds : TRUE

Ours(c) == secret[c].owned

Fault == faults < MaxFaults /\ faults' = faults + 1

\* An entry has one place at most.
Without(q, c) ==
  IF c \notin Range(q) THEN q
  ELSE LET k == CHOOSE i \in DOMAIN q : q[i] = c
       IN  SubSeq(q, 1, k - 1) \o SubSeq(q, k + 1, Len(q))

-----------------------------------------------------------------------------
(* Registry and journal *)

\* CheckBootstrap: registered, not consumed, not expired and not fenced.
CheckBootstrap(c) == cred[c] = "PENDING" /\ ~expired[c] /\ ~fenced[c]

\* Mutant: an entry keeps its place when its cleanup is asked for.
RetryLaterMutant(c) == UNCHANGED <<due, later>>

\* The next attempt is five seconds away.
RetryLater(c) ==
  /\ due' = Without(due, c)
  /\ later' = Append(Without(later, c), c)

\* The entry is due at once, behind the entries that are due already.
RetryNow(c) ==
  /\ due' = Append(Without(due, c), c)
  /\ later' = Without(later, c)

RequestCleanup(c) ==
  /\ row[c].saved
  /\ row' = [row EXCEPT ![c].requested = TRUE]
  /\ RetryLater(c)

\* The uid is bound once, and not any more when the entry is cleaned.
Bindable(c, uid) == row[c].uid \in {0, uid} /\ ~row[c].cleaned

\* An entry that is due and requested or expired, by its place.
Open(i) == ~row[due[i]].cleaned /\ (row[due[i]].requested \/ expired[due[i]])

\* DueCleanup: the places of the first open entries, in their order.
DueCleanup(at) ==
  /\ \A k \in DOMAIN at : Open(at[k]) /\ \A j \in 1..k - 1 : at[j] < at[k]
  /\ \A i \in DOMAIN due : Open(i) => i \in Range(at) \/ (Len(at) = Limit /\ at[Limit] < i)

-----------------------------------------------------------------------------
(* Materialization *)

At(c, at) == pub' = [pub EXCEPT ![c].at = at]

\* A call fails, or the credential's deadline ends the context.
Interrupted(c) ==
  \/ expired[c] /\ UNCHANGED faults
  \/ Fault

\* Materialize fails: Delivery.Cleanup runs once in a context of its own.
StartCleanup(c) ==
  /\ At(c, "FAILED")
  /\ clean' = [clean EXCEPT ![c] = [Resting(c) EXCEPT !.at = "REQUEST"]]

\* Issued and registered.  Publish begins with the authority check.
Issue(c) ==
  /\ pub[c].at = "IDLE" /\ cred[c] = "NONE"
  /\ cred' = [cred EXCEPT ![c] = "PENDING"]
  /\ At(c, "AUTHORIZE")
  /\ UNCHANGED <<expired, fenced, journal, provider, clean, pod, faults>>

Authorize(c) ==
  /\ pub[c].at = "AUTHORIZE"
  /\ IF fenced[c] \/ expired[c] THEN StartCleanup(c) ELSE At(c, "PLAN") /\ UNCHANGED clean
  /\ UNCHANGED <<registry, journal, provider, pod, faults>>

\* SavePlan has one winner, and only for the latest, unconsumed and unexpired
\* credential.  When its answer is lost, the caller has no plan to undo.
SavePlan(c) ==
  /\ pub[c].at = "PLAN"
  /\ IF cred[c] = "PENDING" /\ ~expired[c] /\ ~row[c].saved
     THEN /\ row' = [row EXCEPT ![c].saved = TRUE]
          /\ due' = Append(due, c) /\ UNCHANGED later
          /\ \/ At(c, "LOAD") /\ UNCHANGED <<clean, faults>>
             \/ Fault /\ StartCleanup(c)
     ELSE StartCleanup(c) /\ UNCHANGED <<journal, faults>>
  /\ UNCHANGED <<registry, provider, pod>>

LoadDelivery(c) ==
  /\ pub[c].at = "LOAD"
  /\ At(c, IF row[c].requested \/ row[c].cleaned THEN "UNDO" ELSE "CHECK")
  /\ UNCHANGED <<registry, journal, provider, clean, pod, faults>>

CheckBefore(c) ==
  /\ pub[c].at = "CHECK"
  /\ At(c, IF CheckBootstrap(c) THEN "CREATE" ELSE "UNDO")
  /\ UNCHANGED <<registry, journal, provider, clean, pod, faults>>

\* Create, or Get when the name is taken: only an object of this credential
\* with these bytes is accepted.
Create(c) ==
  LET found == IF secret[c].uid = 0 THEN Fresh(c) ELSE secret[c]
  IN  /\ pub[c].at = "CREATE"
      /\ secret' = [secret EXCEPT ![c] = found]
      /\ created' = [created EXCEPT ![c] = IF secret[c].uid = 0 THEN @ + 1 ELSE @]
      /\ pub' = [pub EXCEPT ![c].at = IF found.owned THEN "RECHECK" ELSE "UNDO",
                            ![c].ref = IF found.owned THEN found.uid ELSE 0]
      /\ UNCHANGED <<registry, journal, flight, clean, pod, faults>>

\* The call is given up; the request may still be on its way.
CreateLost(c) ==
  /\ pub[c].at = "CREATE" /\ Interrupted(c)
  /\ flight' = flight \cup {c}
  /\ At(c, "UNDO")
  /\ UNCHANGED <<registry, journal, secret, created, clean, pod>>

\* A credential that was consumed, fenced or has expired meanwhile, or a check
\* that fails: the object is deleted before Publish fails.
CheckAfter(c) ==
  /\ pub[c].at = "RECHECK"
  /\ \/ CheckBootstrap(c) /\ At(c, "BIND") /\ UNCHANGED <<clean, faults>>
     \/ /\ (~CheckBootstrap(c) /\ UNCHANGED faults) \/ Fault
        /\ At(c, "WITHDRAW")
        /\ clean' = [clean EXCEPT ![c] = [Resting(c) EXCEPT !.at = "GET", !.ref = pub[c].ref, !.whole = FALSE]]
  /\ UNCHANGED <<registry, journal, provider, pod>>

PublishBind(c) ==
  IF Bindable(c, pub[c].ref)
  THEN At(c, "CONFIRM") /\ row' = [row EXCEPT ![c].uid = pub[c].ref]
  ELSE At(c, "UNDO") /\ UNCHANGED row

BindPublished(c) ==
  /\ pub[c].at = "BIND"
  /\ PublishBind(c)
  /\ UNCHANGED <<registry, due, later, provider, clean, pod, faults>>

\* The entry is read again with the authority.
Confirm(c) ==
  /\ pub[c].at = "CONFIRM"
  /\ At(c, IF row[c].requested \/ row[c].cleaned \/ fenced[c] THEN "UNDO" ELSE "RESOLVE")
  /\ UNCHANGED <<registry, journal, provider, clean, pod, faults>>

Resolve(c) ==
  /\ pub[c].at = "RESOLVE"
  /\ At(c, IF CheckBootstrap(c) /\ Ours(c) /\ secret[c].uid = pub[c].ref THEN "PROJECT" ELSE "UNDO")
  /\ UNCHANGED <<registry, journal, provider, clean, pod, faults>>

\* The projection persists the name and acquires the sandbox; its context ends
\* with the credential.
Project(c) ==
  /\ pub[c].at = "PROJECT"
  /\ pod' = [pod EXCEPT ![c] = "YES"]
  /\ \/ ~expired[c] /\ At(c, "DONE") /\ UNCHANGED <<clean, faults>>
     \/ Interrupted(c) /\ StartCleanup(c)
  /\ UNCHANGED <<registry, journal, provider>>

Journaled == {"LOAD", "CHECK", "BIND", "CONFIRM", "RESOLVE"}

\* A call does not succeed.
PublishFails(c) ==
  /\ pub[c].at \in Journaled \cup {"AUTHORIZE", "PLAN", "PROJECT"}
  /\ Interrupted(c)
  /\ IF pub[c].at \in Journaled THEN At(c, "UNDO") /\ UNCHANGED clean ELSE StartCleanup(c)
  /\ UNCHANGED <<registry, journal, provider, pod>>

\* Publish asks for the cleanup when it fails after the plan; it does not look
\* at the answer.
Undo(c) ==
  /\ pub[c].at = "UNDO"
  /\ \/ RequestCleanup(c) /\ UNCHANGED faults
     \/ Fault /\ UNCHANGED journal
  /\ StartCleanup(c)
  /\ UNCHANGED <<registry, provider, pod>>

\* The process ends.  Nothing takes a materialization up again.
Crash(c) ==
  /\ pub[c].at \notin {"IDLE", "DONE", "ENDED"} /\ Fault
  /\ At(c, "ENDED") /\ clean' = [clean EXCEPT ![c] = Resting(c)]
  /\ UNCHANGED <<registry, journal, provider, pod>>

-----------------------------------------------------------------------------
(* Cleanup *)

\* The end of a cleanup: a worker goes on with its sweep, a materialization
\* has failed, and a Publish that withdrew its object goes on to fail.
End(p) ==
  IF p \in Workers
  THEN /\ clean' = [clean EXCEPT ![p] =
             IF @.batch = <<>> THEN Resting(AnyCred)
             ELSE [Resting(Head(@.batch)) EXCEPT !.at = "REQUEST", !.batch = Tail(clean[p].batch)]]
       /\ UNCHANGED pub
  ELSE /\ clean' = [clean EXCEPT ![p] = Resting(p)]
       /\ At(p, IF clean[p].whole THEN "ENDED" ELSE "UNDO")

Goes(p, at) == clean' = [clean EXCEPT ![p].at = at] /\ UNCHANGED pub

\* Sweep takes the entries of one pass.
Sweep(w) ==
  /\ clean[w].at = "IDLE"
  /\ \E n \in 1..Limit : \E at \in [1..n -> DOMAIN due] :
       /\ DueCleanup(at)
       /\ clean' = [clean EXCEPT ![w] = [Resting(due[at[1]]) EXCEPT
            !.at = "REQUEST", !.batch = [k \in 1..n - 1 |-> due[at[k + 1]]]]]
  /\ UNCHANGED <<registry, journal, provider, pub, pod, faults>>

\* A materialization that failed before its plan has nothing to undo.
CleanRequest(p) ==
  /\ clean[p].at = "REQUEST"
  /\ \/ RequestCleanup(clean[p].c) /\ Goes(p, "LOAD")
     \/ /\ ~row[clean[p].c].saved /\ UNCHANGED journal
        /\ At(p, "ENDED") /\ clean' = [clean EXCEPT ![p] = Resting(p)]
  /\ UNCHANGED <<registry, provider, pod, faults>>

CleanLoad(p) ==
  LET entry == row[clean[p].c]
  IN  /\ clean[p].at = "LOAD"
      /\ \/ entry.cleaned /\ End(p)
         \/ /\ ~entry.cleaned /\ UNCHANGED pub
            /\ clean' = [clean EXCEPT ![p].at = IF entry.uid = 0 THEN "RECOVER" ELSE "GET",
                                      ![p].ref = entry.uid]
      /\ UNCHANGED <<registry, journal, provider, pod, faults>>

\* Mutant: an absent object needs no more cleanup.
AbsentMutant(p) == Goes(p, "COMPLETE")

\* A plan whose object is absent is kept: the create may still arrive.
Absent(p) == End(p)

\* Recover accepts only the object of the plan.
CleanRecover(p) ==
  LET found == secret[clean[p].c]
  IN  /\ clean[p].at = "RECOVER"
      /\ \/ found.uid = 0 /\ Absent(p)
         \/ found.uid # 0 /\ ~found.owned /\ End(p)
         \/ /\ found.owned /\ UNCHANGED pub
            /\ clean' = [clean EXCEPT ![p].at = "BIND", ![p].ref = found.uid]
      /\ UNCHANGED <<registry, journal, provider, pod, faults>>

CleanBind(p) ==
  LET c == clean[p].c
  IN  /\ clean[p].at = "BIND"
      /\ IF Bindable(c, clean[p].ref)
         THEN row' = [row EXCEPT ![c].uid = clean[p].ref] /\ Goes(p, "GET")
         ELSE End(p) /\ UNCHANGED row
      /\ UNCHANGED <<registry, due, later, provider, pod, faults>>

\* What follows the deletion: CompleteCleanup, or nothing when Publish
\* withdraws its object.
Deleted(p) ==
  \/ clean[p].whole /\ Goes(p, "COMPLETE")
  \/ ~clean[p].whole /\ At(p, "UNDO") /\ clean' = [clean EXCEPT ![p] = Resting(p)]

\* Mutant: an object that is already gone is an error.
GoneMutant(p) == End(p)

\* A deletion is repeated when it was not recorded.
Gone(p) == Deleted(p)

\* Delete looks first: an absent object is deleted, another one is not ours.
CleanGet(p) ==
  LET found == secret[clean[p].c]
  IN  /\ clean[p].at = "GET"
      /\ \/ found.uid = 0 /\ Gone(p)
         \/ /\ found.uid = clean[p].ref /\ found.owned /\ UNCHANGED pub
            /\ clean' = [clean EXCEPT ![p].at = "DELETE", ![p].seen = found]
         \/ found.uid # 0 /\ (found.uid # clean[p].ref \/ ~found.owned) /\ End(p)
      /\ UNCHANGED <<registry, journal, provider, pod, faults>>

\* Mutant: the deletion goes by name.
SameObjectMutant(p) == secret[clean[p].c].uid # 0

\* The deletion names the uid and the version that were seen.
SameObject(p) == secret[clean[p].c].uid # 0 /\ secret[clean[p].c] = clean[p].seen

CleanDelete(p) ==
  LET c == clean[p].c
  IN  /\ clean[p].at = "DELETE"
      /\ \/ SameObject(p) /\ secret' = [secret EXCEPT ![c] = NoSecret] /\ Deleted(p)
         \/ secret[c].uid = 0 /\ Deleted(p) /\ UNCHANGED secret
         \/ secret[c].uid # 0 /\ ~SameObject(p) /\ End(p) /\ UNCHANGED secret
      /\ UNCHANGED <<registry, journal, flight, created, pod, faults>>

\* The reference has a uid by now.
CleanComplete(p) ==
  LET c == clean[p].c
  IN  /\ clean[p].at = "COMPLETE"
      /\ row' = IF row[c].uid = clean[p].ref /\ row[c].requested
                THEN [row EXCEPT ![c].cleaned = TRUE] ELSE row
      /\ End(p)
      /\ UNCHANGED <<registry, due, later, provider, pod, faults>>

\* A call fails.
CleanFails(p) ==
  /\ clean[p].at # "IDLE" /\ Fault /\ End(p)
  /\ UNCHANGED <<registry, journal, provider, pod>>

\* The budget of a pass or the worker's process ends.
SweepEnds(w) ==
  /\ clean[w].at # "IDLE" /\ Fault
  /\ clean' = [clean EXCEPT ![w] = Resting(AnyCred)]
  /\ UNCHANGED <<registry, journal, provider, pub, pod>>

-----------------------------------------------------------------------------
(* The rest of the system *)

\* The Pod of the sandbox mounts the Secret it was given.
Mount(c) ==
  /\ pod[c] = "YES" /\ Ours(c)
  /\ pod' = [pod EXCEPT ![c] = "HELD"]
  /\ UNCHANGED <<registry, journal, provider, pub, clean, faults>>

\* ConsumeBootstrap asks for the cleanup in the transaction of the proof.
Consume(c) ==
  /\ pod[c] = "HELD" /\ CheckBootstrap(c)
  /\ cred' = [cred EXCEPT ![c] = "CONSUMED"]
  /\ \/ /\ row[c].saved /\ ~row[c].cleaned
        /\ row' = [row EXCEPT ![c].requested = TRUE]
        /\ IF c \in Range(due) THEN UNCHANGED <<due, later>> ELSE RetryNow(c)
     \/ row[c].cleaned /\ UNCHANGED journal
  /\ UNCHANGED <<expired, fenced, provider, pub, clean, pod, faults>>

Expire(c) ==
  /\ cred[c] # "NONE" /\ ~expired[c]
  /\ expired' = [expired EXCEPT ![c] = TRUE]
  /\ UNCHANGED <<cred, fenced, journal, provider, pub, clean, pod, faults>>

\* The Attempt or the binding is fenced.
Fence(c) ==
  /\ cred[c] # "NONE" /\ ~fenced[c]
  /\ fenced' = [fenced EXCEPT ![c] = TRUE]
  /\ UNCHANGED <<cred, expired, journal, provider, pub, clean, pod, faults>>

\* Suspension asks for the cleanup of what its released bindings left.
Suspend(c) ==
  /\ fenced[c] /\ row[c].saved /\ ~row[c].cleaned /\ ~row[c].requested
  /\ row' = [row EXCEPT ![c].requested = TRUE]
  /\ RetryNow(c)
  /\ UNCHANGED <<registry, provider, pub, clean, pod, faults>>

Elapse ==
  /\ later # <<>>
  /\ due' = Append(due, Head(later)) /\ later' = Tail(later)
  /\ UNCHANGED <<registry, row, provider, pub, clean, pod, faults>>

\* A create that was given up arrives, unless the name is taken.
Arrive(c) ==
  /\ c \in flight /\ flight' = flight \ {c}
  /\ \/ secret[c].uid = 0 /\ secret' = [secret EXCEPT ![c] = Fresh(c)] /\ created' = [created EXCEPT ![c] = @ + 1]
     \/ UNCHANGED <<secret, created>>
  /\ UNCHANGED <<registry, journal, pub, clean, pod, faults>>

\* Someone else deletes, edits or replaces the object, or takes the name.
Outside(c) ==
  /\ Fault
  /\ \/ secret[c].uid # 0 /\ secret' = [secret EXCEPT ![c] = NoSecret] /\ UNCHANGED created
     \/ Ours(c) /\ secret' = [secret EXCEPT ![c].owned = FALSE] /\ UNCHANGED created
     \/ /\ secret' = [secret EXCEPT ![c] = [Fresh(c) EXCEPT !.owned = FALSE]]
        /\ created' = [created EXCEPT ![c] = @ + 1]
  /\ UNCHANGED <<registry, journal, flight, pub, clean, pod>>

-----------------------------------------------------------------------------

Init ==
  /\ cred = [c \in Creds |-> IF c \in Abandoned THEN "PENDING" ELSE "NONE"]
  /\ expired = [c \in Creds |-> c \in Abandoned] /\ fenced = expired
  /\ row = [c \in Creds |-> IF c \in Abandoned THEN [NoRow EXCEPT !.saved = TRUE, !.requested = TRUE] ELSE NoRow]
  /\ due \in Bijection(1..Cardinality(Abandoned), Abandoned) /\ later = <<>>
  /\ secret = [c \in Creds |-> NoSecret] /\ flight = {} /\ created = [c \in Creds |-> 0]
  /\ pub = [c \in Creds |-> [at |-> IF c \in Abandoned THEN "ENDED" ELSE "IDLE", ref |-> 0]]
  /\ clean = [p \in Procs |-> Resting(IF p \in Creds THEN p ELSE AnyCred)]
  /\ pod = [c \in Creds |-> "NO"] /\ faults = 0

PublishStep(c) ==
  \/ Authorize(c) \/ SavePlan(c) \/ LoadDelivery(c) \/ CheckBefore(c) \/ Create(c)
  \/ CheckAfter(c) \/ BindPublished(c) \/ Confirm(c) \/ Resolve(c) \/ Project(c) \/ Undo(c)

CleanStep(p) ==
  \/ CleanRequest(p) \/ CleanLoad(p) \/ CleanRecover(p) \/ CleanBind(p)
  \/ CleanGet(p) \/ CleanDelete(p) \/ CleanComplete(p)

Environment(c) ==
  \/ Mount(c) \/ Consume(c) \/ Expire(c) \/ Fence(c) \/ Suspend(c) \/ Arrive(c) \/ Outside(c)

Next ==
  \/ \E c \in Creds :
       Issue(c) \/ PublishStep(c) \/ CreateLost(c) \/ PublishFails(c) \/ Crash(c) \/ Environment(c)
  \/ \E w \in Workers : Sweep(w) \/ SweepEnds(w)
  \/ \E p \in Procs : CleanStep(p) \/ CleanFails(p)
  \/ Elapse

Spec == Init /\ [][Next]_vars

\* The workers sweep periodically, and time passes.
FairSpec ==
  /\ Spec
  /\ \A w \in Workers : WF_vars(Sweep(w) \/ CleanStep(w))
  /\ \A c \in Creds : WF_vars(Expire(c))
  /\ WF_vars(Elapse)

-----------------------------------------------------------------------------
(* Properties *)

queue == due \o later

\* Entries, objects and processes are in states the code can give them, and
\* every entry has one place in the order in which sweeps take entries.
TypeOK ==
  /\ \A c \in Creds :
       /\ cred[c] \in {"NONE", "PENDING", "CONSUMED"} /\ pod[c] \in {"NO", "YES", "HELD"}
       /\ {row[c].uid, secret[c].uid, pub[c].ref} \subseteq 0..created[c]
       /\ row[c].cleaned => row[c].requested
       /\ IF row[c].saved THEN \E i \in DOMAIN queue : \A j \in DOMAIN queue : queue[j] = c <=> j = i
          ELSE row[c] = NoRow /\ c \notin Range(queue)
  /\ \A p \in Procs : clean[p].c \in Creds /\ (p \in Creds => clean[p].c = p)

\* Every Secret of a materialization, even one whose create is still on its
\* way, has a journal entry that a sweep will act on: no crash, lost answer or
\* early cleanup leaves credential material that nobody knows of.
NoOrphanedSecret ==
  \A c \in Creds : Ours(c) \/ c \in flight => row[c].saved /\ ~row[c].cleaned

\* A sandbox is only given a Secret whose uid is in the journal, so that its
\* exact deletion needs nothing but the journal.
ProjectedIsBound ==
  \A c \in Creds : pod[c] # "NO" => row[c].uid # 0

\* No crash, late create or early cleanup leaves a Secret that the journal does
\* not lead to.
DeliveryInv == TypeOK /\ NoOrphanedSecret /\ ProjectedIsBound

\* The code removes only the object that it published: an object that someone
\* else edited or put under the name is left to them.
DeletesExactly ==
  [][\A c \in Creds :
       secret[c].uid # 0 /\ ~Ours(c) /\ secret'[c] # secret[c] => Outside(c)]_vars

\* No bootstrap Secret stays for ever, whatever became of its materialization
\* and of the other entries of the journal.
SecretsGo == \A c \in Creds : Ours(c) ~> ~Ours(c)

\* An entry whose object is known is cleaned in the end, unless someone else
\* holds the name.
KnownIsCleaned ==
  \A c \in Creds : row[c].uid # 0 ~> (row[c].cleaned \/ (secret[c].uid # 0 /\ ~Ours(c)))
=============================================================================
