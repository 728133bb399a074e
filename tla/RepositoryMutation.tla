------------------------- MODULE RepositoryMutation -------------------------
(***************************************************************************)
(* Preview and confirmation of changes to the repository files: the        *)
(* one-use nonces (services/mutation_gateway.py), the plans that the Web   *)
(* application keeps for them (ui/app.py, issue_repository_plan and        *)
(* commit_repository_plan) and their execution                             *)
(* (services/web_repository_mutations.py) on top of FileTransaction.       *)
(*                                                                         *)
(* The Web handlers are coroutines that call this code without awaiting,   *)
(* so one preview or commit runs at a time; what runs beside it are other  *)
(* processes that change the same files, failing system and database       *)
(* calls, and the end of the Web process at any step.  Every file read or  *)
(* written is a step.                                                      *)
(***************************************************************************)
EXTENDS FileTransaction

CONSTANTS
  Plans,          \* mutation ids, each with its plan; also the content it writes
  Writes,         \* the paths of each plan
  NoPlan,
  MaxFaults,      \* bound: failing system and database calls
  MaxRestarts,    \* bound: ends of the Web process
  MaxOutside      \* bound: changes by other processes

ASSUME MutationConstants ==
  /\ Plans \subseteq Contents /\ Absent \notin Plans /\ NoPlan \notin Plans
  /\ Writes \in [Plans -> SUBSET Paths \ {{}}]
  /\ MaxFaults \in Nat /\ MaxRestarts \in Nat /\ MaxOutside \in Nat

VARIABLES
  \* in the memory of the Web process
  pc, cur,        \* where the handler is; the plan it works on
  left, same,     \* paths the current loop has yet to read; no difference yet
  nonce,          \* state of each nonce, "forgotten" if its record is lost
  plans,          \* repository_plans
  before,         \* before_content of each plan
  version,        \* target_version of each preview
  expired,        \* previews older than the time to live
  \* durable, besides the files
  committed,      \* 'committed' rows of mutation_audit
  manifest,       \* status in the recovery manifest
  faults, restarts, outside,
  \* history
  unaccounted,    \* plans whose failure could be neither undone nor recorded
  overwritten     \* files that the mutation being executed wrote and another process changed

webVars == <<pc, cur, left, same>>
planVars == <<nonce, plans, before, version, expired>>
durableVars == <<committed, manifest>>
boundVars == <<faults, restarts, outside, overwritten>>
vars == <<files, txVars, webVars, planVars, durableVars, boundVars, unaccounted>>

NonceStates == {"none", "issued", "committing", "consumed", "forgotten"}
PCs == {"idle", "prepare", "version", "preview", "check", "validate", "recheck",
        "publish", "audit", "compensate", "unlink", "verify", "record", "settle"}

TypeOK ==
  /\ TxTypeOK
  /\ pc \in PCs /\ cur \in Plans \cup {NoPlan}
  /\ (cur = NoPlan) = (pc = "idle")
  /\ left \subseteq Paths /\ same \in BOOLEAN
  /\ nonce \in [Plans -> NonceStates]
  /\ plans \subseteq Plans /\ expired \subseteq Plans
  /\ before \in [Plans -> [Paths -> Contents]]
  /\ version \in [Plans -> [Paths -> Contents]]
  /\ committed \in [Plans -> Nat]
  /\ manifest \in [Plans -> {"none", "compensated", "manual_recovery_required"}]
  /\ faults \in 0..MaxFaults /\ restarts \in 0..MaxRestarts
  /\ outside \in 0..MaxOutside
  /\ unaccounted \subseteq Plans /\ overwritten \subseteq Paths

\* The files may hold anything that no plan has written.
Init ==
  /\ files \in [Paths -> Contents \ Plans]
  /\ TxInit
  /\ pc = "idle" /\ cur = NoPlan /\ left = {} /\ same = TRUE
  /\ nonce = [p \in Plans |-> "none"]
  /\ plans = {} /\ expired = {}
  /\ before = [p \in Plans |-> Nothing]
  /\ version = [p \in Plans |-> Nothing]
  /\ committed = [p \in Plans |-> 0]
  /\ manifest = [p \in Plans |-> "none"]
  /\ faults = 0 /\ restarts = 0 /\ outside = 0
  /\ unaccounted = {} /\ overwritten = {}

(***************************************************************************)
(* Building blocks.                                                        *)
(***************************************************************************)
GoOn(to, paths) == pc' = to /\ left' = paths /\ same' = TRUE /\ UNCHANGED cur
Return == pc' = "idle" /\ cur' = NoPlan /\ left' = {} /\ same' = TRUE

SetNonce(p, state) == nonce' = [nonce EXCEPT ![p] = state]

Fault ==
  /\ faults < MaxFaults
  /\ faults' = faults + 1
  /\ UNCHANGED <<restarts, outside, overwritten>>

\* The versions that repository_target_version() is compared with: file by file,
\* equal digests mean equal files.
Expected == IF pc = "verify" THEN before[cur] ELSE version[cur]
Matches(x) == same /\ files[x] = Expected[x]
Unchanged(x) == left = {x} /\ Matches(x)
Changed(x) == left = {x} /\ ~Matches(x)

\* One file of a version is read, and there are more.
ReadFile ==
  /\ pc \in {"check", "recheck", "verify", "settle"}
  /\ \E x \in left :
       /\ left # {x}
       /\ left' = left \ {x} /\ same' = Matches(x)
  /\ UNCHANGED <<pc, cur, files, txVars, planVars, durableVars, boundVars, unaccounted>>

(***************************************************************************)
(* Preview: prepare_repository_mutation() reads the before images and then *)
(* the version, issue_repository_plan() registers and audits it.           *)
(***************************************************************************)
Preview(p) ==
  /\ pc = "idle" /\ nonce[p] = "none"
  /\ cur' = p /\ pc' = "prepare" /\ left' = Writes[p] /\ same' = TRUE
  /\ UNCHANGED <<files, txVars, planVars, durableVars, boundVars, unaccounted>>

ReadBefore ==
  /\ pc = "prepare"
  /\ \E x \in left :
       /\ before' = [before EXCEPT ![cur][x] = files[x]]
       /\ IF left = {x}
          THEN GoOn("version", Writes[cur])
          ELSE left' = left \ {x} /\ UNCHANGED <<pc, cur, same>>
  /\ UNCHANGED <<files, txVars, nonce, plans, version, expired, durableVars,
                 boundVars, unaccounted>>

ReadVersion ==
  /\ pc = "version"
  /\ \E x \in left :
       /\ version' = [version EXCEPT ![cur][x] = files[x]]
       /\ IF left = {x}
          THEN GoOn("preview", {})
          ELSE left' = left \ {x} /\ UNCHANGED <<pc, cur, same>>
  /\ UNCHANGED <<files, txVars, nonce, plans, before, expired, durableVars,
                 boundVars, unaccounted>>

\* A file cannot be read or the audit row fails: the token is not shown, so nobody
\* can name its record, and the plan is dropped again.
PreviewFails ==
  /\ pc \in {"prepare", "version", "preview"}
  /\ Fault /\ Return
  /\ UNCHANGED <<files, txVars, planVars, durableVars, unaccounted>>

Issue ==
  /\ pc = "preview"
  /\ SetNonce(cur, "issued") /\ plans' = plans \cup {cur}
  /\ Return
  /\ UNCHANGED <<files, txVars, before, version, expired, durableVars,
                 boundVars, unaccounted>>

Expire(p) ==
  /\ nonce[p] \in {"issued", "committing"} /\ p \notin expired
  /\ expired' = expired \cup {p}
  /\ UNCHANGED <<files, txVars, webVars, nonce, plans, before, version,
                 durableVars, boundVars, unaccounted>>

(***************************************************************************)
(* Confirmation: MutationGateway.commit() and what it calls.               *)
(***************************************************************************)
\* Mutant of Confirm: the state of the nonce is not looked at.
ConfirmReplayed(p) ==
  /\ pc = "idle" /\ nonce[p] \in {"issued", "consumed"}
  /\ p \notin expired /\ p \in plans
  /\ cur' = p /\ pc' = "check" /\ left' = Writes[p] /\ same' = TRUE
  /\ UNCHANGED <<files, txVars, planVars, durableVars, boundVars, unaccounted>>

Confirm(p) ==
  /\ pc = "idle" /\ nonce[p] = "issued" /\ p \notin expired /\ p \in plans
  /\ cur' = p /\ pc' = "check" /\ left' = Writes[p] /\ same' = TRUE
  /\ UNCHANGED <<files, txVars, planVars, durableVars, boundVars, unaccounted>>

\* A used or expired token, or one sent to another operation or target.
Refuse(p) ==
  /\ pc = "idle" /\ nonce[p] \in {"issued", "consumed"}
  /\ SetNonce(p, "consumed") /\ plans' = plans \ {p}
  /\ UNCHANGED <<files, txVars, webVars, before, version, expired, durableVars,
                 boundVars, unaccounted>>

\* A token with a damaged signature is not in repository_plan_tokens.
RefuseDamaged(p) ==
  /\ pc = "idle" /\ nonce[p] \in {"issued", "consumed"}
  /\ SetNonce(p, "consumed")
  /\ UNCHANGED <<files, txVars, webVars, plans, before, version, expired,
                 durableVars, boundVars, unaccounted>>

\* The request ends, the nonce is used up and its plan is dropped.
GiveUp ==
  /\ SetNonce(cur, "consumed") /\ plans' = plans \ {cur}
  /\ Return
  /\ UNCHANGED <<before, version, expired>>

Enter ==
  /\ pc = "check"
  /\ \E x \in left : Unchanged(x)
  /\ SetNonce(cur, "committing") /\ GoOn("validate", {})
  /\ UNCHANGED <<files, txVars, plans, before, version, expired, durableVars,
                 boundVars, unaccounted>>

\* target_changed
CheckRefuses ==
  /\ pc = "check"
  /\ \E x \in left : Changed(x)
  /\ GiveUp
  /\ UNCHANGED <<files, txVars, durableVars, boundVars, unaccounted>>

\* An OSError leaves the nonce as it is, but the plan is dropped.
CheckFails ==
  /\ pc = "check"
  /\ Fault /\ Return /\ plans' = plans \ {cur}
  /\ UNCHANGED <<files, txVars, nonce, before, version, expired, durableVars, unaccounted>>

Validate ==
  /\ pc = "validate"
  /\ before[cur] = version[cur]
  /\ GoOn("recheck", Writes[cur])
  /\ UNCHANGED <<files, txVars, planVars, durableVars, boundVars, unaccounted>>

ValidateRefuses ==
  /\ pc = "validate"
  /\ before[cur] # version[cur]
  /\ GiveUp
  /\ UNCHANGED <<files, txVars, durableVars, boundVars, unaccounted>>

RecheckRefuses ==
  /\ pc = "recheck"
  /\ \E x \in left : Changed(x)
  /\ GiveUp
  /\ UNCHANGED <<files, txVars, durableVars, boundVars, unaccounted>>

RecheckFails ==
  /\ pc = "recheck"
  /\ Fault /\ GiveUp
  /\ UNCHANGED <<files, txVars, durableVars, unaccounted>>

Replacements(p) == {x \in Writes[p] : before[p][x] # Absent}

Publish ==
  /\ pc = "recheck"
  /\ \E x \in left : Unchanged(x)
  /\ Stage(Writes[cur], Replacements(cur), [x \in Paths |-> cur])
  /\ GoOn("publish", {})
  /\ overwritten' = {}
  /\ UNCHANGED <<files, planVars, durableVars, faults, restarts, outside, unaccounted>>

\* A step of FileTransaction.commit(), in _publish() or in _compensate().
Transact ==
  /\ pc \in {"publish", "compensate"} /\ TxStep
  /\ UNCHANGED <<webVars, planVars, durableVars, boundVars, unaccounted>>

TransactFails ==
  /\ pc \in {"publish", "compensate"} /\ TxFault
  /\ Fault
  /\ UNCHANGED <<webVars, planVars, durableVars, unaccounted>>

Published ==
  /\ pc = "publish" /\ txPhase = "done"
  /\ GoOn("audit", {}) /\ Discard
  /\ UNCHANGED <<files, planVars, durableVars, boundVars, unaccounted>>

\* created_or_replaced is still empty: neither compensation nor manifest.
PublishFailed ==
  /\ pc = "publish" /\ txPhase \in {"failed", "torn"}
  /\ unaccounted' = IF txPhase = "torn" THEN unaccounted \cup {cur} ELSE unaccounted
  /\ GoOn("settle", Writes[cur]) /\ Discard
  /\ UNCHANGED <<files, planVars, durableVars, boundVars>>

\* The 'committed' row; the nonce is consumed and the plan dropped after it.
Audit ==
  /\ pc = "audit"
  /\ committed' = [committed EXCEPT ![cur] = @ + 1]
  /\ GiveUp
  /\ UNCHANGED <<files, txVars, manifest, boundVars, unaccounted>>

\* Migration, connection, insert or commit fails: _compensate() begins.
AuditFails ==
  /\ pc = "audit"
  /\ Fault
  /\ IF Replacements(cur) = {}
     THEN GoOn("unlink", Writes[cur]) /\ UNCHANGED txVars
     ELSE /\ Stage(Replacements(cur), Replacements(cur), before[cur])
          /\ GoOn("compensate", {})
  /\ UNCHANGED <<files, planVars, durableVars, unaccounted>>

Restored ==
  /\ pc = "compensate" /\ txPhase = "done"
  /\ Discard
  /\ IF Writes[cur] = Replacements(cur)
     THEN GoOn("verify", Writes[cur])
     ELSE GoOn("unlink", Writes[cur] \ Replacements(cur))
  /\ UNCHANGED <<files, planVars, durableVars, boundVars, unaccounted>>

\* The outcome of _compensate() goes into the manifest.
Compensated(yes) == pc' = "record" /\ left' = {} /\ same' = yes /\ UNCHANGED cur

CompensationFailed ==
  /\ pc = "compensate" /\ txPhase \in {"failed", "torn"}
  /\ Discard /\ Compensated(FALSE)
  /\ UNCHANGED <<files, planVars, durableVars, boundVars, unaccounted>>

Unlink ==
  /\ pc = "unlink"
  /\ \E x \in left :
       /\ files' = [files EXCEPT ![x] = Absent]
       /\ IF left = {x}
          THEN GoOn("verify", Writes[cur])
          ELSE left' = left \ {x} /\ UNCHANGED <<pc, cur, same>>
  /\ UNCHANGED <<txVars, planVars, durableVars, boundVars, unaccounted>>

Verify ==
  /\ pc = "verify"
  /\ \E x \in left : left = {x} /\ Compensated(Matches(x))
  /\ UNCHANGED <<files, txVars, planVars, durableVars, boundVars, unaccounted>>

UnlinkOrVerifyFails ==
  /\ pc \in {"unlink", "verify"}
  /\ Fault /\ Compensated(FALSE)
  /\ UNCHANGED <<files, txVars, planVars, durableVars, unaccounted>>

Status == IF same THEN "compensated" ELSE "manual_recovery_required"
NoteUnlessRestored ==
  unaccounted' = IF same THEN unaccounted ELSE unaccounted \cup {cur}

\* The manifest is created, never replaced: a second one is refused.
Record ==
  /\ pc = "record"
  /\ IF manifest[cur] = "none"
     THEN manifest' = [manifest EXCEPT ![cur] = Status] /\ UNCHANGED unaccounted
     ELSE UNCHANGED manifest /\ NoteUnlessRestored
  /\ GoOn("settle", Writes[cur])
  /\ UNCHANGED <<files, txVars, planVars, committed, boundVars>>

RecordFails ==
  /\ pc = "record"
  /\ Fault
  /\ NoteUnlessRestored
  /\ GoOn("settle", Writes[cur])
  /\ UNCHANGED <<files, txVars, planVars, durableVars>>

\* Mutant of Settle: the token is retryable until it expires.
SettleUnread ==
  /\ pc = "settle"
  /\ SetNonce(cur, IF cur \notin expired THEN "issued" ELSE "consumed")
  /\ Return
  /\ UNCHANGED <<files, txVars, plans, before, version, expired, durableVars,
                 boundVars, unaccounted>>

\* The gateway reads the version again to see whether the token may be used
\* again; the plan is kept.
Settle ==
  /\ pc = "settle"
  /\ \E x \in left :
       /\ left = {x}
       /\ SetNonce(cur, IF Matches(x) /\ cur \notin expired
                        THEN "issued" ELSE "consumed")
  /\ Return
  /\ UNCHANGED <<files, txVars, plans, before, version, expired, durableVars,
                 boundVars, unaccounted>>

SettleFails ==
  /\ pc = "settle"
  /\ Fault /\ Return
  /\ SetNonce(cur, "consumed")
  /\ UNCHANGED <<files, txVars, plans, before, version, expired, durableVars, unaccounted>>

(***************************************************************************)
(* The others.                                                             *)
(***************************************************************************)
\* The worker, the command line or an editor changes or removes a file.
OtherProcessWrites(x, content) ==
  /\ outside < MaxOutside
  /\ files[x] # content
  /\ files' = [files EXCEPT ![x] = content]
  /\ outside' = outside + 1
  /\ overwritten' = IF files[x] = cur THEN overwritten \cup {x} ELSE overwritten
  /\ UNCHANGED <<txVars, webVars, planVars, durableVars, faults, restarts, unaccounted>>

\* Between the first replaced file and the audit row or the manifest.
Exposed == {"publish", "audit", "compensate", "unlink", "verify", "record"}

\* The Web process ends and starts again: what it had in memory is gone.
Restart ==
  /\ restarts < MaxRestarts
  /\ restarts' = restarts + 1
  /\ nonce' = [p \in Plans |-> IF nonce[p] = "none" THEN "none" ELSE "forgotten"]
  /\ plans' = {}
  /\ unaccounted' = IF pc \in Exposed THEN unaccounted \cup {cur} ELSE unaccounted
  /\ Return /\ Discard
  /\ UNCHANGED <<files, before, version, expired, durableVars, faults, outside, overwritten>>

PreviewStep ==
  \/ \E p \in Plans : Preview(p) \/ Expire(p)
  \/ ReadBefore \/ ReadVersion \/ PreviewFails \/ Issue

CommitStep ==
  \/ \E p \in Plans : Confirm(p) \/ Refuse(p) \/ RefuseDamaged(p)
  \/ ReadFile \/ Enter \/ CheckRefuses \/ CheckFails \/ Validate \/ ValidateRefuses
  \/ RecheckRefuses \/ RecheckFails \/ Publish \/ Transact \/ TransactFails
  \/ Published \/ PublishFailed \/ Audit

FailureStep ==
  \/ AuditFails \/ Restored \/ CompensationFailed \/ Unlink \/ Verify
  \/ UnlinkOrVerifyFails \/ Record \/ RecordFails \/ Settle \/ SettleFails

OtherStep ==
  \/ \E x \in Paths, c \in Contents \ Plans : OtherProcessWrites(x, c)
  \/ Restart

Next == PreviewStep \/ CommitStep \/ FailureStep \/ OtherStep

Spec == Init /\ [][Next]_vars

(***************************************************************************)
(* Properties.                                                             *)
(***************************************************************************)
\* How a mutation stands in the terms of OneUseCommit.
StandingOf(state) ==
  CASE state = "none" -> "none"
    [] state = "issued" -> "open"
    [] state = "committing" -> "running"
    [] OTHER -> "void"
Standing == [p \in Plans |-> IF committed[p] > 0 THEN "done" ELSE StandingOf(nonce[p])]

Promise == INSTANCE OneUseCommit
             WITH effects <- committed, offer <- Standing

\* A confirmed preview takes effect at most once, one mutation is executed at a
\* time, and a nonce that is used up or lost never runs again, whatever fails and
\* whenever the process ends.
OneUse == Promise!Spec

HoldsWriteOf(p) == \E x \in Writes[p] : files[x] = p

\* A token that is accepted again belongs to a mutation of which nothing is left
\* in the repository: MutationGateway.commit() resets the nonce only after it has
\* read all files.
RetryableIsUntouched ==
  \A p \in Plans : nonce[p] = "issued" => committed[p] = 0 /\ ~HoldsWriteOf(p)

\* Between requests, a file that a mutation wrote without an audit row has a
\* manifest that asks for manual recovery, unless the process ended, a rollback
\* failed within FileTransaction or the manifest could not be written.
LeftoversAreRecorded ==
  pc = "idle" =>
    \A p \in Plans \ unaccounted :
      committed[p] = 0 /\ HoldsWriteOf(p)
        => manifest[p] = "manual_recovery_required"

\* When a mutation is audited as committed, each of its files has been written: it holds
\* what the mutation wrote, or another process has changed that.
CommittedIsWhole ==
  [][\A p \in Plans : committed'[p] > committed[p] =>
       \A x \in Writes[p] : files[x] = p \/ x \in overwritten]_vars

\* No handler leaves its nonce between issued and consumed.
NoStuckNonce == pc = "idle" => \A p \in Plans : nonce[p] # "committing"
=============================================================================
