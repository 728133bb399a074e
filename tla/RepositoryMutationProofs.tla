----------------------- MODULE RepositoryMutationProofs -----------------------
(***************************************************************************)
(* What holds of RepositoryMutation for every set of plans and paths and   *)
(* every number of faults, restarts and outside changes: the types, that   *)
(* no nonce is stuck, that an accepted token left nothing behind, that an  *)
(* audited mutation is whole, that a write left over is on record, and     *)
(* that the protocol implements OneUseCommit.                              *)
(***************************************************************************)
EXTENDS RepositoryMutation, TLAPS

\* The nonce of the plan in hand is committing.
Running == {"validate", "recheck", "publish", "audit", "compensate", "unlink",
            "verify", "record", "settle"}

NonceInv ==
  /\ \A p \in Plans : nonce[p] = "committing" <=> (pc \in Running /\ cur = p)
  /\ pc \in {"prepare", "version", "preview"} => nonce[cur] = "none"
  /\ pc = "check" => nonce[cur] = "issued"
  /\ \A p \in Plans : committed[p] > 0 => nonce[p] \in {"consumed", "forgotten"}

\* Nobody has seen what a plan writes as long as it may still run.
Unseen ==
  \A p \in Plans : nonce[p] \in {"none", "issued", "committing"} =>
    \A q \in Plans : \A x \in Paths : before[q][x] # p /\ version[q][x] # p

\* No file holds what a plan writes before it runs or when it may run again.
Untouched ==
  \A p \in Plans : nonce[p] \in {"none", "issued"} => \A x \in Paths : files[x] # p

\* The plan in hand writes its own files, and nothing that is still to come.
Within ==
  /\ pc \notin {"publish", "compensate"} => txPhase = "idle"
  /\ pc \in {"publish", "compensate"} => txWrites \subseteq Writes[cur]
  /\ pc \in Running => \A x \in Paths : files[x] = cur => x \in Writes[cur]
  /\ txPhase # "idle" =>
       \A x \in Paths : \A p \in Plans : nonce[p] \in {"none", "issued"} =>
         originals[x] # p /\ txContent[x] # p

\* While the gateway looks at the files again: those it found equal to the
\* preview do not hold the plan's writes.
Settling ==
  pc = "settle" /\ same => \A x \in Writes[cur] \ left : files[x] # cur

\* What has been replaced so far holds what was written, or another process has
\* changed that; nothing is left over when the transaction is done.
Whole(x) == files[x] = cur \/ x \in overwritten
Publishing ==
  /\ pc = "publish" =>
       /\ txPhase # "idle"
       /\ txWrites = Writes[cur]
       /\ \A x \in txWrites : txContent[x] = cur
       /\ txPhase \in {"preflight", "originals", "temporary"} => applied = {}
       /\ txPhase = "temporary" => txLeft = txWrites
       /\ txPhase = "replace" =>
            txLeft = txWrites \ applied /\ \A x \in applied : Whole(x)
       /\ txPhase = "done" => \A x \in txWrites : Whole(x)
  /\ pc = "audit" => \A x \in Writes[cur] : Whole(x)

IInv ==
  TypeOK /\ NonceInv /\ Unseen /\ Untouched /\ Within /\ Settling /\ Publishing

(***************************************************************************)
(* Types.                                                                  *)
(***************************************************************************)
LEMMA TxTypes ==
  ASSUME TxTypeOK, TxStep \/ TxFault
  PROVE  TxTypeOK'
<1> USE DEF TxTypeOK, Phases
<1>1. CASE Preflight BY <1>1 DEF Preflight, Advance
<1>2. CASE ReadOriginal BY <1>2 DEF ReadOriginal, Advance
<1>3. CASE WriteTemporary BY <1>3 DEF WriteTemporary
<1>4. CASE Replace BY <1>4 DEF Replace, Advance
<1>5. CASE Undo BY <1>5 DEF Undo
<1>6. CASE PrepareFails BY <1>6 DEF PrepareFails
<1>7. CASE ReplaceFails BY <1>7 DEF ReplaceFails
<1>8. CASE UndoFails BY <1>8 DEF UndoFails
<1> QED BY <1>1, <1>2, <1>3, <1>4, <1>5, <1>6, <1>7, <1>8 DEF TxStep, TxFault

LEMMA StageTypes ==
  ASSUME TxTypeOK, NEW W \in SUBSET Paths, NEW M \in SUBSET W,
         NEW c \in [Paths -> Contents], Stage(W, M, c), UNCHANGED files
  PROVE  TxTypeOK'
BY AbsentIsContent DEF TxTypeOK, Phases, Stage, Nothing

LEMMA DiscardTypes ==
  ASSUME TxTypeOK, Discard, files' \in [Paths -> Contents]
  PROVE  TxTypeOK'
BY AbsentIsContent DEF TxTypeOK, Phases, Discard, Nothing

\* A handler that is not idle has a plan in hand.
LEMMA InHand ==
  ASSUME TypeOK, pc # "idle"
  PROVE  cur \in Plans /\ Writes[cur] \subseteq Paths /\ Replacements(cur) \subseteq Writes[cur]
BY MutationConstants DEF TypeOK, Replacements

LEMMA TypeNext ==
  ASSUME TypeOK, [Next]_vars
  PROVE  TypeOK'
<1> USE MutationConstants, AbsentIsContent
        DEF TypeOK, NonceStates, PCs, webVars, planVars, durableVars, boundVars,
            SetNonce, Return, GoOn, Fault, GiveUp, Matches
<1>1. ASSUME NEW p \in Plans, Preview(p) PROVE TypeOK'
  BY <1>1 DEF Preview, txVars, TxTypeOK
<1>2. ASSUME NEW p \in Plans, Expire(p) PROVE TypeOK'
  BY <1>2 DEF Expire, txVars, TxTypeOK
<1>3. ASSUME ReadBefore PROVE TypeOK'
  <2>1. cur \in Plans BY <1>3, InHand DEF ReadBefore
  <2>2. Writes[cur] \subseteq Paths BY <2>1
  <2>3. PICK x \in left : /\ before' = [before EXCEPT ![cur][x] = files[x]]
                          /\ left' \subseteq left \/ left' = Writes[cur]
    BY <1>3 DEF ReadBefore
  <2>4. before' \in [Plans -> [Paths -> Contents]] BY <2>1, <2>3 DEF TxTypeOK
  <2>5. TxTypeOK' BY <1>3 DEF ReadBefore, txVars, TxTypeOK
  <2>6. pc' \in PCs /\ pc' # "idle" /\ cur' = cur BY <1>3 DEF ReadBefore
  <2>7. same' \in BOOLEAN BY <1>3 DEF ReadBefore
  <2>8. left' \subseteq Paths BY <2>2, <2>3
  <2> QED BY <1>3, <2>1, <2>4, <2>5, <2>6, <2>7, <2>8 DEF ReadBefore
<1>4. ASSUME ReadVersion PROVE TypeOK'
  <2>1. cur \in Plans BY <1>4, InHand DEF ReadVersion
  <2>2. Writes[cur] \subseteq Paths BY <2>1
  <2>3. PICK x \in left : /\ version' = [version EXCEPT ![cur][x] = files[x]]
                          /\ left' \subseteq left \/ left' = Writes[cur]
    BY <1>4 DEF ReadVersion
  <2>4. version' \in [Plans -> [Paths -> Contents]] BY <2>1, <2>3 DEF TxTypeOK
  <2>5. TxTypeOK' BY <1>4 DEF ReadVersion, txVars, TxTypeOK
  <2>6. pc' \in PCs /\ pc' # "idle" /\ cur' = cur BY <1>4 DEF ReadVersion
  <2>7. same' \in BOOLEAN BY <1>4 DEF ReadVersion
  <2>8. left' \subseteq Paths BY <2>2, <2>3
  <2> QED BY <1>4, <2>1, <2>4, <2>5, <2>6, <2>7, <2>8 DEF ReadVersion
<1>5. ASSUME PreviewFails PROVE TypeOK'
  BY <1>5 DEF PreviewFails, txVars, TxTypeOK
<1>6. ASSUME Issue PROVE TypeOK'
  BY <1>6 DEF Issue, txVars, TxTypeOK
<1>7. ASSUME NEW p \in Plans, Confirm(p) PROVE TypeOK'
  BY <1>7 DEF Confirm, txVars, TxTypeOK
<1>8. ASSUME NEW p \in Plans, Refuse(p) PROVE TypeOK'
  BY <1>8 DEF Refuse, txVars, TxTypeOK
<1>9. ASSUME NEW p \in Plans, RefuseDamaged(p) PROVE TypeOK'
  BY <1>9 DEF RefuseDamaged, txVars, TxTypeOK
<1>10. ASSUME ReadFile PROVE TypeOK'
  BY <1>10 DEF ReadFile, txVars, TxTypeOK
<1>11. ASSUME Enter PROVE TypeOK'
  BY <1>11 DEF Enter, txVars, TxTypeOK
<1>12. ASSUME CheckRefuses PROVE TypeOK'
  BY <1>12 DEF CheckRefuses, txVars, TxTypeOK
<1>13. ASSUME CheckFails PROVE TypeOK'
  BY <1>13 DEF CheckFails, txVars, TxTypeOK
<1>14. ASSUME Validate PROVE TypeOK'
  BY <1>14 DEF Validate, txVars, TxTypeOK
<1>15. ASSUME ValidateRefuses PROVE TypeOK'
  BY <1>15 DEF ValidateRefuses, txVars, TxTypeOK
<1>16. ASSUME RecheckRefuses PROVE TypeOK'
  BY <1>16 DEF RecheckRefuses, txVars, TxTypeOK
<1>17. ASSUME RecheckFails PROVE TypeOK'
  BY <1>17 DEF RecheckFails, txVars, TxTypeOK
<1>18. ASSUME Publish PROVE TypeOK'
  <2>1. cur \in Plans /\ Writes[cur] \subseteq Paths /\ Replacements(cur) \subseteq Writes[cur]
    BY <1>18, InHand DEF Publish
  <2>2. TxTypeOK' BY <1>18, <2>1, StageTypes DEF Publish
  <2> QED BY <1>18, <2>1, <2>2 DEF Publish
<1>19. ASSUME Transact PROVE TypeOK'
  <2>1. TxTypeOK' BY <1>19, TxTypes DEF Transact
  <2> QED BY <1>19, <2>1 DEF Transact
<1>20. ASSUME TransactFails PROVE TypeOK'
  <2>1. TxTypeOK' BY <1>20, TxTypes DEF TransactFails
  <2> QED BY <1>20, <2>1 DEF TransactFails
<1>21. ASSUME Published PROVE TypeOK'
  <2>1. TxTypeOK' BY <1>21, DiscardTypes DEF Published, TxTypeOK
  <2> QED BY <1>21, <2>1 DEF Published
<1>22. ASSUME PublishFailed PROVE TypeOK'
  <2>1. cur \in Plans /\ Writes[cur] \subseteq Paths BY <1>22, InHand DEF PublishFailed
  <2>2. TxTypeOK' BY <1>22, DiscardTypes DEF PublishFailed, TxTypeOK
  <2> QED BY <1>22, <2>1, <2>2 DEF PublishFailed
<1>23. ASSUME Audit PROVE TypeOK'
  BY <1>23 DEF Audit, txVars, TxTypeOK
<1>24. ASSUME AuditFails PROVE TypeOK'
  <2>1. cur \in Plans /\ Writes[cur] \subseteq Paths /\ Replacements(cur) \subseteq Writes[cur]
    BY <1>24, InHand DEF AuditFails
  <2>2. before[cur] \in [Paths -> Contents] BY <2>1
  <2>3. TxTypeOK'
    <3>1. CASE UNCHANGED txVars BY <1>24, <3>1 DEF AuditFails, txVars, TxTypeOK
    <3>2. CASE Stage(Replacements(cur), Replacements(cur), before[cur])
      BY <1>24, <2>1, <2>2, <3>2, StageTypes DEF AuditFails
    <3> QED BY <1>24, <3>1, <3>2 DEF AuditFails
  <2>4. /\ pc' \in PCs /\ pc' # "idle" /\ cur' = cur
        /\ left' \subseteq Paths /\ same' = TRUE
    BY <1>24, <2>1 DEF AuditFails
  <2> QED BY <1>24, <2>1, <2>3, <2>4 DEF AuditFails
<1>25. ASSUME Restored PROVE TypeOK'
  <2>1. cur \in Plans /\ Writes[cur] \subseteq Paths BY <1>25, InHand DEF Restored
  <2>2. TxTypeOK' BY <1>25, DiscardTypes DEF Restored, TxTypeOK
  <2> QED BY <1>25, <2>1, <2>2 DEF Restored
<1>26. ASSUME CompensationFailed PROVE TypeOK'
  <2>1. TxTypeOK' BY <1>26, DiscardTypes DEF CompensationFailed, TxTypeOK
  <2> QED BY <1>26, <2>1 DEF CompensationFailed, Compensated
<1>27. ASSUME Unlink PROVE TypeOK'
  <2>1. cur \in Plans /\ Writes[cur] \subseteq Paths BY <1>27, InHand DEF Unlink
  <2>2. TxTypeOK' BY <1>27, AbsentIsContent DEF Unlink, txVars, TxTypeOK
  <2>3. left' \subseteq Paths BY <1>27, <2>1 DEF Unlink
  <2>4. pc' \in PCs /\ pc' # "idle" /\ cur' = cur BY <1>27 DEF Unlink
  <2>5. same' \in BOOLEAN BY <1>27 DEF Unlink
  <2> QED BY <1>27, <2>1, <2>2, <2>3, <2>4, <2>5 DEF Unlink
<1>28. ASSUME Verify PROVE TypeOK'
  BY <1>28 DEF Verify, Compensated, txVars, TxTypeOK
<1>29. ASSUME UnlinkOrVerifyFails PROVE TypeOK'
  <2>1. cur \in Plans BY <1>29, InHand DEF UnlinkOrVerifyFails
  <2>2. TxTypeOK' BY <1>29 DEF UnlinkOrVerifyFails, txVars, TxTypeOK
  <2>3. same' \in BOOLEAN BY <1>29 DEF UnlinkOrVerifyFails, Compensated
  <2> QED BY <1>29, <2>1, <2>2, <2>3 DEF UnlinkOrVerifyFails, Compensated
<1>30. ASSUME Record PROVE TypeOK'
  <2>1. cur \in Plans /\ Writes[cur] \subseteq Paths BY <1>30, InHand DEF Record
  <2> QED BY <1>30, <2>1 DEF Record, Status, NoteUnlessRestored, txVars, TxTypeOK
<1>31. ASSUME RecordFails PROVE TypeOK'
  <2>1. cur \in Plans /\ Writes[cur] \subseteq Paths BY <1>31, InHand DEF RecordFails
  <2> QED BY <1>31, <2>1 DEF RecordFails, NoteUnlessRestored, txVars, TxTypeOK
<1>32. ASSUME Settle PROVE TypeOK'
  BY <1>32 DEF Settle, txVars, TxTypeOK
<1>33. ASSUME SettleFails PROVE TypeOK'
  BY <1>33 DEF SettleFails, txVars, TxTypeOK
<1>34. ASSUME NEW x \in Paths, NEW c \in Contents, OtherProcessWrites(x, c) PROVE TypeOK'
  BY <1>34 DEF OtherProcessWrites, txVars, TxTypeOK
<1>35. CASE Restart BY <1>35, DiscardTypes DEF Restart, Exposed, TxTypeOK
<1>36. CASE UNCHANGED vars BY <1>36 DEF vars, txVars, TxTypeOK
<1> QED
  BY <1>1, <1>2, <1>3, <1>4, <1>5, <1>6, <1>7, <1>8, <1>9, <1>10, <1>11, <1>12,
     <1>13, <1>14, <1>15, <1>16, <1>17, <1>18, <1>19, <1>20, <1>21, <1>22, <1>23, <1>24,
     <1>25, <1>26, <1>27, <1>28, <1>29, <1>30, <1>31, <1>32, <1>33, <1>34, <1>35, <1>36
     DEF Next, PreviewStep, CommitStep, FailureStep, OtherStep

(***************************************************************************)
(* Nonces.                                                                 *)
(***************************************************************************)
LEMMA NonceNext ==
  ASSUME TypeOK, NonceInv, [Next]_vars
  PROVE  NonceInv'
<1> USE MutationConstants
        DEF TypeOK, NonceInv, Running, NonceStates, PCs, webVars, planVars, durableVars,
            SetNonce, Return, GoOn, GiveUp, Compensated
<1>1. ASSUME NEW p \in Plans, Preview(p) PROVE NonceInv'
  BY <1>1 DEF Preview
<1>2. ASSUME NEW p \in Plans, Expire(p) PROVE NonceInv'
  BY <1>2 DEF Expire
<1>3. ASSUME ReadBefore PROVE NonceInv'
  BY <1>3 DEF ReadBefore
<1>4. ASSUME ReadVersion PROVE NonceInv'
  BY <1>4 DEF ReadVersion
<1>5. ASSUME PreviewFails PROVE NonceInv'
  BY <1>5 DEF PreviewFails
<1>6. ASSUME Issue PROVE NonceInv'
  BY <1>6 DEF Issue
<1>7. ASSUME NEW p \in Plans, Confirm(p) PROVE NonceInv'
  BY <1>7 DEF Confirm
<1>8. ASSUME NEW p \in Plans, Refuse(p) PROVE NonceInv'
  BY <1>8 DEF Refuse
<1>9. ASSUME NEW p \in Plans, RefuseDamaged(p) PROVE NonceInv'
  BY <1>9 DEF RefuseDamaged
<1>10. ASSUME ReadFile PROVE NonceInv'
  BY <1>10 DEF ReadFile
<1>11. ASSUME Enter PROVE NonceInv'
  BY <1>11 DEF Enter
<1>12. ASSUME CheckRefuses PROVE NonceInv'
  BY <1>12 DEF CheckRefuses
<1>13. ASSUME CheckFails PROVE NonceInv'
  BY <1>13 DEF CheckFails
<1>14. ASSUME Validate PROVE NonceInv'
  BY <1>14 DEF Validate
<1>15. ASSUME ValidateRefuses PROVE NonceInv'
  BY <1>15 DEF ValidateRefuses
<1>16. ASSUME RecheckRefuses PROVE NonceInv'
  BY <1>16 DEF RecheckRefuses
<1>17. ASSUME RecheckFails PROVE NonceInv'
  BY <1>17 DEF RecheckFails
<1>18. ASSUME Publish PROVE NonceInv'
  BY <1>18 DEF Publish
<1>19. ASSUME Transact PROVE NonceInv'
  BY <1>19 DEF Transact
<1>20. ASSUME TransactFails PROVE NonceInv'
  BY <1>20 DEF TransactFails
<1>21. ASSUME Published PROVE NonceInv'
  BY <1>21 DEF Published
<1>22. ASSUME PublishFailed PROVE NonceInv'
  BY <1>22 DEF PublishFailed
<1>23. ASSUME Audit PROVE NonceInv'
  BY <1>23 DEF Audit
<1>24. ASSUME AuditFails PROVE NonceInv'
  BY <1>24 DEF AuditFails
<1>25. ASSUME Restored PROVE NonceInv'
  BY <1>25 DEF Restored
<1>26. ASSUME CompensationFailed PROVE NonceInv'
  BY <1>26 DEF CompensationFailed
<1>27. ASSUME Unlink PROVE NonceInv'
  BY <1>27 DEF Unlink
<1>28. ASSUME Verify PROVE NonceInv'
  BY <1>28 DEF Verify
<1>29. ASSUME UnlinkOrVerifyFails PROVE NonceInv'
  BY <1>29 DEF UnlinkOrVerifyFails
<1>30. ASSUME Record PROVE NonceInv'
  BY <1>30 DEF Record
<1>31. ASSUME RecordFails PROVE NonceInv'
  BY <1>31 DEF RecordFails
<1>32. ASSUME Settle PROVE NonceInv'
  BY <1>32 DEF Settle
<1>33. ASSUME SettleFails PROVE NonceInv'
  BY <1>33 DEF SettleFails
<1>34. ASSUME NEW x \in Paths, NEW c \in Contents \ Plans, OtherProcessWrites(x, c)
       PROVE NonceInv'
  BY <1>34 DEF OtherProcessWrites
<1>35. CASE Restart
  BY <1>35 DEF Restart
<1>36. CASE UNCHANGED vars BY <1>36 DEF vars
<1> QED
  BY <1>1, <1>2, <1>3, <1>4, <1>5, <1>6, <1>7, <1>8, <1>9, <1>10, <1>11, <1>12,
     <1>13, <1>14, <1>15, <1>16, <1>17, <1>18, <1>19, <1>20, <1>21, <1>22, <1>23, <1>24,
     <1>25, <1>26, <1>27, <1>28, <1>29, <1>30, <1>31, <1>32, <1>33, <1>34, <1>35, <1>36
     DEF Next, PreviewStep, CommitStep, FailureStep, OtherStep

\* What a step of a transaction does to files and before images.
LEMMA TxEffect ==
  ASSUME TxTypeOK, TxStep \/ TxFault
  PROVE  /\ txPhase # "idle"
         /\ txContent' = txContent /\ txWrites' = txWrites
         /\ \A x \in Paths : files'[x] # files[x] =>
              x \in txWrites /\ files'[x] \in {txContent[x], originals[x]}
         /\ \A x \in Paths : originals'[x] \in {originals[x], files[x]}
<1> USE DEF TxTypeOK
<1>1. CASE Preflight BY <1>1 DEF Preflight
<1>2. CASE ReadOriginal BY <1>2 DEF ReadOriginal
<1>3. CASE WriteTemporary BY <1>3 DEF WriteTemporary
<1>4. CASE Replace BY <1>4 DEF Replace
<1>5. CASE Undo BY <1>5 DEF Undo
<1>6. CASE PrepareFails BY <1>6 DEF PrepareFails
<1>7. CASE ReplaceFails BY <1>7 DEF ReplaceFails
<1>8. CASE UndoFails BY <1>8 DEF UndoFails
<1> QED BY <1>1, <1>2, <1>3, <1>4, <1>5, <1>6, <1>7, <1>8 DEF TxStep, TxFault

(***************************************************************************)
(* What a plan writes stays where it belongs.                              *)
(***************************************************************************)
LEMMA UnseenNext ==
  ASSUME TypeOK, NonceInv, Unseen, Untouched, Within, Settling, [Next]_vars
  PROVE  Unseen'
<1> USE MutationConstants
        DEF TypeOK, NonceInv, Unseen, Untouched, Running, webVars, planVars,
            SetNonce, Return, GoOn, GiveUp, Compensated
<1>1. ASSUME NEW p \in Plans, Preview(p) PROVE Unseen'
  BY <1>1 DEF Preview
<1>2. ASSUME NEW p \in Plans, Expire(p) PROVE Unseen'
  BY <1>2 DEF Expire
<1>3. ASSUME ReadBefore PROVE Unseen'
  BY <1>3 DEF ReadBefore
<1>4. ASSUME ReadVersion PROVE Unseen'
  BY <1>4 DEF ReadVersion
<1>5. ASSUME PreviewFails PROVE Unseen'
  BY <1>5 DEF PreviewFails
<1>6. ASSUME Issue PROVE Unseen'
  BY <1>6 DEF Issue
<1>7. ASSUME NEW p \in Plans, Confirm(p) PROVE Unseen'
  BY <1>7 DEF Confirm
<1>8. ASSUME NEW p \in Plans, Refuse(p) PROVE Unseen'
  BY <1>8 DEF Refuse
<1>9. ASSUME NEW p \in Plans, RefuseDamaged(p) PROVE Unseen'
  BY <1>9 DEF RefuseDamaged
<1>10. ASSUME ReadFile PROVE Unseen'
  BY <1>10 DEF ReadFile
<1>11. ASSUME Enter PROVE Unseen'
  BY <1>11 DEF Enter
<1>12. ASSUME CheckRefuses PROVE Unseen'
  BY <1>12 DEF CheckRefuses
<1>13. ASSUME CheckFails PROVE Unseen'
  BY <1>13 DEF CheckFails
<1>14. ASSUME Validate PROVE Unseen'
  BY <1>14 DEF Validate
<1>15. ASSUME ValidateRefuses PROVE Unseen'
  BY <1>15 DEF ValidateRefuses
<1>16. ASSUME RecheckRefuses PROVE Unseen'
  BY <1>16 DEF RecheckRefuses
<1>17. ASSUME RecheckFails PROVE Unseen'
  BY <1>17 DEF RecheckFails
<1>18. ASSUME Publish PROVE Unseen'
  BY <1>18 DEF Publish
<1>19. ASSUME Transact PROVE Unseen'
  BY <1>19 DEF Transact
<1>20. ASSUME TransactFails PROVE Unseen'
  BY <1>20 DEF TransactFails
<1>21. ASSUME Published PROVE Unseen'
  BY <1>21 DEF Published
<1>22. ASSUME PublishFailed PROVE Unseen'
  BY <1>22 DEF PublishFailed
<1>23. ASSUME Audit PROVE Unseen'
  BY <1>23 DEF Audit
<1>24. ASSUME AuditFails PROVE Unseen'
  BY <1>24 DEF AuditFails
<1>25. ASSUME Restored PROVE Unseen'
  BY <1>25 DEF Restored
<1>26. ASSUME CompensationFailed PROVE Unseen'
  BY <1>26 DEF CompensationFailed
<1>27. ASSUME Unlink PROVE Unseen'
  BY <1>27 DEF Unlink
<1>28. ASSUME Verify PROVE Unseen'
  BY <1>28 DEF Verify
<1>29. ASSUME UnlinkOrVerifyFails PROVE Unseen'
  BY <1>29 DEF UnlinkOrVerifyFails
<1>30. ASSUME Record PROVE Unseen'
  BY <1>30 DEF Record
<1>31. ASSUME RecordFails PROVE Unseen'
  BY <1>31 DEF RecordFails
<1>32. ASSUME Settle PROVE Unseen'
  BY <1>32 DEF Settle
<1>33. ASSUME SettleFails PROVE Unseen'
  BY <1>33 DEF SettleFails
<1>34. ASSUME NEW x \in Paths, NEW c \in Contents \ Plans, OtherProcessWrites(x, c)
       PROVE Unseen'
  BY <1>34 DEF OtherProcessWrites
<1>35. CASE Restart
  BY <1>35 DEF Restart
<1>36. CASE UNCHANGED vars BY <1>36 DEF vars
<1> QED
  BY <1>1, <1>2, <1>3, <1>4, <1>5, <1>6, <1>7, <1>8, <1>9, <1>10, <1>11, <1>12,
     <1>13, <1>14, <1>15, <1>16, <1>17, <1>18, <1>19, <1>20, <1>21, <1>22, <1>23, <1>24,
     <1>25, <1>26, <1>27, <1>28, <1>29, <1>30, <1>31, <1>32, <1>33, <1>34, <1>35, <1>36
     DEF Next, PreviewStep, CommitStep, FailureStep, OtherStep

LEMMA UntouchedNext ==
  ASSUME TypeOK, NonceInv, Unseen, Untouched, Within, Settling, [Next]_vars
  PROVE  Untouched'
<1> USE MutationConstants
        DEF TypeOK, NonceInv, Unseen, Untouched, Running, webVars, planVars,
            SetNonce, Return, GoOn, GiveUp, Compensated
<1>1. ASSUME NEW p \in Plans, Preview(p) PROVE Untouched'
  BY <1>1 DEF Preview
<1>2. ASSUME NEW p \in Plans, Expire(p) PROVE Untouched'
  BY <1>2 DEF Expire
<1>3. ASSUME ReadBefore PROVE Untouched'
  BY <1>3 DEF ReadBefore
<1>4. ASSUME ReadVersion PROVE Untouched'
  BY <1>4 DEF ReadVersion
<1>5. ASSUME PreviewFails PROVE Untouched'
  BY <1>5 DEF PreviewFails
<1>6. ASSUME Issue PROVE Untouched'
  BY <1>6 DEF Issue
<1>7. ASSUME NEW p \in Plans, Confirm(p) PROVE Untouched'
  BY <1>7 DEF Confirm
<1>8. ASSUME NEW p \in Plans, Refuse(p) PROVE Untouched'
  BY <1>8 DEF Refuse
<1>9. ASSUME NEW p \in Plans, RefuseDamaged(p) PROVE Untouched'
  BY <1>9 DEF RefuseDamaged
<1>10. ASSUME ReadFile PROVE Untouched'
  BY <1>10 DEF ReadFile
<1>11. ASSUME Enter PROVE Untouched'
  BY <1>11 DEF Enter
<1>12. ASSUME CheckRefuses PROVE Untouched'
  BY <1>12 DEF CheckRefuses
<1>13. ASSUME CheckFails PROVE Untouched'
  BY <1>13 DEF CheckFails
<1>14. ASSUME Validate PROVE Untouched'
  BY <1>14 DEF Validate
<1>15. ASSUME ValidateRefuses PROVE Untouched'
  BY <1>15 DEF ValidateRefuses
<1>16. ASSUME RecheckRefuses PROVE Untouched'
  BY <1>16 DEF RecheckRefuses
<1>17. ASSUME RecheckFails PROVE Untouched'
  BY <1>17 DEF RecheckFails
<1>18. ASSUME Publish PROVE Untouched'
  BY <1>18 DEF Publish
<1>19. ASSUME Transact PROVE Untouched'
  <2>1. TxStep \/ TxFault BY <1>19 DEF Transact
  <2>2. nonce' = nonce /\ TxTypeOK /\ txPhase # "idle" BY <1>19, <2>1, TxEffect DEF Transact
  <2>3. ASSUME NEW q \in Plans, nonce[q] \in {"none", "issued"}, NEW x \in Paths
        PROVE  files'[x] # q
    <3>1. files[x] # q BY <2>3
    <3>2. originals[x] # q /\ txContent[x] # q BY <2>2, <2>3 DEF Within
    <3> QED BY <2>1, <2>2, <3>1, <3>2, TxEffect
  <2> QED BY <2>2, <2>3
<1>20. ASSUME TransactFails PROVE Untouched'
  <2>1. TxStep \/ TxFault BY <1>20 DEF TransactFails
  <2>2. nonce' = nonce /\ TxTypeOK /\ txPhase # "idle" BY <1>20, <2>1, TxEffect DEF TransactFails
  <2>3. ASSUME NEW q \in Plans, nonce[q] \in {"none", "issued"}, NEW x \in Paths
        PROVE  files'[x] # q
    <3>1. files[x] # q BY <2>3
    <3>2. originals[x] # q /\ txContent[x] # q BY <2>2, <2>3 DEF Within
    <3> QED BY <2>1, <2>2, <3>1, <3>2, TxEffect
  <2> QED BY <2>2, <2>3
<1>21. ASSUME Published PROVE Untouched'
  BY <1>21 DEF Published
<1>22. ASSUME PublishFailed PROVE Untouched'
  BY <1>22 DEF PublishFailed
<1>23. ASSUME Audit PROVE Untouched'
  BY <1>23 DEF Audit
<1>24. ASSUME AuditFails PROVE Untouched'
  BY <1>24 DEF AuditFails
<1>25. ASSUME Restored PROVE Untouched'
  BY <1>25 DEF Restored
<1>26. ASSUME CompensationFailed PROVE Untouched'
  BY <1>26 DEF CompensationFailed
<1>27. ASSUME Unlink PROVE Untouched'
  BY <1>27 DEF Unlink
<1>28. ASSUME Verify PROVE Untouched'
  BY <1>28 DEF Verify
<1>29. ASSUME UnlinkOrVerifyFails PROVE Untouched'
  BY <1>29 DEF UnlinkOrVerifyFails
<1>30. ASSUME Record PROVE Untouched'
  BY <1>30 DEF Record
<1>31. ASSUME RecordFails PROVE Untouched'
  BY <1>31 DEF RecordFails
<1>32. ASSUME Settle PROVE Untouched'
  <2>1. cur \in Plans /\ nonce[cur] = "committing" BY <1>32, InHand DEF Settle
  <2>2. PICK y \in left :
          /\ left = {y}
          /\ nonce' = [nonce EXCEPT ![cur] = IF Matches(y) /\ cur \notin expired
                                              THEN "issued" ELSE "consumed"]
    BY <1>32 DEF Settle
  <2>3. files' = files /\ pc = "settle" BY <1>32 DEF Settle
  <2>4. ASSUME nonce'[cur] = "issued", NEW x \in Paths PROVE files[x] # cur
    <3>1. Matches(y) BY <2>1, <2>2, <2>4
    <3>2. y \in Paths /\ files[y] = version[cur][y] BY <2>2, <2>3, <3>1 DEF Matches, Expected
    <3>3. files[y] # cur BY <2>1, <3>2
    <3>4. same BY <3>1 DEF Matches
    <3>5. \A z \in Writes[cur] \ {y} : files[z] # cur BY <2>2, <2>3, <3>4 DEF Settling
    <3> QED BY <2>3, <3>3, <3>5 DEF Within
  <2> QED BY <2>1, <2>2, <2>3, <2>4
<1>33. ASSUME SettleFails PROVE Untouched'
  BY <1>33 DEF SettleFails
<1>34. ASSUME NEW x \in Paths, NEW c \in Contents \ Plans, OtherProcessWrites(x, c)
       PROVE Untouched'
  BY <1>34 DEF OtherProcessWrites
<1>35. CASE Restart
  BY <1>35 DEF Restart
<1>36. CASE UNCHANGED vars BY <1>36 DEF vars
<1> QED
  BY <1>1, <1>2, <1>3, <1>4, <1>5, <1>6, <1>7, <1>8, <1>9, <1>10, <1>11, <1>12,
     <1>13, <1>14, <1>15, <1>16, <1>17, <1>18, <1>19, <1>20, <1>21, <1>22, <1>23, <1>24,
     <1>25, <1>26, <1>27, <1>28, <1>29, <1>30, <1>31, <1>32, <1>33, <1>34, <1>35, <1>36
     DEF Next, PreviewStep, CommitStep, FailureStep, OtherStep

LEMMA WithinNext ==
  ASSUME TypeOK, NonceInv, Unseen, Untouched, Within, Settling, [Next]_vars
  PROVE  Within'
<1> USE MutationConstants
        DEF TypeOK, NonceInv, Unseen, Untouched, Within, Running, webVars, planVars,
            SetNonce, Return, GoOn, GiveUp, Compensated
<1>1. ASSUME NEW p \in Plans, Preview(p) PROVE Within'
  BY <1>1 DEF Preview, txVars
<1>2. ASSUME NEW p \in Plans, Expire(p) PROVE Within'
  BY <1>2 DEF Expire, txVars
<1>3. ASSUME ReadBefore PROVE Within'
  BY <1>3 DEF ReadBefore, txVars
<1>4. ASSUME ReadVersion PROVE Within'
  BY <1>4 DEF ReadVersion, txVars
<1>5. ASSUME PreviewFails PROVE Within'
  BY <1>5 DEF PreviewFails, txVars
<1>6. ASSUME Issue PROVE Within'
  BY <1>6 DEF Issue, txVars
<1>7. ASSUME NEW p \in Plans, Confirm(p) PROVE Within'
  BY <1>7 DEF Confirm, txVars
<1>8. ASSUME NEW p \in Plans, Refuse(p) PROVE Within'
  BY <1>8 DEF Refuse, txVars
<1>9. ASSUME NEW p \in Plans, RefuseDamaged(p) PROVE Within'
  BY <1>9 DEF RefuseDamaged, txVars
<1>10. ASSUME ReadFile PROVE Within'
  BY <1>10 DEF ReadFile, txVars
<1>11. ASSUME Enter PROVE Within'
  BY <1>11 DEF Enter, txVars
<1>12. ASSUME CheckRefuses PROVE Within'
  BY <1>12 DEF CheckRefuses, txVars
<1>13. ASSUME CheckFails PROVE Within'
  BY <1>13 DEF CheckFails, txVars
<1>14. ASSUME Validate PROVE Within'
  BY <1>14 DEF Validate, txVars
<1>15. ASSUME ValidateRefuses PROVE Within'
  BY <1>15 DEF ValidateRefuses, txVars
<1>16. ASSUME RecheckRefuses PROVE Within'
  BY <1>16 DEF RecheckRefuses, txVars
<1>17. ASSUME RecheckFails PROVE Within'
  BY <1>17 DEF RecheckFails, txVars
<1>18. ASSUME Publish PROVE Within'
  <2>1. cur \in Plans BY <1>18, InHand DEF Publish
  <2>2. txWrites' = Writes[cur] /\ pc' = "publish" /\ cur' = cur /\ files' = files /\ nonce' = nonce
    BY <1>18 DEF Publish, Stage
  <2>3. nonce[cur] = "committing" BY <1>18, <2>1 DEF Publish
  <2>4. \A x \in Paths : originals'[x] = Absent /\ txContent'[x] \in {cur, Absent}
    BY <1>18 DEF Publish, Stage, Nothing
  <2>5. pc = "recheck" BY <1>18 DEF Publish
  <2> QED BY <2>1, <2>2, <2>3, <2>4, <2>5
<1>19. ASSUME Transact PROVE Within'
  <2>1. TxStep \/ TxFault BY <1>19 DEF Transact
  <2>2. pc' = pc /\ cur' = cur /\ nonce' = nonce /\ pc \in {"publish", "compensate"}
    BY <1>19 DEF Transact
  <2>3. TxTypeOK BY DEF TypeOK
  <2>4. \A x \in Paths : files'[x] = cur => x \in Writes[cur]
    BY <2>1, <2>2, <2>3, TxEffect
  <2>5. \A x \in Paths : \A p \in Plans : nonce[p] \in {"none", "issued"} =>
          originals'[x] # p /\ txContent'[x] # p
    BY SMTT(30), <2>1, <2>3, TxEffect
  <2>6. txWrites' = txWrites BY <2>1, <2>3, TxEffect
  <2> QED BY <2>2, <2>4, <2>5, <2>6
<1>20. ASSUME TransactFails PROVE Within'
  <2>1. TxStep \/ TxFault BY <1>20 DEF TransactFails
  <2>2. pc' = pc /\ cur' = cur /\ nonce' = nonce /\ pc \in {"publish", "compensate"}
    BY <1>20 DEF TransactFails
  <2>3. TxTypeOK BY DEF TypeOK
  <2>4. \A x \in Paths : files'[x] = cur => x \in Writes[cur]
    BY <2>1, <2>2, <2>3, TxEffect
  <2>5. \A x \in Paths : \A p \in Plans : nonce[p] \in {"none", "issued"} =>
          originals'[x] # p /\ txContent'[x] # p
    BY SMTT(30), <2>1, <2>3, TxEffect
  <2>6. txWrites' = txWrites BY <2>1, <2>3, TxEffect
  <2> QED BY <2>2, <2>4, <2>5, <2>6
<1>21. ASSUME Published PROVE Within'
  BY <1>21 DEF Published, Discard
<1>22. ASSUME PublishFailed PROVE Within'
  BY <1>22 DEF PublishFailed, Discard
<1>23. ASSUME Audit PROVE Within'
  BY <1>23 DEF Audit, txVars
<1>24. ASSUME AuditFails PROVE Within'
  <2>1. cur \in Plans /\ Replacements(cur) \subseteq Writes[cur] BY <1>24, InHand DEF AuditFails
  <2>2. cur' = cur /\ files' = files /\ nonce' = nonce /\ pc = "audit" BY <1>24 DEF AuditFails
  <2>3. nonce[cur] = "committing" BY <2>1, <2>2
  <2>4. txPhase = "idle" BY <2>2
  <2>5. CASE pc' = "unlink" /\ UNCHANGED txVars
    BY <2>2, <2>4, <2>5 DEF txVars
  <2>6. CASE pc' = "compensate" /\ Stage(Replacements(cur), Replacements(cur), before[cur])
    <3>1. \A x \in Paths : originals'[x] = Absent /\ txContent'[x] \in {before[cur][x], Absent}
      BY <2>6 DEF Stage, Nothing
    <3>2. txWrites' = Replacements(cur) BY <2>6 DEF Stage
    <3>3. \A x \in Paths : \A p \in Plans : nonce[p] \in {"none", "issued"} =>
            originals'[x] # p /\ txContent'[x] # p
      BY <2>1, <3>1
    <3> QED BY <2>1, <2>2, <2>6, <3>2, <3>3
  <2> QED BY <1>24, <2>5, <2>6 DEF AuditFails
<1>25. ASSUME Restored PROVE Within'
  BY <1>25 DEF Restored, Discard
<1>26. ASSUME CompensationFailed PROVE Within'
  BY <1>26 DEF CompensationFailed, Discard
<1>27. ASSUME Unlink PROVE Within'
  BY <1>27 DEF Unlink, txVars
<1>28. ASSUME Verify PROVE Within'
  BY <1>28 DEF Verify, txVars
<1>29. ASSUME UnlinkOrVerifyFails PROVE Within'
  BY <1>29 DEF UnlinkOrVerifyFails, txVars
<1>30. ASSUME Record PROVE Within'
  BY <1>30 DEF Record, txVars
<1>31. ASSUME RecordFails PROVE Within'
  BY <1>31 DEF RecordFails, txVars
<1>32. ASSUME Settle PROVE Within'
  BY <1>32 DEF Settle, txVars
<1>33. ASSUME SettleFails PROVE Within'
  BY <1>33 DEF SettleFails, txVars
<1>34. ASSUME NEW x \in Paths, NEW c \in Contents \ Plans, OtherProcessWrites(x, c)
       PROVE Within'
  BY <1>34 DEF OtherProcessWrites, txVars
<1>35. CASE Restart
  BY <1>35 DEF Restart, Discard
<1>36. CASE UNCHANGED vars BY <1>36 DEF vars, txVars
<1> QED
  BY <1>1, <1>2, <1>3, <1>4, <1>5, <1>6, <1>7, <1>8, <1>9, <1>10, <1>11, <1>12,
     <1>13, <1>14, <1>15, <1>16, <1>17, <1>18, <1>19, <1>20, <1>21, <1>22, <1>23, <1>24,
     <1>25, <1>26, <1>27, <1>28, <1>29, <1>30, <1>31, <1>32, <1>33, <1>34, <1>35, <1>36
     DEF Next, PreviewStep, CommitStep, FailureStep, OtherStep

LEMMA SettlingNext ==
  ASSUME TypeOK, NonceInv, Unseen, Untouched, Within, Settling, [Next]_vars
  PROVE  Settling'
<1> USE MutationConstants
        DEF TypeOK, NonceInv, Unseen, Settling, Running, webVars, planVars,
            Return, GoOn, GiveUp, Compensated
<1>1. ASSUME NEW p \in Plans, Preview(p) PROVE Settling'
  BY <1>1 DEF Preview
<1>2. ASSUME NEW p \in Plans, Expire(p) PROVE Settling'
  BY <1>2 DEF Expire
<1>3. ASSUME ReadBefore PROVE Settling'
  BY <1>3 DEF ReadBefore
<1>4. ASSUME ReadVersion PROVE Settling'
  BY <1>4 DEF ReadVersion
<1>5. ASSUME PreviewFails PROVE Settling'
  BY <1>5 DEF PreviewFails
<1>6. ASSUME Issue PROVE Settling'
  BY <1>6 DEF Issue
<1>7. ASSUME NEW p \in Plans, Confirm(p) PROVE Settling'
  BY <1>7 DEF Confirm
<1>8. ASSUME NEW p \in Plans, Refuse(p) PROVE Settling'
  BY <1>8 DEF Refuse
<1>9. ASSUME NEW p \in Plans, RefuseDamaged(p) PROVE Settling'
  BY <1>9 DEF RefuseDamaged
<1>10. ASSUME ReadFile PROVE Settling'
  BY ZenonT(30), <1>10, InHand DEF ReadFile, Matches, Expected
<1>11. ASSUME Enter PROVE Settling'
  BY <1>11 DEF Enter
<1>12. ASSUME CheckRefuses PROVE Settling'
  BY <1>12 DEF CheckRefuses
<1>13. ASSUME CheckFails PROVE Settling'
  BY <1>13 DEF CheckFails
<1>14. ASSUME Validate PROVE Settling'
  BY <1>14 DEF Validate
<1>15. ASSUME ValidateRefuses PROVE Settling'
  BY <1>15 DEF ValidateRefuses
<1>16. ASSUME RecheckRefuses PROVE Settling'
  BY <1>16 DEF RecheckRefuses
<1>17. ASSUME RecheckFails PROVE Settling'
  BY <1>17 DEF RecheckFails
<1>18. ASSUME Publish PROVE Settling'
  BY <1>18 DEF Publish
<1>19. ASSUME Transact PROVE Settling'
  BY <1>19 DEF Transact
<1>20. ASSUME TransactFails PROVE Settling'
  BY <1>20 DEF TransactFails
<1>21. ASSUME Published PROVE Settling'
  BY <1>21 DEF Published
<1>22. ASSUME PublishFailed PROVE Settling'
  BY <1>22 DEF PublishFailed
<1>23. ASSUME Audit PROVE Settling'
  BY <1>23 DEF Audit
<1>24. ASSUME AuditFails PROVE Settling'
  BY <1>24 DEF AuditFails
<1>25. ASSUME Restored PROVE Settling'
  BY <1>25 DEF Restored
<1>26. ASSUME CompensationFailed PROVE Settling'
  BY <1>26 DEF CompensationFailed
<1>27. ASSUME Unlink PROVE Settling'
  BY <1>27 DEF Unlink
<1>28. ASSUME Verify PROVE Settling'
  BY <1>28 DEF Verify
<1>29. ASSUME UnlinkOrVerifyFails PROVE Settling'
  BY <1>29 DEF UnlinkOrVerifyFails
<1>30. ASSUME Record PROVE Settling'
  BY <1>30 DEF Record
<1>31. ASSUME RecordFails PROVE Settling'
  BY <1>31 DEF RecordFails
<1>32. ASSUME Settle PROVE Settling'
  BY <1>32 DEF Settle
<1>33. ASSUME SettleFails PROVE Settling'
  BY <1>33 DEF SettleFails
<1>34. ASSUME NEW x \in Paths, NEW c \in Contents \ Plans, OtherProcessWrites(x, c)
       PROVE Settling'
  BY <1>34 DEF OtherProcessWrites
<1>35. CASE Restart
  BY <1>35 DEF Restart
<1>36. CASE UNCHANGED vars BY <1>36 DEF vars
<1> QED
  BY <1>1, <1>2, <1>3, <1>4, <1>5, <1>6, <1>7, <1>8, <1>9, <1>10, <1>11, <1>12,
     <1>13, <1>14, <1>15, <1>16, <1>17, <1>18, <1>19, <1>20, <1>21, <1>22, <1>23, <1>24,
     <1>25, <1>26, <1>27, <1>28, <1>29, <1>30, <1>31, <1>32, <1>33, <1>34, <1>35, <1>36
     DEF Next, PreviewStep, CommitStep, FailureStep, OtherStep

(***************************************************************************)
(* What is audited was published.                                          *)
(***************************************************************************)
LEMMA WholeTransact ==
  ASSUME TypeOK, Publishing, Transact \/ TransactFails
  PROVE  Publishing'
<1> USE DEF TypeOK, TxTypeOK, Publishing, Whole, webVars, planVars
<1>0. /\ pc' = pc /\ cur' = cur /\ pc \in {"publish", "compensate"}
      /\ overwritten' = overwritten
  BY DEF Transact, TransactFails, Fault, boundVars
<1>1. CASE Preflight BY <1>0, <1>1 DEF Preflight, Advance
<1>2. CASE ReadOriginal BY <1>0, <1>2 DEF ReadOriginal, Advance
<1>3. CASE WriteTemporary BY <1>0, <1>3 DEF WriteTemporary
<1>4. CASE Replace
  <2>0. CASE pc # "publish" BY <1>0, <2>0
  <2>1. PICK x \in txLeft : /\ files' = [files EXCEPT ![x] = txContent[x]]
                           /\ applied' = applied \cup {x}
                           /\ Advance(x, "done")
    BY <1>4 DEF Replace
  <2>2. txPhase = "replace" /\ UNCHANGED <<txWrites, txMust, txContent, originals>>
    BY <1>4 DEF Replace
  <2>3. CASE pc = "publish"
    <3>1. x \in txWrites /\ x \in Paths /\ txContent[x] = cur BY <2>2, <2>3
    <3>2. \A y \in applied' : files'[y] = cur \/ y \in overwritten'
      BY <1>0, <2>1, <2>2, <2>3, <3>1
    <3>3. CASE txLeft = {x}
      <4>1. applied' = txWrites BY <2>1, <2>2, <2>3, <3>1, <3>3
      <4>2. txPhase' = "done" BY <2>1, <3>3 DEF Advance
      <4> QED BY <1>0, <2>2, <2>3, <3>2, <4>1, <4>2
    <3>4. CASE txLeft # {x}
      <4>1. txPhase' = "replace" /\ txLeft' = txLeft \ {x}
        BY <2>1, <2>2, <3>4 DEF Advance
      <4>2. txLeft' = txWrites \ applied' BY <2>1, <2>2, <2>3, <4>1
      <4> QED BY <1>0, <2>2, <2>3, <3>2, <4>1, <4>2
    <3> QED BY <3>3, <3>4
  <2> QED BY <2>0, <2>3
<1>5. CASE Undo
  <2>1. txPhase = "rollback" /\ txPhase' \in {"failed", "rollback"} BY <1>5 DEF Undo
  <2>2. UNCHANGED <<txWrites, txContent>> BY <1>5 DEF Undo
  <2> QED BY <1>0, <2>1, <2>2
<1>6. CASE PrepareFails BY <1>0, <1>6 DEF PrepareFails
<1>7. CASE ReplaceFails BY <1>0, <1>7 DEF ReplaceFails
<1>8. CASE UndoFails BY <1>0, <1>8 DEF UndoFails
<1> QED
  BY <1>1, <1>2, <1>3, <1>4, <1>5, <1>6, <1>7, <1>8
     DEF Transact, TransactFails, TxStep, TxFault

LEMMA PublishingNext ==
  ASSUME TypeOK, Publishing, [Next]_vars
  PROVE  Publishing'
<1> USE MutationConstants
        DEF TypeOK, Publishing, Whole, webVars, planVars, boundVars, txVars, SetNonce, Return, GoOn,
            GiveUp, Compensated
<1>1. ASSUME NEW p \in Plans, Preview(p) PROVE Publishing'
  BY <1>1 DEF Preview
<1>2. ASSUME NEW p \in Plans, Expire(p) PROVE Publishing'
  BY <1>2 DEF Expire
<1>3. ASSUME ReadBefore PROVE Publishing'
  BY <1>3 DEF ReadBefore
<1>4. ASSUME ReadVersion PROVE Publishing'
  BY <1>4 DEF ReadVersion
<1>5. ASSUME PreviewFails PROVE Publishing'
  BY <1>5 DEF PreviewFails
<1>6. ASSUME Issue PROVE Publishing'
  BY <1>6 DEF Issue
<1>7. ASSUME NEW p \in Plans, Confirm(p) PROVE Publishing'
  BY <1>7 DEF Confirm
<1>8. ASSUME NEW p \in Plans, Refuse(p) PROVE Publishing'
  BY <1>8 DEF Refuse
<1>9. ASSUME NEW p \in Plans, RefuseDamaged(p) PROVE Publishing'
  BY <1>9 DEF RefuseDamaged
<1>10. ASSUME ReadFile PROVE Publishing'
  BY <1>10 DEF ReadFile
<1>11. ASSUME Enter PROVE Publishing'
  BY <1>11 DEF Enter
<1>12. ASSUME CheckRefuses PROVE Publishing'
  BY <1>12 DEF CheckRefuses
<1>13. ASSUME CheckFails PROVE Publishing'
  BY <1>13 DEF CheckFails
<1>14. ASSUME Validate PROVE Publishing'
  BY <1>14 DEF Validate
<1>15. ASSUME ValidateRefuses PROVE Publishing'
  BY <1>15 DEF ValidateRefuses
<1>16. ASSUME RecheckRefuses PROVE Publishing'
  BY <1>16 DEF RecheckRefuses
<1>17. ASSUME RecheckFails PROVE Publishing'
  BY <1>17 DEF RecheckFails
<1>18. ASSUME Publish PROVE Publishing'
  BY <1>18, InHand DEF Publish, Stage
<1>19. ASSUME Transact PROVE Publishing'
  BY <1>19, WholeTransact
<1>20. ASSUME TransactFails PROVE Publishing'
  BY <1>20, WholeTransact
<1>21. ASSUME Published PROVE Publishing'
  BY <1>21 DEF Published
<1>22. ASSUME PublishFailed PROVE Publishing'
  BY <1>22 DEF PublishFailed
<1>23. ASSUME Audit PROVE Publishing'
  BY <1>23 DEF Audit
<1>24. ASSUME AuditFails PROVE Publishing'
  BY <1>24 DEF AuditFails
<1>25. ASSUME Restored PROVE Publishing'
  BY <1>25 DEF Restored
<1>26. ASSUME CompensationFailed PROVE Publishing'
  BY <1>26 DEF CompensationFailed
<1>27. ASSUME Unlink PROVE Publishing'
  BY <1>27 DEF Unlink
<1>28. ASSUME Verify PROVE Publishing'
  BY <1>28 DEF Verify
<1>29. ASSUME UnlinkOrVerifyFails PROVE Publishing'
  BY <1>29 DEF UnlinkOrVerifyFails
<1>30. ASSUME Record PROVE Publishing'
  BY <1>30 DEF Record
<1>31. ASSUME RecordFails PROVE Publishing'
  BY <1>31 DEF RecordFails
<1>32. ASSUME Settle PROVE Publishing'
  BY <1>32 DEF Settle
<1>33. ASSUME SettleFails PROVE Publishing'
  BY <1>33 DEF SettleFails
<1>34. ASSUME NEW x \in Paths, NEW c \in Contents \ Plans, OtherProcessWrites(x, c)
       PROVE Publishing'
  BY <1>34 DEF OtherProcessWrites
<1>35. CASE Restart
  BY <1>35 DEF Restart
<1>36. CASE UNCHANGED vars BY <1>36 DEF vars
<1> QED
  BY <1>1, <1>2, <1>3, <1>4, <1>5, <1>6, <1>7, <1>8, <1>9, <1>10, <1>11, <1>12,
     <1>13, <1>14, <1>15, <1>16, <1>17, <1>18, <1>19, <1>20, <1>21, <1>22, <1>23, <1>24,
     <1>25, <1>26, <1>27, <1>28, <1>29, <1>30, <1>31, <1>32, <1>33, <1>34, <1>35, <1>36
     DEF Next, PreviewStep, CommitStep, FailureStep, OtherStep

(***************************************************************************)
(* The invariant and what follows from it.                                 *)
(***************************************************************************)
LEMMA InitIInv ==
  ASSUME Init
  PROVE  IInv
<1> USE MutationConstants, AbsentIsContent DEF Init, TxInit, Nothing
<1>1. TypeOK BY DEF TypeOK, TxTypeOK, PCs, Phases, NonceStates
<1>2. NonceInv BY DEF NonceInv, Running
<1>3. Unseen /\ Untouched BY DEF Unseen, Untouched
<1>4. Within /\ Settling BY DEF Within, Settling, Running
<1>5. Publishing BY DEF Publishing
<1> QED BY <1>1, <1>2, <1>3, <1>4, <1>5 DEF IInv

LEMMA NextIInv ==
  ASSUME IInv, [Next]_vars
  PROVE  IInv'
<1> USE DEF IInv
<1>1. TypeOK' BY TypeNext
<1>2. NonceInv' BY NonceNext
<1>3. Unseen' BY UnseenNext
<1>4. Untouched' BY UntouchedNext
<1>5. Within' BY WithinNext
<1>6. Settling' BY SettlingNext
<1>7. Publishing' BY PublishingNext
<1> QED BY <1>1, <1>2, <1>3, <1>4, <1>5, <1>6, <1>7

\* The inductive invariant of the commit path: the nonce in hand is committing and
\* no other is, and what a plan writes is nowhere to be seen while it may run.
THEOREM MutationInvariant == Spec => []IInv
<1>1. Init => IInv BY InitIInv
<1>2. IInv /\ [Next]_vars => IInv' BY NextIInv
<1> QED BY <1>1, <1>2, PTL DEF Spec

\* Every variable keeps its type, and a handler has a plan in hand unless it is idle.
THEOREM MutationTypes == Spec => []TypeOK
<1>1. IInv => TypeOK BY DEF IInv
<1> QED BY <1>1, MutationInvariant, PTL

\* Between requests no nonce is left committing, whatever failed: commit() of the
\* gateway resets or consumes it on every path.
THEOREM NoNonceIsStuck == Spec => []NoStuckNonce
<1>1. IInv => NoStuckNonce BY DEF IInv, NonceInv, NoStuckNonce, Running
<1> QED BY <1>1, MutationInvariant, PTL

\* A token that is accepted again belongs to a mutation that left nothing behind.
THEOREM RetryIsSafe == Spec => []RetryableIsUntouched
<1>1. IInv => RetryableIsUntouched
  <2> SUFFICES ASSUME IInv, NEW p \in Plans, nonce[p] = "issued"
               PROVE  committed[p] = 0 /\ ~HoldsWriteOf(p)
    BY DEF RetryableIsUntouched
  <2>1. committed[p] \in Nat /\ ~(committed[p] > 0) BY DEF IInv, TypeOK, NonceInv
  <2>2. Writes[p] \subseteq Paths BY MutationConstants
  <2>3. \A x \in Paths : files[x] # p BY DEF IInv, Untouched
  <2> QED BY <2>1, <2>2, <2>3 DEF HoldsWriteOf
<1> QED BY <1>1, MutationInvariant, PTL

\* A nonce that is used up withdraws its offer, or changes nothing.
LEMMA UsedUp ==
  ASSUME TypeOK, NEW p \in Plans, NEW s \in {"consumed", "forgotten"},
         nonce' = [nonce EXCEPT ![p] = s], committed' = committed
  PROVE  [Promise!Next]_Promise!oneUseVars
<1> USE DEF TypeOK, NonceStates
<1>1. CASE committed[p] > 0 \/ nonce[p] \in {"consumed", "forgotten"}
  <2>1. Standing' = Standing BY <1>1 DEF Standing, StandingOf
  <2> QED BY <2>1 DEF Promise!oneUseVars
<1>2. CASE ~(committed[p] > 0) /\ nonce[p] \in {"none", "issued", "committing"}
  <2>1. Standing' = [Standing EXCEPT ![p] = "void"] BY <1>2 DEF Standing, StandingOf
  <2>2. Standing[p] \in {"none", "open", "running"} BY <1>2 DEF Standing, StandingOf
  <2>3. Promise!Withdraw(p) BY <2>1, <2>2 DEF Promise!Withdraw, Promise!Becomes
  <2> QED BY <2>3 DEF Promise!Next
<1> QED BY <1>1, <1>2

LEMMA StepKeepsPromise ==
  ASSUME IInv, [Next]_vars
  PROVE  [Promise!Next]_Promise!oneUseVars
<1> USE MutationConstants
        DEF IInv, TypeOK, NonceStates, webVars, planVars, durableVars
<1> DEFINE Stays == Standing' = Standing /\ committed' = committed
<1>0. ASSUME Stays PROVE [Promise!Next]_Promise!oneUseVars
  BY <1>0 DEF Promise!oneUseVars
<1> HIDE DEF Stays
<1>1. ASSUME NEW p \in Plans, Preview(p)
      PROVE  [Promise!Next]_Promise!oneUseVars
  <2>1. Stays BY <1>1 DEF Preview, Stays, Standing
  <2> QED BY <1>0, <2>1
<1>2. ASSUME NEW p \in Plans, Expire(p)
      PROVE  [Promise!Next]_Promise!oneUseVars
  <2>1. Stays BY <1>2 DEF Expire, Stays, Standing
  <2> QED BY <1>0, <2>1
<1>3. ASSUME ReadBefore
      PROVE  [Promise!Next]_Promise!oneUseVars
  <2>1. Stays BY <1>3 DEF ReadBefore, Stays, Standing
  <2> QED BY <1>0, <2>1
<1>4. ASSUME ReadVersion
      PROVE  [Promise!Next]_Promise!oneUseVars
  <2>1. Stays BY <1>4 DEF ReadVersion, Stays, Standing
  <2> QED BY <1>0, <2>1
<1>5. ASSUME PreviewFails
      PROVE  [Promise!Next]_Promise!oneUseVars
  <2>1. Stays BY <1>5 DEF PreviewFails, Stays, Standing
  <2> QED BY <1>0, <2>1
<1>6. ASSUME Issue
      PROVE  [Promise!Next]_Promise!oneUseVars
  <2>1. cur \in Plans /\ nonce[cur] = "none" BY <1>6, InHand DEF Issue, NonceInv
  <2>2. nonce' = [nonce EXCEPT ![cur] = "issued"] /\ committed' = committed
    BY <1>6 DEF Issue, SetNonce
  <2>3. ~(committed[cur] > 0) BY <2>1 DEF NonceInv
  <2>4. Standing' = [Standing EXCEPT ![cur] = "open"] /\ Standing[cur] = "none"
    BY <2>1, <2>2, <2>3 DEF Standing, StandingOf
  <2>5. Promise!Offer(cur) BY <2>2, <2>4 DEF Promise!Offer, Promise!Becomes
  <2> QED BY <2>1, <2>5 DEF Promise!Next
<1>7. ASSUME NEW p \in Plans, Confirm(p)
      PROVE  [Promise!Next]_Promise!oneUseVars
  <2>1. Stays BY <1>7 DEF Confirm, Stays, Standing
  <2> QED BY <1>0, <2>1
<1>8. ASSUME NEW p \in Plans, Refuse(p)
      PROVE  [Promise!Next]_Promise!oneUseVars
  <2>1. nonce' = [nonce EXCEPT ![p] = "consumed"] /\ committed' = committed
    BY <1>8 DEF Refuse, SetNonce
  <2> QED BY <2>1, UsedUp
<1>9. ASSUME NEW p \in Plans, RefuseDamaged(p)
      PROVE  [Promise!Next]_Promise!oneUseVars
  <2>1. nonce' = [nonce EXCEPT ![p] = "consumed"] /\ committed' = committed
    BY <1>9 DEF RefuseDamaged, SetNonce
  <2> QED BY <2>1, UsedUp
<1>10. ASSUME ReadFile
      PROVE  [Promise!Next]_Promise!oneUseVars
  <2>1. Stays BY <1>10 DEF ReadFile, Stays, Standing
  <2> QED BY <1>0, <2>1
<1>11. ASSUME Enter
      PROVE  [Promise!Next]_Promise!oneUseVars
  <2>1. cur \in Plans /\ nonce[cur] = "issued" BY <1>11, InHand DEF Enter, NonceInv
  <2>2. nonce' = [nonce EXCEPT ![cur] = "committing"] /\ committed' = committed
    BY <1>11 DEF Enter, SetNonce
  <2>3. ~(committed[cur] > 0) BY <2>1 DEF NonceInv
  <2>4. Standing' = [Standing EXCEPT ![cur] = "running"] /\ Standing[cur] = "open"
    BY <2>1, <2>2, <2>3 DEF Standing, StandingOf
  <2>5. \A q \in Plans : nonce[q] # "committing" BY <1>11 DEF Enter, NonceInv, Running
  <2>6. \A q \in Plans : Standing[q] # "running" BY <2>5 DEF Standing, StandingOf
  <2>7. Promise!Run(cur) BY <2>2, <2>4, <2>6 DEF Promise!Run, Promise!Becomes
  <2> QED BY <2>1, <2>7 DEF Promise!Next
<1>12. ASSUME CheckRefuses
      PROVE  [Promise!Next]_Promise!oneUseVars
  <2>1. cur \in Plans /\ nonce' = [nonce EXCEPT ![cur] = "consumed"] /\ committed' = committed
    BY <1>12, InHand DEF CheckRefuses, SetNonce, GiveUp
  <2> QED BY <2>1, UsedUp
<1>13. ASSUME CheckFails
      PROVE  [Promise!Next]_Promise!oneUseVars
  <2>1. Stays BY <1>13 DEF CheckFails, Stays, Standing
  <2> QED BY <1>0, <2>1
<1>14. ASSUME Validate
      PROVE  [Promise!Next]_Promise!oneUseVars
  <2>1. Stays BY <1>14 DEF Validate, Stays, Standing
  <2> QED BY <1>0, <2>1
<1>15. ASSUME ValidateRefuses
      PROVE  [Promise!Next]_Promise!oneUseVars
  <2>1. cur \in Plans /\ nonce' = [nonce EXCEPT ![cur] = "consumed"] /\ committed' = committed
    BY <1>15, InHand DEF ValidateRefuses, SetNonce, GiveUp
  <2> QED BY <2>1, UsedUp
<1>16. ASSUME RecheckRefuses
      PROVE  [Promise!Next]_Promise!oneUseVars
  <2>1. cur \in Plans /\ nonce' = [nonce EXCEPT ![cur] = "consumed"] /\ committed' = committed
    BY <1>16, InHand DEF RecheckRefuses, SetNonce, GiveUp
  <2> QED BY <2>1, UsedUp
<1>17. ASSUME RecheckFails
      PROVE  [Promise!Next]_Promise!oneUseVars
  <2>1. cur \in Plans /\ nonce' = [nonce EXCEPT ![cur] = "consumed"] /\ committed' = committed
    BY <1>17, InHand DEF RecheckFails, SetNonce, GiveUp
  <2> QED BY <2>1, UsedUp
<1>18. ASSUME Publish
      PROVE  [Promise!Next]_Promise!oneUseVars
  <2>1. Stays BY <1>18 DEF Publish, Stays, Standing
  <2> QED BY <1>0, <2>1
<1>19. ASSUME Transact
      PROVE  [Promise!Next]_Promise!oneUseVars
  <2>1. Stays BY <1>19 DEF Transact, Stays, Standing
  <2> QED BY <1>0, <2>1
<1>20. ASSUME TransactFails
      PROVE  [Promise!Next]_Promise!oneUseVars
  <2>1. Stays BY <1>20 DEF TransactFails, Stays, Standing
  <2> QED BY <1>0, <2>1
<1>21. ASSUME Published
      PROVE  [Promise!Next]_Promise!oneUseVars
  <2>1. Stays BY <1>21 DEF Published, Stays, Standing
  <2> QED BY <1>0, <2>1
<1>22. ASSUME PublishFailed
      PROVE  [Promise!Next]_Promise!oneUseVars
  <2>1. Stays BY <1>22 DEF PublishFailed, Stays, Standing
  <2> QED BY <1>0, <2>1
<1>23. ASSUME Audit
      PROVE  [Promise!Next]_Promise!oneUseVars
  <2>1. cur \in Plans /\ nonce[cur] = "committing" BY <1>23, InHand DEF Audit, NonceInv, Running
  <2>2. /\ nonce' = [nonce EXCEPT ![cur] = "consumed"]
        /\ committed' = [committed EXCEPT ![cur] = @ + 1]
    BY <1>23 DEF Audit, GiveUp, SetNonce
  <2>3. ~(committed[cur] > 0) BY <2>1 DEF NonceInv
  <2>4. Standing' = [Standing EXCEPT ![cur] = "done"] /\ Standing[cur] = "running"
    <3>1. committed'[cur] > 0 /\ \A q \in Plans \ {cur} : committed'[q] = committed[q]
      BY <2>1, <2>2
    <3>2. \A q \in Plans \ {cur} : nonce'[q] = nonce[q] BY <2>1, <2>2
    <3>3. Standing'[cur] = "done" /\ Standing[cur] = "running"
      BY <2>1, <2>3, <3>1 DEF Standing, StandingOf
    <3>4. \A q \in Plans \ {cur} : Standing'[q] = Standing[q]
      BY <3>1, <3>2 DEF Standing
    <3> QED BY <2>1, <3>3, <3>4 DEF Standing
  <2>5. Promise!Succeed(cur) BY <2>2, <2>4 DEF Promise!Succeed, Promise!Becomes
  <2> QED BY <2>1, <2>5 DEF Promise!Next
<1>24. ASSUME AuditFails
      PROVE  [Promise!Next]_Promise!oneUseVars
  <2>1. Stays BY <1>24 DEF AuditFails, Stays, Standing
  <2> QED BY <1>0, <2>1
<1>25. ASSUME Restored
      PROVE  [Promise!Next]_Promise!oneUseVars
  <2>1. Stays BY <1>25 DEF Restored, Stays, Standing
  <2> QED BY <1>0, <2>1
<1>26. ASSUME CompensationFailed
      PROVE  [Promise!Next]_Promise!oneUseVars
  <2>1. Stays BY <1>26 DEF CompensationFailed, Stays, Standing
  <2> QED BY <1>0, <2>1
<1>27. ASSUME Unlink
      PROVE  [Promise!Next]_Promise!oneUseVars
  <2>1. Stays BY <1>27 DEF Unlink, Stays, Standing
  <2> QED BY <1>0, <2>1
<1>28. ASSUME Verify
      PROVE  [Promise!Next]_Promise!oneUseVars
  <2>1. Stays BY <1>28 DEF Verify, Stays, Standing
  <2> QED BY <1>0, <2>1
<1>29. ASSUME UnlinkOrVerifyFails
      PROVE  [Promise!Next]_Promise!oneUseVars
  <2>1. Stays BY <1>29 DEF UnlinkOrVerifyFails, Stays, Standing
  <2> QED BY <1>0, <2>1
<1>30. ASSUME Record
      PROVE  [Promise!Next]_Promise!oneUseVars
  <2>1. Stays BY <1>30 DEF Record, Stays, Standing
  <2> QED BY <1>0, <2>1
<1>31. ASSUME RecordFails
      PROVE  [Promise!Next]_Promise!oneUseVars
  <2>1. Stays BY <1>31 DEF RecordFails, Stays, Standing
  <2> QED BY <1>0, <2>1
<1>32. ASSUME Settle
      PROVE  [Promise!Next]_Promise!oneUseVars
  <2>1. cur \in Plans /\ nonce[cur] = "committing" BY <1>32, InHand DEF Settle, NonceInv, Running
  <2>2. committed' = committed BY <1>32 DEF Settle
  <2>3. CASE nonce' = [nonce EXCEPT ![cur] = "consumed"] BY <2>1, <2>2, <2>3, UsedUp
  <2>4. CASE nonce' = [nonce EXCEPT ![cur] = "issued"]
    <3>1. ~(committed[cur] > 0) BY <2>1 DEF NonceInv
    <3>2. Standing' = [Standing EXCEPT ![cur] = "open"] /\ Standing[cur] = "running"
      BY <2>1, <2>2, <2>4, <3>1 DEF Standing, StandingOf
    <3>3. Promise!GiveBack(cur) BY <2>2, <3>2 DEF Promise!GiveBack, Promise!Becomes
    <3> QED BY <2>1, <3>3 DEF Promise!Next
  <2> QED BY <1>32, <2>3, <2>4 DEF Settle, SetNonce
<1>33. ASSUME SettleFails
      PROVE  [Promise!Next]_Promise!oneUseVars
  <2>1. cur \in Plans /\ nonce' = [nonce EXCEPT ![cur] = "consumed"] /\ committed' = committed
    BY <1>33, InHand DEF SettleFails, SetNonce, GiveUp
  <2> QED BY <2>1, UsedUp
<1>34. ASSUME NEW x \in Paths, NEW c \in Contents \ Plans, OtherProcessWrites(x, c)
      PROVE  [Promise!Next]_Promise!oneUseVars
  <2>1. Stays BY <1>34 DEF OtherProcessWrites, Stays, Standing
  <2> QED BY <1>0, <2>1
<1>35. ASSUME Restart
      PROVE  [Promise!Next]_Promise!oneUseVars
  <2>1. committed' = committed BY <1>35 DEF Restart
  <2>2. Standing' = [p \in Plans |-> IF Standing[p] \in {"open", "running"}
                                     THEN "void" ELSE Standing[p]]
    BY <1>35, <2>1 DEF Restart, Standing, StandingOf
  <2>3. Promise!Forget BY <2>1, <2>2 DEF Promise!Forget
  <2> QED BY <2>3 DEF Promise!Next
<1>36. ASSUME UNCHANGED vars
      PROVE  [Promise!Next]_Promise!oneUseVars
  <2>1. Stays BY <1>36 DEF vars, Stays, Standing
  <2> QED BY <1>0, <2>1
<1> QED
  BY <1>1, <1>2, <1>3, <1>4, <1>5, <1>6, <1>7, <1>8, <1>9, <1>10, <1>11, <1>12,
     <1>13, <1>14, <1>15, <1>16, <1>17, <1>18, <1>19, <1>20, <1>21, <1>22, <1>23, <1>24,
     <1>25, <1>26, <1>27, <1>28, <1>29, <1>30, <1>31, <1>32, <1>33, <1>34, <1>35, <1>36
     DEF Next, PreviewStep, CommitStep, FailureStep, OtherStep

\* The gateway, its plans and the commit path implement the one-use commit: a preview
\* takes effect at most once, whatever fails and whenever the process ends.
THEOREM GatewayIsOneUse == Spec => OneUse
<1>1. Init => Promise!Init
  <2> SUFFICES ASSUME Init PROVE Promise!Init OBVIOUS
  <2>1. Standing = [p \in Plans |-> "none"] BY DEF Init, Standing, StandingOf
  <2> QED BY <2>1 DEF Init, Promise!Init
<1>2. IInv /\ [Next]_vars => [Promise!Next]_Promise!oneUseVars BY StepKeepsPromise
<1> QED BY <1>1, <1>2, MutationInvariant, PTL DEF Spec, OneUse, Promise!Spec

\* Only the audit step adds a 'committed' row.
LEMMA AuditOnly ==
  ASSUME [Next]_vars, committed' # committed
  PROVE  Audit
<1> USE DEF durableVars
<1>1. ASSUME NEW p \in Plans, Preview(p) PROVE FALSE BY <1>1 DEF Preview
<1>2. ASSUME NEW p \in Plans, Expire(p) PROVE FALSE BY <1>2 DEF Expire
<1>3. ASSUME ReadBefore PROVE FALSE BY <1>3 DEF ReadBefore
<1>4. ASSUME ReadVersion PROVE FALSE BY <1>4 DEF ReadVersion
<1>5. ASSUME PreviewFails PROVE FALSE BY <1>5 DEF PreviewFails
<1>6. ASSUME Issue PROVE FALSE BY <1>6 DEF Issue
<1>7. ASSUME NEW p \in Plans, Confirm(p) PROVE FALSE BY <1>7 DEF Confirm
<1>8. ASSUME NEW p \in Plans, Refuse(p) PROVE FALSE BY <1>8 DEF Refuse
<1>9. ASSUME NEW p \in Plans, RefuseDamaged(p) PROVE FALSE BY <1>9 DEF RefuseDamaged
<1>10. ASSUME ReadFile PROVE FALSE BY <1>10 DEF ReadFile
<1>11. ASSUME Enter PROVE FALSE BY <1>11 DEF Enter
<1>12. ASSUME CheckRefuses PROVE FALSE BY <1>12 DEF CheckRefuses
<1>13. ASSUME CheckFails PROVE FALSE BY <1>13 DEF CheckFails
<1>14. ASSUME Validate PROVE FALSE BY <1>14 DEF Validate
<1>15. ASSUME ValidateRefuses PROVE FALSE BY <1>15 DEF ValidateRefuses
<1>16. ASSUME RecheckRefuses PROVE FALSE BY <1>16 DEF RecheckRefuses
<1>17. ASSUME RecheckFails PROVE FALSE BY <1>17 DEF RecheckFails
<1>18. ASSUME Publish PROVE FALSE BY <1>18 DEF Publish
<1>19. ASSUME Transact PROVE FALSE BY <1>19 DEF Transact
<1>20. ASSUME TransactFails PROVE FALSE BY <1>20 DEF TransactFails
<1>21. ASSUME Published PROVE FALSE BY <1>21 DEF Published
<1>22. ASSUME PublishFailed PROVE FALSE BY <1>22 DEF PublishFailed
<1>23. ASSUME AuditFails PROVE FALSE BY <1>23 DEF AuditFails
<1>24. ASSUME Restored PROVE FALSE BY <1>24 DEF Restored
<1>25. ASSUME CompensationFailed PROVE FALSE BY <1>25 DEF CompensationFailed
<1>26. ASSUME Unlink PROVE FALSE BY <1>26 DEF Unlink
<1>27. ASSUME Verify PROVE FALSE BY <1>27 DEF Verify
<1>28. ASSUME UnlinkOrVerifyFails PROVE FALSE BY <1>28 DEF UnlinkOrVerifyFails
<1>29. ASSUME Record PROVE FALSE BY <1>29 DEF Record
<1>30. ASSUME RecordFails PROVE FALSE BY <1>30 DEF RecordFails
<1>31. ASSUME Settle PROVE FALSE BY <1>31 DEF Settle
<1>32. ASSUME SettleFails PROVE FALSE BY <1>32 DEF SettleFails
<1>33. ASSUME NEW x \in Paths, NEW c \in Contents \ Plans, OtherProcessWrites(x, c)
       PROVE FALSE
  BY <1>33 DEF OtherProcessWrites
<1>34. ASSUME Restart PROVE FALSE BY <1>34 DEF Restart
<1> QED
  BY <1>1, <1>2, <1>3, <1>4, <1>5, <1>6, <1>7, <1>8, <1>9, <1>10, <1>11, <1>12,
     <1>13, <1>14, <1>15, <1>16, <1>17, <1>18, <1>19, <1>20, <1>21, <1>22, <1>23, <1>24,
     <1>25, <1>26, <1>27, <1>28, <1>29, <1>30, <1>31, <1>32, <1>33, <1>34
     DEF vars, Next, PreviewStep, CommitStep, FailureStep, OtherStep

\* When a mutation is audited as committed, each of its files was written: it holds what the
\* mutation wrote, unless another process has changed just that.  FileTransaction reports
\* success only after the last replace.
THEOREM AuditedIsWhole == Spec => CommittedIsWhole
<1> DEFINE Step == \A p \in Plans : committed'[p] > committed[p] =>
                     \A x \in Writes[p] : files[x] = p \/ x \in overwritten
<1>1. IInv /\ [Next]_vars => Step
  <2> SUFFICES ASSUME IInv, [Next]_vars, NEW p \in Plans, committed'[p] > committed[p],
                      NEW x \in Writes[p]
               PROVE  files[x] = p \/ x \in overwritten
    OBVIOUS
  <2>1. committed[p] \in Nat BY DEF IInv, TypeOK
  <2>2. committed' # committed BY <2>1
  <2>3. Audit BY <2>2, AuditOnly
  <2>4. cur = p BY <2>1, <2>3 DEF Audit, IInv, TypeOK
  <2> QED BY <2>3, <2>4 DEF Audit, IInv, Publishing, Whole
<1>2. IInv /\ [Next]_vars => [Step]_vars BY <1>1
<1> QED BY <1>2, MutationInvariant, PTL DEF Spec, CommittedIsWhole

(***************************************************************************)
(* What a failed mutation leaves behind.  Closed(p): p is accounted for,   *)
(* and stays so; Open(p): its handler is still between the first file and  *)
(* the manifest.  A file or an image in memory that holds what p writes    *)
(* belongs to such a p; a rollback takes back what was applied; what has   *)
(* been verified holds nothing more.                                       *)
(***************************************************************************)
Closed(p) ==
  p \in unaccounted \/ committed[p] > 0 \/ manifest[p] = "manual_recovery_required"
Open(p) == pc \in Exposed /\ cur = p

Accounted == \A p \in Plans, x \in Paths : files[x] = p => Closed(p) \/ Open(p)

Images ==
  /\ \A p, q \in Plans, x \in Paths : before[q][x] = p => Closed(p)
  /\ txPhase # "idle" =>
       \A p \in Plans, x \in Paths : originals[x] = p \/ txContent[x] = p => Closed(p) \/ Open(p)

Rollable ==
  pc = "publish" =>
    \A x \in Paths :
      /\ originals[x] = cur => Closed(cur)
      /\ files[x] = cur =>
           \/ Closed(cur)
           \/ x \in applied /\ txPhase \in {"replace", "rollback", "torn", "done"}

Verified ==
  /\ pc = "verify" /\ same => \A x \in Writes[cur] \ left : files[x] = cur => Closed(cur)
  /\ pc = "record" /\ same => \A x \in Writes[cur] : files[x] = cur => Closed(cur)

LInv == Accounted /\ Images /\ Rollable /\ Verified

LEMMA ClosedStays ==
  ASSUME TypeOK, [Next]_vars, NEW p \in Plans, Closed(p)
  PROVE  Closed(p)'
<1> USE DEF Closed, durableVars
<1>1. CASE UNCHANGED <<durableVars, unaccounted>>
  BY <1>1
<1>2. CASE committed' = committed \/ Audit
  <2>1. committed[p] > 0 => committed'[p] > 0
    BY <1>2 DEF Audit, TypeOK
  <2>2. CASE UNCHANGED <<manifest, unaccounted>>
    BY <2>1, <2>2
  <2>3. CASE PublishFailed \/ Restart \/ RecordFails
    BY <2>1, <2>3 DEF PublishFailed, Restart, RecordFails, NoteUnlessRestored
  <2>4. CASE Record
    BY <2>1, <2>4 DEF Record, NoteUnlessRestored, TypeOK
  <2>5. CASE Audit
    BY <2>1, <2>5 DEF Audit
  <2>6. CASE UNCHANGED vars
    BY <2>6 DEF vars
  <2>7. CASE ~(PublishFailed \/ Restart \/ RecordFails \/ Record \/ Audit) /\ Next
    <3>1. UNCHANGED <<manifest, unaccounted>>
      BY <2>7
         DEF Next, PreviewStep, CommitStep, FailureStep, OtherStep, Preview, Expire, ReadBefore,
             ReadVersion, PreviewFails, Issue, Confirm, Refuse, RefuseDamaged, ReadFile, Enter,
             CheckRefuses, CheckFails, Validate, ValidateRefuses, RecheckRefuses, RecheckFails,
             Publish, Transact, TransactFails, Published, AuditFails, Restored,
             CompensationFailed, Unlink, Verify, UnlinkOrVerifyFails, Settle, SettleFails,
             OtherProcessWrites
    <3> QED BY <3>1, <2>2
  <2> QED BY <2>3, <2>4, <2>5, <2>6, <2>7
<1> QED BY <1>2, AuditOnly

\* A step that brings back nothing a plan has written, and leaves a plan that has files
\* in the repository only if it is accounted for.
LEMMA LeftoverFrame ==
  ASSUME LInv, \A p \in Plans : Closed(p) => Closed(p)',
         \A p \in Plans, x \in Paths : files'[x] = p => files[x] = p,
         \A p \in Plans, x \in Paths : files[x] = p /\ Open(p) => Open(p)' \/ Closed(p)',
         before' = before, cur \in Plans \/ pc # "publish",
         \/ txPhase' = "idle" /\ pc' # "publish"
         \/ UNCHANGED <<txVars, pc, cur>>,
         Verified'
  PROVE  LInv'
<1>1. Accounted'
  BY DEF LInv, Accounted
<1>2. Images'
  BY DEF LInv, Images, Open, txVars
<1>3. Rollable'
  BY DEF LInv, Rollable, txVars
<1> QED BY <1>1, <1>2, <1>3 DEF LInv

\* The files of the transaction are those of the plan in hand, and their before images are
\* accounted for.
LEMMA LeftoverTransact ==
  ASSUME TypeOK, Within, Publishing, LInv, Transact \/ TransactFails,
         \A p \in Plans : Closed(p) => Closed(p)'
  PROVE  LInv'
<1>1. /\ pc' = pc /\ cur' = cur /\ before' = before /\ pc \in {"publish", "compensate"}
      /\ TxStep \/ TxFault
  BY DEF Transact, TransactFails, webVars, planVars
<1>2. TxTypeOK /\ cur \in Plans
  BY <1>1, InHand DEF TypeOK
<1>3. \A p \in Plans : Open(p) = Open(p)'
  BY <1>1 DEF Open
<1>4. /\ txPhase # "idle" /\ txContent' = txContent
      /\ \A x \in Paths : files'[x] # files[x] => files'[x] \in {txContent[x], originals[x]}
      /\ \A x \in Paths : originals'[x] \in {originals[x], files[x]}
  BY <1>1, <1>2, TxEffect
<1>5. Accounted'
  BY <1>3, <1>4 DEF LInv, Accounted, Images
<1>6. Images'
  BY <1>1, <1>3, <1>4 DEF LInv, Accounted, Images
<1>7. Verified'
  BY <1>1 DEF Verified
<1>8. Rollable'
  <2> SUFFICES ASSUME pc = "publish"
               PROVE  \A x \in Paths :
                        /\ originals'[x] = cur => Closed(cur)
                        /\ files'[x] = cur =>
                             \/ Closed(cur)
                             \/ x \in applied' /\ txPhase' \in {"replace", "rollback", "torn", "done"}
    BY <1>1, <1>2 DEF Rollable
  <2> USE <1>2 DEF LInv, Rollable, TxTypeOK
  <2>1. CASE Preflight BY <2>1 DEF Preflight, Advance
  <2>2. CASE ReadOriginal BY <2>2 DEF ReadOriginal, Advance
  <2>3. CASE WriteTemporary BY <2>3 DEF WriteTemporary
  <2>4. CASE Replace BY <2>4 DEF Replace, Advance
  <2>5. CASE Undo BY <2>5 DEF Undo
  <2>6. CASE PrepareFails BY <2>6 DEF PrepareFails
  <2>7. CASE ReplaceFails BY <2>7 DEF ReplaceFails
  <2>8. CASE UndoFails BY <2>8 DEF UndoFails
  <2> QED BY <1>1, <2>1, <2>2, <2>3, <2>4, <2>5, <2>6, <2>7, <2>8 DEF TxStep, TxFault
<1> QED BY <1>5, <1>6, <1>7, <1>8 DEF LInv

LEMMA InitLInv == ASSUME Init PROVE LInv
BY MutationConstants, AbsentIsContent
   DEF Init, TxInit, Nothing, LInv, Accounted, Images, Rollable, Verified

LEMMA NextLInv ==
  ASSUME IInv, LInv, [Next]_vars
  PROVE  LInv'
<1>0. /\ \A p \in Plans : Closed(p) => Closed(p)'
      /\ TypeOK /\ Within /\ Publishing
      /\ pc \notin {"publish", "compensate"} => txPhase = "idle"
      /\ pc # "idle" => cur \in Plans /\ Writes[cur] \subseteq Paths
  BY ClosedStays, InHand DEF IInv, Within
<1> DEFINE
      Kept == \A p \in Plans, x \in Paths : files'[x] = p => files[x] = p
      Known == \A p \in Plans, x \in Paths : files[x] = p /\ Open(p) => Open(p)' \/ Closed(p)'
<1> USE DEF webVars, planVars, Exposed
<1>1. CASE /\ UNCHANGED <<files, before, txVars>>
           /\ pc \notin Exposed /\ pc' \notin Exposed
  <2>1. Kept /\ Known /\ Verified'
    BY <1>1 DEF Open, Verified
  <2>2. txPhase' = "idle" /\ pc' # "publish"
    BY <1>0, <1>1 DEF txVars
  <2> QED BY <1>0, <1>1, <2>1, <2>2, LeftoverFrame
<1>2. CASE \/ \E p \in Plans : Preview(p) \/ Confirm(p) \/ Refuse(p) \/ RefuseDamaged(p)
           \/ ReadVersion \/ PreviewFails \/ Issue \/ Enter \/ CheckRefuses \/ CheckFails
           \/ Validate \/ ValidateRefuses \/ RecheckRefuses \/ RecheckFails
           \/ Settle \/ SettleFails
  <2>1. UNCHANGED <<files, before, txVars>> /\ pc \notin Exposed /\ pc' \notin Exposed
    BY <1>2 DEF Preview, Confirm, Refuse, RefuseDamaged, ReadVersion, PreviewFails, Issue,
       Enter, CheckRefuses, CheckFails, Validate, ValidateRefuses, RecheckRefuses,
       RecheckFails, Settle, SettleFails, Return, GoOn, GiveUp
  <2> QED BY <1>1, <2>1
<1>3. CASE UNCHANGED vars \/ \E p \in Plans : Expire(p)
  <2>1. UNCHANGED <<files, txVars, webVars, before, durableVars, unaccounted>>
    BY <1>3 DEF vars, Expire
  <2>2. Kept /\ Known /\ Verified'
    BY <2>1 DEF Open, LInv, Verified, Closed, durableVars
  <2> QED BY <1>0, <2>1, <2>2, LeftoverFrame
<1>4. ASSUME NEW x \in Paths, NEW c \in Contents \ Plans, OtherProcessWrites(x, c) PROVE LInv'
  <2>1. files' = [files EXCEPT ![x] = c]
        /\ UNCHANGED <<txVars, webVars, before, durableVars, unaccounted>>
    BY <1>4 DEF OtherProcessWrites
  <2>2. Kept
    BY <2>1, <1>0 DEF TypeOK, TxTypeOK
  <2>3. Known
    BY <2>1 DEF Open
  <2>4. Verified'
    BY <1>0, <2>1, <2>2 DEF LInv, Verified, Closed, durableVars
  <2> QED BY <1>0, <2>1, <2>2, <2>3, <2>4, LeftoverFrame
<1>5. CASE ReadFile
  <2>1. UNCHANGED <<files, txVars, before, pc, cur, durableVars, unaccounted>>
    BY <1>5 DEF ReadFile
  <2>2. Kept /\ Known
    BY <2>1 DEF Open
  <2>3. Verified'
    BY <1>0, <1>5, <2>1 DEF ReadFile, LInv, Images, Verified, Matches, Expected, Closed, durableVars
  <2> QED BY <1>0, <2>1, <2>2, <2>3, LeftoverFrame
<1>6. CASE ReadBefore
  <2>1. PICK x \in left : before' = [before EXCEPT ![cur][x] = files[x]]
    BY <1>6 DEF ReadBefore
  <2>2. /\ UNCHANGED <<files, txVars>>
        /\ pc = "prepare" /\ pc' \in {"prepare", "version"}
    BY <1>6 DEF ReadBefore, GoOn
  <2>3. txPhase' = "idle" /\ Rollable' /\ Verified'
    BY <1>0, <2>2 DEF txVars, Rollable, Verified
  <2>4. Accounted'
    BY <1>0, <2>2 DEF LInv, Accounted, Open
  <2>5. \A y \in Paths, p \in Plans : files[y] = p => Closed(p)
    BY <2>2 DEF LInv, Accounted, Open
  <2>6. Images'
    <3>1. x \in Paths
      BY <1>0 DEF TypeOK
    <3>2. \A q \in Plans, y \in Paths : before'[q][y] \in {before[q][y], files[y]}
      BY <1>0, <2>1, <3>1 DEF TypeOK
    <3> QED BY <1>0, <2>3, <2>5, <3>2 DEF LInv, Images
  <2> QED BY <2>3, <2>4, <2>6 DEF LInv
<1>7. CASE Publish
  <2>1. /\ pc = "recheck" /\ pc' = "publish" /\ UNCHANGED <<cur, files, before>>
        /\ Stage(Writes[cur], Replacements(cur), [y \in Paths |-> cur])
    BY <1>7 DEF Publish, GoOn
  <2>2. \A y \in Paths : originals'[y] = Absent /\ txContent'[y] \in {cur, Absent}
    BY <2>1 DEF Stage, Nothing
  <2>3. \A p \in Plans, y \in Paths : files[y] = p => Closed(p)
    BY <2>1 DEF LInv, Accounted, Open
  <2>4. Accounted'
    BY <1>0, <2>1, <2>3 DEF Accounted
  <2>5. Images'
    BY <1>0, <2>1, <2>2, MutationConstants DEF LInv, Images, Open
  <2>6. Rollable'
    BY <1>0, <2>1, <2>2, <2>3, MutationConstants DEF Rollable
  <2>7. Verified'
    BY <2>1 DEF Verified
  <2> QED BY <2>4, <2>5, <2>6, <2>7 DEF LInv
<1>8. CASE Transact \/ TransactFails
  BY <1>0, <1>8, LeftoverTransact
<1>9. CASE Published
  <2>1. /\ pc = "publish" /\ pc' = "audit" /\ UNCHANGED <<cur, files, before>>
        /\ txPhase' = "idle"
    BY <1>9 DEF Published, GoOn, Discard
  <2>2. Kept /\ Known /\ Verified'
    BY <2>1 DEF Open, Verified
  <2> QED BY <1>0, <2>1, <2>2, LeftoverFrame
<1>10. CASE PublishFailed
  <2>1. /\ pc = "publish" /\ pc' = "settle" /\ UNCHANGED <<cur, files, before>>
        /\ txPhase' = "idle" /\ txPhase \in {"failed", "torn"}
        /\ txPhase = "torn" => cur \in unaccounted'
    BY <1>10 DEF PublishFailed, GoOn, Discard
  <2>2. Known
    BY <1>0, <2>1 DEF Open, Closed, LInv, Rollable
  <2>3. Kept /\ Verified'
    BY <2>1 DEF Verified
  <2> QED BY <1>0, <2>1, <2>2, <2>3, LeftoverFrame
<1>11. CASE Audit
  <2>1. /\ pc = "audit" /\ pc' = "idle" /\ UNCHANGED <<files, txVars, before>>
        /\ committed' = [committed EXCEPT ![cur] = @ + 1]
    BY <1>11 DEF Audit, GiveUp, Return
  <2>2. Known
    BY <1>0, <2>1 DEF Open, Closed, TypeOK
  <2>3. Kept /\ Verified'
    BY <2>1 DEF Verified
  <2>4. txPhase' = "idle"
    BY <1>0, <2>1 DEF txVars
  <2> QED BY <1>0, <2>1, <2>2, <2>3, <2>4, LeftoverFrame
<1>12. CASE AuditFails
  <2>1. /\ pc = "audit" /\ pc' \in {"unlink", "compensate"} /\ UNCHANGED <<cur, files, before>>
        /\ \/ UNCHANGED txVars
           \/ Stage(Replacements(cur), Replacements(cur), before[cur])
    BY <1>12 DEF AuditFails, GoOn
  <2>2. CASE UNCHANGED txVars
    <3>1. Kept /\ Known /\ Verified' /\ txPhase' = "idle"
      BY <1>0, <2>1, <2>2 DEF Open, Verified, txVars
    <3> QED BY <1>0, <2>1, <3>1, LeftoverFrame
  <2>3. CASE Stage(Replacements(cur), Replacements(cur), before[cur])
    <3>1. \A y \in Paths : originals'[y] = Absent /\ txContent'[y] \in {before[cur][y], Absent}
      BY <2>3 DEF Stage, Nothing
    <3>2. Accounted'
      BY <1>0, <2>1 DEF LInv, Accounted, Open
    <3>3. Images'
      BY <1>0, <2>1, <3>1, MutationConstants DEF LInv, Images
    <3>4. Rollable' /\ Verified'
      BY <2>1 DEF Rollable, Verified
    <3> QED BY <3>2, <3>3, <3>4 DEF LInv
  <2> QED BY <2>1, <2>2, <2>3
<1>13. CASE Restored \/ CompensationFailed
  <2>1. /\ pc = "compensate" /\ UNCHANGED <<cur, files, before>> /\ txPhase' = "idle"
        /\ \/ pc' = "verify" /\ left' = Writes[cur]
           \/ pc' = "unlink"
           \/ pc' = "record" /\ same' = FALSE
    BY <1>13 DEF Restored, CompensationFailed, GoOn, Discard, Compensated
  <2>2. Kept /\ Known /\ Verified'
    BY <2>1 DEF Open, Verified
  <2> QED BY <1>0, <2>1, <2>2, LeftoverFrame
<1>14. CASE Unlink
  <2>1. /\ pc = "unlink" /\ UNCHANGED <<cur, txVars, before>>
        /\ \/ pc' = "verify" /\ left' = Writes[cur]
           \/ pc' = "unlink"
        /\ \E x \in left : files' = [files EXCEPT ![x] = Absent]
    BY <1>14 DEF Unlink, GoOn
  <2>2. Kept
    BY <1>0, <2>1, MutationConstants DEF TypeOK, TxTypeOK
  <2>3. Known /\ Verified' /\ txPhase' = "idle"
    BY <1>0, <2>1 DEF Open, Verified, txVars
  <2> QED BY <1>0, <2>1, <2>2, <2>3, LeftoverFrame
<1>15. CASE Verify \/ UnlinkOrVerifyFails
  <2>1. /\ pc \in {"unlink", "verify"} /\ pc' = "record" /\ UNCHANGED <<cur, files, txVars, before>>
    BY <1>15 DEF Verify, UnlinkOrVerifyFails, Compensated
  <2>2. same' => \A x \in Writes[cur] : files[x] = cur => Closed(cur)
    <3>1. CASE Verify
      <4>1. PICK x \in left : left = {x} /\ same' = Matches(x) /\ pc = "verify"
        BY <3>1 DEF Verify, Compensated
      <4>2. same' => same /\ files[x] = before[cur][x]
        BY <4>1 DEF Matches, Expected
      <4>3. same' => (files[x] = cur => Closed(cur))
        BY <1>0, <4>1, <4>2 DEF LInv, Images, TypeOK
      <4> QED BY <4>1, <4>2, <4>3 DEF LInv, Verified
    <3>2. CASE UnlinkOrVerifyFails
      BY <3>2 DEF UnlinkOrVerifyFails, Compensated
    <3> QED BY <1>15, <3>1, <3>2
  <2>3. Kept /\ Known /\ Verified' /\ txPhase' = "idle"
    BY <1>0, <2>1, <2>2 DEF Open, Verified, txVars
  <2> QED BY <1>0, <2>1, <2>3, LeftoverFrame
<1>16. CASE Record \/ RecordFails
  <2>1. /\ pc = "record" /\ pc' = "settle" /\ UNCHANGED <<cur, files, txVars, before>>
    BY <1>16 DEF Record, RecordFails, GoOn
  <2>2. same \/ Closed(cur)'
    <3>1. cur \in Plans
      BY <1>0, <2>1 DEF TypeOK
    <3>2. cur' = cur
      BY <2>1
    <3>3. \/ unaccounted' = IF same THEN unaccounted ELSE unaccounted \cup {cur}
          \/ manifest' = [manifest EXCEPT ![cur] = IF same THEN "compensated"
                                                  ELSE "manual_recovery_required"]
      BY <1>16 DEF Record, RecordFails, NoteUnlessRestored, Status
    <3>4. manifest \in [Plans -> {"none", "compensated", "manual_recovery_required"}]
      BY <1>0 DEF TypeOK
    <3>5. CASE ~same
      <4>1. \/ cur \in unaccounted'
            \/ manifest'[cur] = "manual_recovery_required"
        BY <3>1, <3>3, <3>4, <3>5
      <4> QED BY <3>2, <4>1 DEF Closed
    <3> QED BY <3>5
  <2>3. \A x \in Paths : files[x] = cur => x \in Writes[cur]
    BY <1>0, <2>1 DEF Within, Running
  <2>4. Known
    BY <1>0, <2>1, <2>2, <2>3 DEF Open, LInv, Verified
  <2>5. Kept /\ Verified' /\ txPhase' = "idle"
    BY <1>0, <2>1 DEF Verified, txVars
  <2> QED BY <1>0, <2>1, <2>4, <2>5, LeftoverFrame
<1>17. CASE Restart
  <2>1. /\ pc' = "idle" /\ UNCHANGED <<files, before>> /\ txPhase' = "idle"
        /\ pc \in Exposed => cur \in unaccounted'
    BY <1>17 DEF Restart, Return, Discard
  <2>2. Kept /\ Known /\ Verified'
    BY <2>1 DEF Open, Closed, Verified
  <2> QED BY <1>0, <2>1, <2>2, LeftoverFrame
<1> QED
  BY <1>2, <1>3, <1>4, <1>5, <1>6, <1>7, <1>8, <1>9, <1>10, <1>11, <1>12, <1>13, <1>14,
     <1>15, <1>16, <1>17
     DEF Next, PreviewStep, CommitStep, FailureStep, OtherStep

\* Between requests, what a mutation has left in the repository without an audit row is
\* in its manifest, unless the process ended, a rollback failed or the manifest could not
\* be written: _compensate() and the record of web_repository_mutations.py miss nothing else.
THEOREM LeftoversAreKnown == Spec => []LeftoversAreRecorded
<1>1. Init => IInv /\ LInv
  BY InitIInv, InitLInv
<1>2. IInv /\ LInv /\ [Next]_vars => IInv' /\ LInv'
  BY NextIInv, NextLInv
<1>3. IInv /\ LInv => LeftoversAreRecorded
  <2> SUFFICES ASSUME IInv, LInv, pc = "idle", NEW p \in Plans \ unaccounted,
                      committed[p] = 0, HoldsWriteOf(p)
               PROVE  manifest[p] = "manual_recovery_required"
    BY DEF LeftoversAreRecorded
  <2>1. PICK x \in Paths : files[x] = p
    BY MutationConstants DEF HoldsWriteOf
  <2>2. ~Open(p)
    BY DEF Open, Exposed
  <2> QED BY <2>1, <2>2 DEF LInv, Accounted, Closed
<1> QED BY <1>1, <1>2, <1>3, PTL DEF Spec
===============================================================================
