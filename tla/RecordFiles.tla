------------------------------ MODULE RecordFiles ------------------------------
(***************************************************************************)
(* The record files of the installed native Git service                    *)
(* (review-record-storage.ts, authoritative-native-approval-store.ts and   *)
(* its siblings, authoritative-ordinary-attempt-files.ts,                  *)
(* authoritative-ordinary-status-files.ts, native-bundle-startup.ts).      *)
(*                                                                         *)
(* A record is written to a staging file, hard-linked to its name and the  *)
(* staging name removed.  The first save makes the directories of its      *)
(* store.  All saves run in the review queue, one at a time; a human's GET *)
(* reads the decisions outside the queue, and reading them, by a GET or by *)
(* a save, repairs their staging directory.  A step of a save may fail and *)
(* the process may die; at startup each store repairs what it finds or     *)
(* refuses to start.  The stores differ in what a failed save leaves and   *)
(* in what startup accepts:                                                *)
(*   decision  approvals and revocations (a directory of staging)          *)
(*   issue     the attempts of one job, numbered without a gap             *)
(*   revoke    the revocations of those attempts                           *)
(*   status    the terminal statuses of those attempts                     *)
(* The inode of a file is the number of the save that created it, so it    *)
(* has its staging name and its record as the only possible links.         *)
(***************************************************************************)
EXTENDS Naturals, FiniteSets

CONSTANTS FMaxRecords,  \* records of a store
          FMaxSaves,    \* bound on the saves, and so on the inodes
          FMaxFaults,   \* bound on the failed steps of saves
          FMaxCrashes   \* bound on the losses of the process

ASSUME FilesAssumption ==
    /\ FMaxRecords \in Nat \ {0} /\ FMaxSaves \in Nat \ {0}
    /\ FMaxFaults \in Nat /\ FMaxCrashes \in Nat

FStores == {"decision", "issue", "revoke", "status"}
FRecords == 1..FMaxRecords
FInodes == 1..FMaxSaves

(* The stores share directory trees; a part of a tree is any number of its *)
(* directories but none and all.                                           *)
FTrees == {"decision", "attempts", "status"}
FDirs == {"none", "part", "all"}
FTree(store) == IF store \in {"issue", "revoke"} THEN "attempts" ELSE store

(* Who reads the decisions: the save in the queue or a GET outside it.     *)
FRepairers == {"save", "get"}

(* What a file holds: a prefix, all but the final newline, or all of it.   *)
FContents == {"cut", "bare", "full"}

VARIABLES
    fPhase,      \* "ready", "refused", "down" or the next check of startup
    fDirs,       \* [FTrees -> FDirs]
    fStaged,     \* staging names: [store, id, ino]
    fFinal,      \* [FStores -> [FRecords -> inode of the record, 0 for none]]
    fContent,    \* [FInodes -> FContents]
    fTime,       \* [FInodes -> when the record says it was reported]
    fSaves,      \* saves begun so far
    fSave,       \* the save in the queue: its step and staging name
    fReply,      \* what the last save answered
    fRepair,     \* [FRepairers -> its step, names to do and name at hand]
    fAnswered,   \* ghost: staging names of the saves that were answered
    fLeft,       \* ghost: inodes that a failed save left staged without a record
    fStuck,      \* ghost: decisions whose staging name this process failed to remove
    fFaults,
    fCrashes

fVars == <<fPhase, fDirs, fStaged, fFinal, fContent, fTime, fSaves, fSave, fReply,
           fRepair, fAnswered, fLeft, fStuck, fFaults, fCrashes>>

FNames == [store : FStores, id : FRecords, ino : FInodes]
FNoName == [store |-> "decision", id |-> 0, ino |-> 0]
FNoSave == [step |-> "idle", name |-> FNoName]
FNoRepair == [step |-> "idle", names |-> {}, name |-> FNoName]

FilesInit ==
    /\ fPhase = "ready"
    /\ fDirs = [tree \in FTrees |-> "none"]
    /\ fStaged = {}
    /\ fFinal = [store \in FStores |-> [id \in FRecords |-> 0]]
    /\ fContent = [i \in FInodes |-> "cut"]
    /\ fTime = [i \in FInodes |-> 0]
    /\ fSaves = 0 /\ fSave = FNoSave /\ fReply = "none"
    /\ fRepair = [who \in FRepairers |-> FNoRepair]
    /\ fAnswered = {} /\ fLeft = {} /\ fStuck = {} /\ fFaults = 0 /\ fCrashes = 0

FStagedIn(stores) == {n \in fStaged : n.store \in stores}
FRecordOf(n) == fFinal[n.store][n.id]
FPublished(n) == FRecordOf(n) = n.ino
FRecordsIn(store) == {id \in FRecords : fFinal[store][id] # 0}

(* The link count of the file behind staging name n.                       *)
FLinks(n) == 1 + IF FPublished(n) THEN 1 ELSE 0

(***************************************************************************)
(* Reading a store.                                                        *)
(***************************************************************************)
(* The record is complete and has the record's name as its only link.      *)
FSingle(store, id) ==
    /\ fContent[fFinal[store][id]] = "full"
    /\ \A n \in fStaged : n.ino # fFinal[store][id]

(* Mutant: staging files in the directory of the attempts are passed over.  *)
FListableBesideStaging ==
    FRecordsIn("issue") = 1..Cardinality(FRecordsIn("issue"))

(* The attempt files of the job are its attempts without a gap and nothing *)
(* else: any staging file beside them makes the list unreadable.           *)
FListable ==
    /\ FStagedIn({"issue"}) = {}
    /\ FRecordsIn("issue") = 1..Cardinality(FRecordsIn("issue"))
    /\ \A id \in FRecordsIn("issue") : FSingle("issue", id)

FCurrent == Cardinality(FRecordsIn("issue"))

(* Mutant: repair removes a staging file without comparing it.              *)
FMatchesByName(n) == n \in fStaged

(* A staging file of the decisions may go only when it is the second link  *)
(* of its record.                                                          *)
FMatches(n) == n \in fStaged /\ FPublished(n) /\ FLinks(n) = 2

FDecisionsReadable ==
    /\ \A n \in FStagedIn({"decision"}) : FMatches(n)
    /\ \A id \in FRecordsIn("decision") : fContent[fFinal["decision"][id]] = "full"

(***************************************************************************)
(* A save.                                                                 *)
(***************************************************************************)
(* What the handler has read before it writes: attempts are numbered on,   *)
(* revocations and statuses belong to the current attempt, and nothing is  *)
(* written for a record that is there.  A part of the directories makes    *)
(* the decisions and the attempts unreadable.                              *)
FNeeded(store, id) ==
    /\ fFinal[store][id] = 0
    /\ store # "status" => fDirs[FTree(store)] # "part"
    /\ CASE store = "decision" -> TRUE
         [] store = "issue"    -> FListable /\ id = FCurrent + 1
         [] store = "revoke"   -> FListable /\ id = FCurrent
         [] store = "status"   -> FListable /\ id = FCurrent /\ fFinal["revoke"][id] = 0

(* The save of a decision first reads the decisions, which repairs them.   *)
FBegin(store, id) ==
    LET ino == fSaves + 1
    IN  /\ fPhase = "ready" /\ fSave.step = "idle" /\ fSaves < FMaxSaves
        /\ FNeeded(store, id)
        /\ fSaves' = ino
        /\ fSave' = [step |-> IF store = "decision" THEN "reading" ELSE "making",
                     name |-> [store |-> store, id |-> id, ino |-> ino]]
        /\ \E time \in IF store = "status" THEN {0, 1} ELSE {0} :
              fTime' = [fTime EXCEPT ![ino] = time]
        /\ fReply' = "none"
        /\ UNCHANGED <<fPhase, fDirs, fStaged, fFinal, fContent, fRepair, fAnswered, fLeft,
                       fStuck, fFaults, fCrashes>>

(* The next directory that is missing.                                     *)
FMakeDirectory ==
    LET tree == FTree(fSave.name.store)
    IN  /\ fSave.step = "making" /\ fDirs[tree] # "all"
        /\ fDirs' = [fDirs EXCEPT ![tree] = IF @ = "none" THEN "part" ELSE "all"]
        /\ UNCHANGED <<fPhase, fStaged, fFinal, fContent, fTime, fSaves, fSave, fReply,
                       fRepair, fAnswered, fLeft, fStuck, fFaults, fCrashes>>

(* The staging file is created.                                            *)
FStage ==
    /\ fSave.step = "making" /\ fDirs[FTree(fSave.name.store)] = "all"
    /\ fStaged' = fStaged \cup {fSave.name}
    /\ fSave' = [fSave EXCEPT !.step = "staged"]
    /\ UNCHANGED <<fPhase, fDirs, fFinal, fContent, fTime, fSaves, fReply, fRepair, fAnswered,
                   fLeft, fStuck, fFaults, fCrashes>>

FWrite ==
    /\ fSave.step = "staged"
    /\ fContent' = [fContent EXCEPT ![fSave.name.ino] = "full"]
    /\ fSave' = [fSave EXCEPT !.step = "written"]
    /\ UNCHANGED <<fPhase, fDirs, fStaged, fFinal, fTime, fSaves, fReply, fRepair, fAnswered,
                   fLeft, fStuck, fFaults, fCrashes>>

(* link() needs the staging name; without it the save fails.               *)
FLink ==
    LET n == fSave.name
        there == n \in fStaged
    IN  /\ fSave.step = "written"
        /\ fFinal' = [fFinal EXCEPT ![n.store][n.id] = IF there THEN n.ino ELSE @]
        /\ fSave' = IF there THEN [fSave EXCEPT !.step = "linked"] ELSE FNoSave
        /\ fReply' = IF there THEN fReply ELSE "error"
        /\ UNCHANGED <<fPhase, fDirs, fStaged, fContent, fTime, fSaves, fRepair, fAnswered,
                       fLeft, fStuck, fFaults, fCrashes>>

(* The staging name goes and the caller is answered.  A decision's staging *)
(* name may be gone already.                                               *)
FUnlink ==
    /\ fSave.step = "linked"
    /\ fStaged' = fStaged \ {fSave.name}
    /\ fAnswered' = fAnswered \cup {fSave.name}
    /\ fReply' = "created" /\ fSave' = FNoSave
    /\ UNCHANGED <<fPhase, fDirs, fFinal, fContent, fTime, fSaves, fRepair, fLeft, fStuck,
                   fFaults, fCrashes>>

FFails ==
    /\ fFaults < FMaxFaults /\ fFaults' = fFaults + 1
    /\ fReply' = "failed" /\ fSave' = FNoSave
    /\ UNCHANGED <<fPhase, fDirs, fFinal, fTime, fSaves, fAnswered, fCrashes>>

(* A read, a directory or the staging file fails.                          *)
FPrepareFails ==
    /\ fSave.step \in {"reading", "making"} /\ FFails
    /\ fRepair' = [fRepair EXCEPT !["save"] = FNoRepair]
    /\ UNCHANGED <<fStaged, fContent, fLeft, fStuck>>

(* The staging file of the failed save goes or stays.                      *)
FLeaves(stays) ==
    /\ fStaged' = IF stays THEN fStaged ELSE fStaged \ {fSave.name}
    /\ fLeft' = IF stays THEN fLeft \cup {fSave.name.ino} ELSE fLeft
    /\ UNCHANGED <<fRepair, fStuck>>

(* Writing fails with any prefix written: only the decisions clean up.     *)
FWriteFails ==
    /\ fSave.step = "staged" /\ FFails
    /\ \E c \in FContents : fContent' = [fContent EXCEPT ![fSave.name.ino] = c]
    /\ FLeaves(fSave.name.store # "decision")

(* link() fails: only the statuses leave the staging file.                 *)
FLinkFails ==
    /\ fSave.step = "written" /\ FFails
    /\ FLeaves(fSave.name.store = "status")
    /\ UNCHANGED fContent

(* The record is there, its staging name too, and the caller got an error. *)
FUnlinkFails ==
    /\ fSave.step = "linked" /\ FFails
    /\ fStuck' = fStuck \cup {n \in {fSave.name} : n.store = "decision"}
    /\ UNCHANGED <<fStaged, fContent, fRepair, fLeft>>

(***************************************************************************)
(* Reading the decisions repairs the staging directory it lists: one name  *)
(* after the other is compared and removed, with other readers and, for a  *)
(* GET, a save in between.                                                 *)
(***************************************************************************)
FRepairing(names) == [FNoRepair EXCEPT !.step = "listed", !.names = names]

FRepairList(who) ==
    /\ fPhase = "ready" /\ fRepair[who].step = "idle"
    /\ IF who = "save" THEN fSave.step = "reading" ELSE FStagedIn({"decision"}) # {}
    /\ fRepair' = [fRepair EXCEPT ![who] = FRepairing(FStagedIn({"decision"}))]
    /\ UNCHANGED <<fPhase, fDirs, fStaged, fFinal, fContent, fTime, fSaves, fSave, fReply,
                   fAnswered, fLeft, fStuck, fFaults, fCrashes>>

(* The read ends; a save whose read failed is answered so.                 *)
FRepairEnds(who, fails) ==
    /\ fRepair' = [fRepair EXCEPT ![who] = FNoRepair]
    /\ IF who = "get" THEN UNCHANGED <<fSave, fReply>>
       ELSE IF fails THEN fSave' = FNoSave /\ fReply' = "unreadable"
       ELSE fSave' = [fSave EXCEPT !.step = "making"] /\ UNCHANGED fReply

(* The file and its record are compared; the read fails when they differ   *)
(* or one is gone.                                                         *)
FRepairCheck(who) ==
    /\ fRepair[who].step = "listed"
    /\ \E n \in fRepair[who].names :
          IF FMatches(n)
          THEN /\ fRepair' = [fRepair EXCEPT ![who] = [@ EXCEPT !.step = "matched", !.name = n]]
               /\ UNCHANGED <<fSave, fReply>>
          ELSE FRepairEnds(who, TRUE)
    /\ UNCHANGED <<fPhase, fDirs, fStaged, fFinal, fContent, fTime, fSaves, fAnswered, fLeft,
                   fStuck, fFaults, fCrashes>>

(* The compared name is removed; when it went meanwhile the read fails.    *)
FRepairUnlink(who) ==
    LET n == fRepair[who].name
    IN  /\ fRepair[who].step = "matched"
        /\ fStaged' = fStaged \ {n}
        /\ IF n \in fStaged
           THEN /\ fRepair' = [fRepair EXCEPT ![who] = FRepairing(fRepair[who].names \ {n})]
                /\ UNCHANGED <<fSave, fReply>>
           ELSE FRepairEnds(who, TRUE)
        /\ UNCHANGED <<fPhase, fDirs, fFinal, fContent, fTime, fSaves, fAnswered, fLeft,
                       fStuck, fFaults, fCrashes>>

FRepairDone(who) ==
    /\ fRepair[who].step = "listed" /\ fRepair[who].names = {}
    /\ FRepairEnds(who, FALSE)
    /\ UNCHANGED <<fPhase, fDirs, fStaged, fFinal, fContent, fTime, fSaves, fAnswered, fLeft,
                   fStuck, fFaults, fCrashes>>

(***************************************************************************)
(* Loss of the process, and startup.                                       *)
(***************************************************************************)
(* An unsynced staging file keeps any prefix.                              *)
FCrash ==
    /\ fPhase \notin {"down", "refused"} /\ fCrashes < FMaxCrashes
    /\ fCrashes' = fCrashes + 1
    /\ fPhase' = "down" /\ fSave' = FNoSave /\ fReply' = "none"
    /\ fRepair' = [who \in FRepairers |-> FNoRepair] /\ fStuck' = {}
    /\ \E c \in FContents :
          fContent' = IF fSave.step = "staged"
                      THEN [fContent EXCEPT ![fSave.name.ino] = c] ELSE fContent
    /\ UNCHANGED <<fDirs, fStaged, fFinal, fTime, fSaves, fAnswered, fLeft, fFaults>>

(* One check of startup: the stores are repaired, or the service refuses.  *)
(* A tree of directories must be missing or whole.                         *)
FCheck(phase, next, stores, contentsAccepted) ==
    LET accepted == contentsAccepted /\ \A store \in stores : fDirs[FTree(store)] # "part"
    IN  /\ fPhase = phase
        /\ fPhase' = IF accepted THEN next ELSE "refused"
        /\ fStaged' = IF accepted THEN fStaged \ FStagedIn(stores) ELSE fStaged
        /\ UNCHANGED <<fDirs, fFinal, fContent, fTime, fSaves, fSave, fReply, fRepair, fAnswered,
                       fLeft, fStuck, fFaults, fCrashes>>

FStartDecisions == FCheck("down", "attempts", {"decision"}, FDecisionsReadable)

(* The attempts also drop a staging file that has no record.               *)
FTemporaryAccepted(n) ==
    \/ FMatches(n)
    \/ FRecordOf(n) = 0 /\ FLinks(n) = 1

FAttemptsAccepted ==
    /\ \A n \in FStagedIn({"issue", "revoke"}) : FTemporaryAccepted(n)
    /\ FRecordsIn("issue") = 1..Cardinality(FRecordsIn("issue"))
    /\ FRecordsIn("revoke") \subseteq FRecordsIn("issue")
    /\ \A store \in {"issue", "revoke"} : \A id \in FRecordsIn(store) :
          fContent[fFinal[store][id]] = "full"

FStartAttempts == FCheck("attempts", "statuses", {"issue", "revoke"}, FAttemptsAccepted)

(* A status staging file is named after the digest of what should be in    *)
(* it.  Incomplete, it must be no JSON and have no record.                 *)
FDigestAccepted(n) ==
    \/ fContent[n.ino] = "full"
    \/ fContent[n.ino] = "cut" /\ FLinks(n) = 1 /\ FRecordOf(n) = 0

(* Beside its record it must be that record's second link, or a file that  *)
(* lost to an equal record.                                                *)
FPublicationAccepted(n) ==
    \/ FRecordOf(n) = 0 /\ FLinks(n) = 1
    \/ FMatches(n)
    \/ /\ FRecordOf(n) \notin {0, n.ino}
       /\ FSingle(n.store, n.id)
       /\ fTime[FRecordOf(n)] = fTime[n.ino]

FStatusesAccepted ==
    /\ \A n \in FStagedIn({"status"}) : FDigestAccepted(n) /\ FPublicationAccepted(n)
    /\ \A id \in FRecordsIn("status") :
          /\ fContent[fFinal["status"][id]] = "full"
          /\ Cardinality({n \in FStagedIn({"status"}) : n.id = id}) <= 1
    /\ FRecordsIn("status") \subseteq FRecordsIn("issue")

FStartStatuses == FCheck("statuses", "ready", {"status"}, FStatusesAccepted)

FilesNext ==
    \/ \E store \in FStores, id \in FRecords : FBegin(store, id)
    \/ FMakeDirectory \/ FStage \/ FWrite \/ FLink \/ FUnlink
    \/ FPrepareFails \/ FWriteFails \/ FLinkFails \/ FUnlinkFails
    \/ \E who \in FRepairers :
          \/ FRepairList(who) \/ FRepairCheck(who) \/ FRepairUnlink(who) \/ FRepairDone(who)
    \/ FCrash
    \/ FStartDecisions \/ FStartAttempts \/ FStartStatuses

FilesSpec == FilesInit /\ [][FilesNext]_fVars

(***************************************************************************)
(* Properties.                                                             *)
(***************************************************************************)
(* Types of the file names, contents and records.                          *)
FilesTypeOK ==
    /\ fPhase \in {"ready", "refused", "down", "attempts", "statuses"}
    /\ fDirs \in [FTrees -> FDirs]
    /\ fStaged \subseteq FNames /\ fAnswered \subseteq FNames
    /\ fFinal \in [FStores -> [FRecords -> 0..FMaxSaves]]
    /\ fContent \in [FInodes -> FContents]

(* A save answers the truth whatever the repairs of the GETs outside the   *)
(* queue remove (recoverPublishedReviewStaging runs in every read of the   *)
(* decisions).  A GET never takes the staging name from under a save that  *)
(* still has to link it.  The save's own reading of the decisions can find *)
(* a name gone that it had listed, and then the save fails; but only after *)
(* this process failed to remove the staging name of an earlier save.  And *)
(* a record that was answered is there, complete and not replaced, in      *)
(* every later state, through failures, retries, crashes and repairs.      *)
FAnswersAreTrue ==
    /\ fReply # "error"
    /\ fReply = "unreadable" => fStuck # {}
    /\ \A n \in fAnswered : FPublished(n) /\ fContent[n.ino] = "full"

(* Startup refuses the record files (native-bundle-startup.ts) only for    *)
(* one of four reasons: the process died with a store's directories made   *)
(* in part; a decision was staged and not yet published when it died; a    *)
(* revocation or status whose save had failed was saved again by the same  *)
(* process, beside the staging file of the failure; or a status was cut    *)
(* exactly before its last byte.  Any other crash, failure and retry       *)
(* leaves files that the next start repairs.                               *)
FRestartAccepts ==
    fPhase = "refused" =>
        \/ \E tree \in FTrees : fDirs[tree] = "part"
        \/ \E n \in FStagedIn({"decision"}) : FRecordOf(n) = 0
        \/ \E n \in FStagedIn({"revoke", "status"}) : n.ino \in fLeft /\ FRecordOf(n) # 0
        \/ \E n \in FStagedIn({"status"}) : fContent[n.ino] = "bare"
================================================================================
