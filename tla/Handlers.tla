------------------------------ MODULE Handlers ------------------------------
(***************************************************************************)
(* The requests that change the store while the refresher and the sweeper  *)
(* run: an upload or a replication (handleUpload and handleReplicate over  *)
(* PutStream and PutOwnership), an owner's signed delete (handleDeleteSigned*)
(* over Store.Delete) and the operator's `mv' out of quarantine/.  One     *)
(* upload and one delete are in flight at a time.                          *)
(***************************************************************************)
EXTENDS Store

VARIABLES
    upPc, upRoot,
    upMtime,      \* when the temporary file was last written
    delPc, delRoot,
    held,         \* history: roots stored, with no signed delete since
    erased        \* history: roots deleted, with no upload since

uploadVars == <<upPc, upRoot, upMtime>>
deleteVars == <<delPc, delRoot>>
handlerVars == <<uploadVars, deleteVars, held, erased>>

HandlersInit ==
    /\ upPc = "idle" /\ upRoot = NoRoot /\ upMtime = 0
    /\ delPc = "idle" /\ delRoot = NoRoot
    /\ held = List
    /\ erased = {}

\* Requests in flight are lost.
HandlersRestart ==
    /\ upPc' = "idle" /\ upRoot' = NoRoot /\ upMtime' = 0
    /\ delPc' = "idle" /\ delRoot' = NoRoot
    /\ UNCHANGED <<held, erased>>

HandlersTypeOK ==
    /\ upPc \in {"idle", "verified", "indexed", "committed"}
    /\ upRoot \in Roots \cup {NoRoot}
    /\ upPc # "idle" => upRoot \in Roots
    /\ upMtime \in Time
    /\ delPc \in {"idle", "object", "index", "ownership", "coverage"}
    /\ delRoot \in Roots \cup {NoRoot}
    /\ delPc # "idle" => delRoot \in Roots
    /\ held \subseteq Roots
    /\ erased \subseteq Roots

-----------------------------------------------------------------------------
\* PutStream has written the body to a temporary file and its root matches.
\* A body that does not hash to the root leaves nothing behind.
PutStream(r) ==
    /\ upPc = "idle"
    /\ Spend("upload")
    /\ upPc' = "verified"
    /\ upRoot' = r
    /\ upMtime' = clock
    /\ UNCHANGED <<clock, obj, quar, records, deleteVars, held, erased>>

\* The index goes first ...
PutIndex ==
    /\ upPc = "verified"
    /\ idx' = idx \cup {upRoot}
    /\ upPc' = "indexed"
    /\ UNCHANGED <<clock, obj, quar, own, cov, kept, left, upRoot, upMtime,
                   deleteVars, held, erased>>

\* ... then the rename that makes the object addressable.
CommitObject ==
    /\ upPc = "indexed"
    /\ obj' = [obj EXCEPT ![upRoot] = upMtime]
    /\ held' = IF delRoot = upRoot THEN held ELSE held \cup {upRoot}
    /\ erased' = erased \ {upRoot}
    /\ upPc' = "committed"
    /\ UNCHANGED <<clock, quar, records, left, upRoot, upMtime, deleteVars>>

\* Write-once; a token without both owner keys skips the record.
PutOwnership ==
    /\ upPc = "committed"
    /\ own' \in {own, own \cup {upRoot}}
    /\ upPc' = "idle"
    /\ upRoot' = NoRoot
    /\ upMtime' = 0
    /\ UNCHANGED <<clock, obj, quar, idx, cov, kept, left, deleteVars, held, erased>>

\* Writing the index or the rename failed; the temporary file is removed.
UploadFails ==
    /\ \/ upPc = "verified" /\ WritesFail
       \/ upPc = "indexed" /\ "io" \in Faults
    /\ upPc' = "idle"
    /\ upRoot' = NoRoot
    /\ upMtime' = 0
    /\ UNCHANGED <<storeVars, deleteVars, held, erased>>

-----------------------------------------------------------------------------
\* A command that passed every check of handleDeleteSigned; the first is that
\* there is an ownership record to verify it against.
DeleteSigned(r) ==
    /\ delPc = "idle"
    /\ r \in own
    /\ Spend("delete")
    /\ delPc' = "object"
    /\ delRoot' = r
    /\ held' = held \ {r}
    /\ UNCHANGED <<clock, obj, quar, records, uploadVars, erased>>

\* Store.Delete ignores the outcome of each Remove.
DeleteObjectFile ==
    /\ delPc = "object"
    /\ \/ obj' = [obj EXCEPT ![delRoot] = Absent]
       \/ "io" \in Faults /\ UNCHANGED obj
    /\ delPc' = "index"
    /\ UNCHANGED <<clock, quar, records, left, uploadVars, delRoot, held, erased>>

DeleteIndexFile ==
    /\ delPc = "index"
    /\ idx' \in Remaining(idx, delRoot)
    /\ delPc' = "ownership"
    /\ UNCHANGED <<clock, obj, quar, own, cov, kept, left, uploadVars, delRoot,
                   held, erased>>

DeleteOwnershipFile ==
    /\ delPc = "ownership"
    /\ own' \in Remaining(own, delRoot)
    /\ delPc' = "coverage"
    /\ UNCHANGED <<clock, obj, quar, idx, cov, kept, left, uploadVars, delRoot,
                   held, erased>>

\* The reply says "deleted".
DeleteCoverageFile ==
    /\ delPc = "coverage"
    /\ \/ cov' = [cov EXCEPT ![delRoot] = NoCoverage]
       \/ "io" \in Faults /\ UNCHANGED cov
    /\ delPc' = "idle"
    /\ delRoot' = NoRoot
    /\ erased' = IF delRoot \in held THEN erased ELSE erased \cup {delRoot}
    /\ UNCHANGED <<clock, obj, quar, idx, own, kept, left, uploadVars, held>>

-----------------------------------------------------------------------------
\* The operator moves a file back by hand; `mv' keeps its mtime.
OperatorRestore(r) ==
    /\ quar[r] # Absent
    /\ Spend("rescue")
    /\ obj' = [obj EXCEPT ![r] = quar[r]]
    /\ quar' = [quar EXCEPT ![r] = Absent]
    /\ UNCHANGED <<clock, records, handlerVars>>

HandlersNext ==
    \/ \E r \in Roots : PutStream(r)
    \/ PutIndex
    \/ CommitObject
    \/ PutOwnership
    \/ UploadFails
    \/ \E r \in Roots : DeleteSigned(r)
    \/ DeleteObjectFile
    \/ DeleteIndexFile
    \/ DeleteOwnershipFile
    \/ DeleteCoverageFile
    \/ \E r \in Roots : OperatorRestore(r)
=============================================================================
