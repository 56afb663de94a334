------------------------------- MODULE MCDisk -------------------------------
(***************************************************************************)
(* The parts of the system that share a disk, or a remote repository, with *)
(* other processes: git checkouts, the storage directory, the blob store,  *)
(* index replicas and the staged build directory.  They share no state, so *)
(* each behaviour is of one of them.                                       *)
(***************************************************************************)
EXTENDS GitCache, Provision, BlobStore, Publish, Staging

CONSTANT Pinnings  \* the sets of machines whose index may name a revision

VARIABLE part

Init ==
  /\ GitInit /\ StorageInit /\ StoreInit /\ IndexInit /\ StagingInit
  /\ part \in {"git", "storage", "store", "index", "staging"}
  /\ part # "storage" => runtime = Gone
  /\ part # "store" => \A k \in Keys : cache[k] = "none"
  /\ pinned \in IF part = "index" THEN Pinnings ELSE {{}}
  /\ part # "index" => tip = 0

OfGit == part = "git" /\ GitNext /\ UNCHANGED <<part, storageVars, storeVars, indexVars, stagingVars>>
OfStorage == part = "storage" /\ StorageNext /\ UNCHANGED <<part, gitVars, storeVars, indexVars, stagingVars>>
OfStore == part = "store" /\ StoreNext /\ UNCHANGED <<part, gitVars, storageVars, indexVars, stagingVars>>
OfIndex == part = "index" /\ IndexNext /\ UNCHANGED <<part, gitVars, storageVars, storeVars, stagingVars>>
OfStaging == part = "staging" /\ StagingNext /\ UNCHANGED <<part, gitVars, storageVars, storeVars, indexVars>>
Next == OfGit \/ OfStorage \/ OfStore \/ OfIndex \/ OfStaging

Spec == Init /\ [][Next]_<<part, gitVars, storageVars, storeVars, indexVars, stagingVars>>

MCThreads == {<<"p", 1>>, <<"p", 2>>, <<"q", 1>>}
MCIds == {[rev |-> "r1", dir |-> "", patches |-> 0], [rev |-> "r2", dir |-> "sub", patches |-> 1]}
MCDirs == {<<"r2", "sub">>}

(* Neither a checkout nor a runtime nor a toolchain is ever there in part. *)
TreesWhole == CheckoutsWhole /\ StorageWhole
(* Blobs are what their digests say, and builds get them so.               *)
StoreTrue == BlobsTrue /\ ServedTrue
=============================================================================
