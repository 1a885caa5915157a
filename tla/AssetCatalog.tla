---------------------------- MODULE AssetCatalog ----------------------------
(***************************************************************************)
(* What the assets service promises about one volume, as a client sees it: *)
(* an asset is there whole or not at all.  While a volume is mounted an    *)
(* asset changes only when an upload that was opened for it completes,     *)
(* when it is deleted or renamed, or when a failed replacement loses it    *)
(* (FAT unlinks the target of a rename first).  Chunks, tokens, staging,   *)
(* timeouts and the cached CRCs are details of the implementation.         *)
(***************************************************************************)

CONSTANTS Entries,    \* directory entries of the volume
          Contents,   \* complete files clients upload
          NoFile,     \* an entry that does not exist
          NoUpload

VARIABLES assets,     \* what each entry holds
          medium,     \* whether the volume is mounted
          pending     \* the upload that is open: its entry and its content

catalogVars == <<assets, medium, pending>>

Uploads == [entry: Entries, content: Contents]

CatalogInit ==
  /\ assets \in [Entries -> Contents \cup {NoFile}]
  /\ medium \in BOOLEAN
  /\ pending = NoUpload

(* An upload is opened, or its owner starts it over with another one. *)
Begin ==
  /\ medium
  /\ pending' \in Uploads
  /\ UNCHANGED <<assets, medium>>

(* The open upload completes; its owner may have started over with a file  *)
(* of one chunk, which is stored at once.                                  *)
Store ==
  /\ medium
  /\ pending' = NoUpload
  /\ \E u \in Uploads: assets' = [assets EXCEPT ![u.entry] = u.content]
  /\ UNCHANGED medium

(* An upload ends without storing; the entry it was to replace may be lost. *)
Abandon ==
  /\ pending' = NoUpload
  /\ \/ assets' = assets
     \/ \E e \in Entries: assets' = [assets EXCEPT ![e] = NoFile]
  /\ UNCHANGED medium

Remove ==
  /\ medium
  /\ \E e \in Entries: assets' = [assets EXCEPT ![e] = NoFile]
  /\ UNCHANGED <<medium, pending>>

(* A file moves onto another entry, neither of them awaited by an upload. *)
Move ==
  /\ medium
  /\ \E from, to \in Entries:
       /\ from # to
       /\ assets[from] # NoFile
       /\ pending # NoUpload => pending.entry \notin {from, to}
       /\ assets' \in {[assets EXCEPT ![to] = assets[from], ![from] = NoFile],
                       [assets EXCEPT ![to] = NoFile]}
  /\ UNCHANGED <<medium, pending>>

Eject ==
  /\ medium
  /\ medium' = FALSE
  /\ UNCHANGED <<assets, pending>>

(* A volume comes up: the one that was there, another one or a formatted one. *)
Insert ==
  /\ ~medium
  /\ medium' = TRUE
  /\ assets' \in [Entries -> Contents \cup {NoFile}]
  /\ UNCHANGED pending

CatalogNext == Begin \/ Store \/ Abandon \/ Remove \/ Move \/ Eject \/ Insert

CatalogSpec == CatalogInit /\ [][CatalogNext]_catalogVars
=============================================================================
