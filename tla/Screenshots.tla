------------------------------ MODULE Screenshots ------------------------------
(***************************************************************************)
(* Screenshots (api/v1/screenshots.py): a row, a file and an agent that    *)
(* uploads the image, again if it got no answer.                           *)
(*                                                                         *)
(* The row describes the image by its size and dimensions; its path is     *)
(* "pending" before the first upload and the same ever after.  An upload   *)
(* writes the file without an await, and then its row.  The endpoint asks  *)
(* for the row only, so whether the agent was told is left out, and so are *)
(* the lists of rows.                                                      *)
(***************************************************************************)
EXTENDS Integers

CONSTANTS
    Shots,    \* ids
    Images,
    Uploads,  \* uploads at a time, each used again and again
    NoImage

ASSUME ScreenshotsAssumption ==
    Images \cap {"none", "pending", "broken", NoImage} = {}

VARIABLES
    shot,    \* the row: none, pending, or the image it describes
    file,    \* the file at the row's path: an image, broken, or none
    upload,  \* what each upload is doing
    newest,  \* history: uploads under way that were the last to write their file
    settled  \* history: screenshots whose row was stored by the last upload that
             \* wrote the file, neither touched since

shotVars == <<shot, file, upload, newest, settled>>

NoUpload == [shot |-> NoImage, image |-> NoImage]

ShotTypeOK ==
    /\ shot \in [Shots -> {"none", "pending"} \cup Images]
    /\ file \in [Shots -> Images \cup {NoImage, "broken"}]
    /\ upload \in [Uploads -> [shot : Shots, image : Images] \cup {NoUpload}]
    /\ newest \subseteq Uploads
    /\ settled \subseteq Shots

ShotInit ==
    /\ shot = [s \in Shots |-> "none"]
    /\ file = [s \in Shots |-> NoImage]
    /\ upload = [u \in Uploads |-> NoUpload]
    /\ newest = {}
    /\ settled = {}

\* capture_screenshot, committed before the agent is told.
Capture(s) ==
    /\ shot[s] = "none"
    /\ shot' = [shot EXCEPT ![s] = "pending"]
    /\ UNCHANGED <<file, upload, newest, settled>>

\* The file of s is written by the uploads in writers, and by none of the others.
Written(s, writers) ==
    /\ newest' = {u \in newest : upload[u].shot # s} \cup writers
    /\ settled' = settled \ {s}

\* upload_screenshot reads the row, of which it uses nothing, and writes the
\* file.
WriteFile(u, s, i) ==
    /\ upload[u] = NoUpload
    /\ shot[s] # "none"
    /\ file' = [file EXCEPT ![s] = i]
    /\ upload' = [upload EXCEPT ![u] = [shot |-> s, image |-> i]]
    /\ Written(s, {u})
    /\ UNCHANGED shot

\* The disk is full or the process ends: the file was truncated, and the upload
\* goes no further.
WriteFails(s) ==
    /\ shot[s] # "none"
    /\ file' = [file EXCEPT ![s] = "broken"]
    /\ Written(s, {})
    /\ UNCHANGED <<shot, upload>>

\* Mutant of UpdateRow: a row that has an image keeps its description.
MutUpdateRow(u) ==
    /\ upload[u] # NoUpload
    /\ LET s == upload[u].shot IN
       /\ shot' = [shot EXCEPT ![s] = IF @ = "pending" THEN upload[u].image ELSE @]
       /\ settled' = IF u \in newest THEN settled \cup {s} ELSE settled \ {s}
    /\ upload' = [upload EXCEPT ![u] = NoUpload]
    /\ newest' = newest \ {u}
    /\ UNCHANGED file

UpdateRow(u) ==
    /\ upload[u] # NoUpload
    /\ LET s == upload[u].shot IN
       /\ shot' = [shot EXCEPT ![s] = upload[u].image]
       /\ settled' = IF u \in newest THEN settled \cup {s} ELSE settled \ {s}
    /\ upload' = [upload EXCEPT ![u] = NoUpload]
    /\ newest' = newest \ {u}
    /\ UNCHANGED file

\* The UPDATE or the commit fails, or the process ends.
UpdateFails(u) ==
    /\ upload[u] # NoUpload
    /\ upload' = [upload EXCEPT ![u] = NoUpload]
    /\ newest' = newest \ {u}
    /\ UNCHANGED <<shot, file, settled>>

\* get_screenshot_image: at the row's path or, if there is none yet, at the
\* standard one, which is the same.
Served(s) == IF shot[s] = "none" THEN NoImage ELSE file[s]

ShotNext ==
    \/ \E s \in Shots : Capture(s) \/ WriteFails(s)
    \/ \E u \in Uploads :
          \/ \E s \in Shots, i \in Images : WriteFile(u, s, i)
          \/ UpdateRow(u) \/ UpdateFails(u)

ShotSpec == ShotInit /\ [][ShotNext]_shotVars

-----------------------------------------------------------------------------
\* screenshots.py:124-144: the file and its row are stored one after the other.
\* Whatever uploads of a screenshot overlapped or failed before: once the one
\* that wrote the file last has stored its row, the row describes the image that
\* is served, until another one writes the file or stores its row.  An agent
\* that uploads again, alone, so puts right what an overlap or a failure left.
RowDescribesFile == \A s \in settled : Served(s) \in Images /\ shot[s] = Served(s)
================================================================================
