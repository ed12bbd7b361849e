---------------------------- MODULE TempThumbnail ----------------------------
(***************************************************************************)
(* The thumbnail in the Add media form (hooks/use-temp-thumbnail.ts): a    *)
(* frame generated from the chosen file, or a copy of an image the user    *)
(* picked, kept as a preview in the app's own directory until the form is  *)
(* done with it.  The calls come from hooks/use-add-media-form.ts, as far  *)
(* as the modal is not locked (components/modals/add-media-modal.tsx), and *)
(* from the creation that reads the file (hooks/use-add-media-workflow.ts).*)
(*                                                                         *)
(* A call to the backend and the code after its answer are two moments.    *)
(***************************************************************************)
EXTENDS Naturals, FiniteSets

CONSTANTS
    Files,             \* media files on the user's disk
    ThumbBudgets       \* bound: [picks, images, adds, failures], the most of each in one behaviour

VARIABLES
    disk,          \* previews in the app's directory, and the user's own image
    media,         \* mediaPath
    thumbPath,     \* what is shown and sent
    temp,          \* currentTempThumbRef: what is ours to delete
    latest,        \* thumbGenerationGuard
    isGeneratingThumb,
    tasks,         \* callbacks that wait for an answer
    creation,      \* the media being added, or none
    left,          \* what the budget of this behaviour still allows
    made,          \* previews written so far
    wanted,        \* history: what the user chose last
    hurried,       \* history: something was chosen while the preview before it was being deleted
    late           \* history: the media was added while a picked image was not there yet

vars == <<disk, media, thumbPath, temp, latest, isGeneratingThumb, tasks, creation, left, made,
          wanted, hurried, late>>

None == "none"
\* a preview, of a file or of the image; the image itself is no preview
File(n, of) == [n |-> n, of |-> of]
NoFile == File(0, None)
OwnImage == File(0, "image")
NoCreation == [thumb |-> NoFile, busy |-> FALSE, read |-> FALSE]

Init ==
    /\ disk = {OwnImage}
    /\ media = None /\ thumbPath = NoFile /\ temp = NoFile
    /\ latest = 0 /\ isGeneratingThumb = FALSE
    /\ tasks = {} /\ creation = NoCreation
    /\ left \in ThumbBudgets
    /\ made = 0
    /\ wanted = None /\ hurried = FALSE /\ late = FALSE

Task(kind, id, of, del, next, tracks) ==
    [kind |-> kind, id |-> id, of |-> of, del |-> del, next |-> next, tracks |-> tracks]

isModalLocked == creation.busy \/ isGeneratingThumb

Deleting == {t.del : t \in tasks}
Waiting(kind) == \E t \in tasks : t.kind = kind

(***************************************************************************)
(* The hook.                                                               *)
(***************************************************************************)

Generate(id, of) == Task("generate", id, of, NoFile, NoFile, TRUE)
\* a deletion nothing follows
Drop(file) == IF file = NoFile THEN {} ELSE {Task("drop", 0, None, file, NoFile, FALSE)}

\* Mutant: an answer is taken whatever was asked for since.
AnyTime(id) == TRUE

isCurrent(id) == id = latest

\* Mutant: what was picked is ours, whether it was copied or not.
AlwaysOurs(tracks) == TRUE

Ours(tracks) == tracks

\* the previous preview is gone, the next takes its place unless something newer began meanwhile;
\* a pick is shown at once, a generation stays in progress until then
Adopted(t, others) ==
    IF isCurrent(t.id)
    THEN /\ temp' = IF Ours(t.tracks) THEN t.next ELSE NoFile
         /\ thumbPath' = t.next
         /\ isGeneratingThumb' = FALSE
         /\ tasks' = others
    ELSE /\ tasks' = others \cup (IF Ours(t.tracks) THEN Drop(t.next) ELSE {})
         /\ UNCHANGED <<temp, thumbPath, isGeneratingThumb>>

\* cleanupTempThumb forgets the preview it has deleted
Forgotten(file) == IF temp = file THEN NoFile ELSE temp

generateThumbForMedia(of, others) ==
    /\ latest' = latest + 1
    /\ isGeneratingThumb' = TRUE
    /\ tasks' = others \cup {Generate(latest', of)}

\* another file in the form: the preview of the one before is deleted first
applyMediaSelection(f) ==
    /\ ~isModalLocked /\ left.picks > 0 /\ media # f
    /\ left' = [left EXCEPT !.picks = @ - 1]
    /\ media' = f
    /\ wanted' = f
    /\ hurried' = (hurried \/ Waiting("reselect"))
    /\ thumbPath' = NoFile /\ temp' = NoFile
    /\ IF temp = NoFile
       THEN /\ latest' = latest + 2 /\ isGeneratingThumb' = TRUE
            /\ tasks' = tasks \cup {Generate(latest', f)}
       ELSE /\ latest' = latest + 1 /\ isGeneratingThumb' = FALSE
            /\ tasks' = tasks \cup {Task("reselect", 0, f, temp, NoFile, FALSE)}
    /\ UNCHANGED <<disk, creation, made, late>>

Generated(t) ==
    /\ t \in tasks /\ t.kind = "generate"
    /\ made' = made + 1
    /\ LET file == File(made', t.of)
           adopt == Task("adopt", t.id, None, temp, file, TRUE)
       IN /\ disk' = disk \cup {file}
          /\ IF ~isCurrent(t.id)
             THEN /\ tasks' = (tasks \ {t}) \cup Drop(file)
                  /\ UNCHANGED <<temp, thumbPath, isGeneratingThumb>>
             ELSE IF temp # NoFile
             THEN /\ tasks' = (tasks \ {t}) \cup {adopt}
                  /\ UNCHANGED <<temp, thumbPath, isGeneratingThumb>>
             ELSE Adopted(adopt, tasks \ {t})
    /\ UNCHANGED <<media, latest, creation, left, wanted, hurried, late>>

\* no frame could be taken: nothing is shown, and what was there before is deleted
GenerateFails(t) ==
    /\ t \in tasks /\ t.kind = "generate" /\ left.failures > 0
    /\ left' = [left EXCEPT !.failures = @ - 1]
    /\ IF ~isCurrent(t.id)
       THEN tasks' = tasks \ {t} /\ UNCHANGED <<temp, thumbPath, isGeneratingThumb>>
       ELSE /\ temp' = NoFile /\ thumbPath' = NoFile
            /\ tasks' = (tasks \ {t}) \cup
                  (IF temp = NoFile THEN {} ELSE {Task("failed", t.id, None, temp, NoFile, FALSE)})
            /\ isGeneratingThumb' = (temp # NoFile)
    /\ UNCHANGED <<disk, media, latest, creation, made, wanted, hurried, late>>

\* an image is picked and copied into the preview directory
applyThumbSelection ==
    /\ ~isModalLocked /\ media # None /\ left.images > 0
    /\ left' = [left EXCEPT !.images = @ - 1]
    /\ tasks' = tasks \cup {Task("stage", left.images, None, NoFile, NoFile, TRUE)}
    /\ UNCHANGED <<disk, media, thumbPath, temp, latest, isGeneratingThumb, creation, made, wanted,
                   hurried, late>>

\* setManualThumbPath, which supersedes a generation; without a copy the image is shown from where it
\* is, and is not ours
Staged(t, copied) ==
    /\ t \in tasks /\ t.kind = "stage"
    /\ copied \/ left.failures > 0
    /\ left' = IF copied THEN left ELSE [left EXCEPT !.failures = @ - 1]
    /\ made' = IF copied THEN made + 1 ELSE made
    /\ latest' = latest + 1
    /\ wanted' = "image"
    /\ hurried' = (hurried \/ Waiting("reselect"))
    /\ LET next == IF copied THEN File(made', "image") ELSE OwnImage
       IN /\ disk' = IF copied THEN disk \cup {next} ELSE disk
          /\ isGeneratingThumb' = FALSE
          /\ IF temp # NoFile
             THEN /\ tasks' = (tasks \ {t}) \cup {Task("adopt", latest', None, temp, next, copied)}
                  /\ UNCHANGED <<temp, thumbPath>>
             ELSE /\ tasks' = tasks \ {t}
                  /\ temp' = IF Ours(copied) THEN next ELSE NoFile
                  /\ thumbPath' = next
    /\ UNCHANGED <<media, creation, late>>

\* the backend has deleted a file, and the callback that waited for it goes on
Cleaned(t) ==
    /\ t \in tasks /\ t.kind \in {"drop", "reselect", "adopt", "failed"}
    /\ disk' = disk \ {t.del}
    /\ \/ /\ t.kind = "drop"
          /\ tasks' = tasks \ {t} /\ temp' = Forgotten(t.del)
          /\ UNCHANGED <<thumbPath, latest, isGeneratingThumb>>
       \/ /\ t.kind = "failed"
          /\ tasks' = tasks \ {t} /\ temp' = Forgotten(t.del)
          /\ isGeneratingThumb' = IF isCurrent(t.id) THEN FALSE ELSE isGeneratingThumb
          /\ UNCHANGED <<thumbPath, latest>>
       \/ /\ t.kind = "reselect"
          /\ generateThumbForMedia(t.of, tasks \ {t})
          /\ temp' = Forgotten(t.del)
          /\ UNCHANGED thumbPath
       \/ /\ t.kind = "adopt" /\ isCurrent(t.id)
          /\ Adopted(t, tasks \ {t})
          /\ UNCHANGED latest
       \/ /\ t.kind = "adopt" /\ ~isCurrent(t.id)
          /\ tasks' = (tasks \ {t}) \cup (IF Ours(t.tracks) THEN Drop(t.next) ELSE {})
          /\ temp' = Forgotten(t.del)
          /\ UNCHANGED <<thumbPath, latest, isGeneratingThumb>>
    /\ UNCHANGED <<media, creation, left, made, wanted, hurried, late>>

\* Mutant: the preview is let go of, and stays on disk.
Forsaken == {}

ResetDrops == Drop(temp)

resetThumbState ==
    /\ latest' = latest + 1
    /\ isGeneratingThumb' = FALSE
    /\ thumbPath' = NoFile /\ temp' = NoFile
    /\ tasks' = tasks \cup ResetDrops

\* the modal is closed or opened, or another source is chosen
resetForm ==
    /\ ~isModalLocked /\ media # None
    /\ media' = None /\ wanted' = None
    /\ resetThumbState
    /\ UNCHANGED <<disk, creation, left, made, hurried, late>>

(***************************************************************************)
(* The creation.                                                           *)
(***************************************************************************)

addMedia ==
    /\ ~isModalLocked /\ media # None /\ left.adds > 0
    /\ left' = [left EXCEPT !.adds = @ - 1]
    /\ creation' = [thumb |-> thumbPath, busy |-> TRUE, read |-> FALSE]
    /\ late' = (late \/ Waiting("stage") \/ Waiting("adopt") \/ Waiting("reselect"))
    /\ UNCHANGED <<disk, media, thumbPath, temp, latest, isGeneratingThumb, tasks, made, wanted, hurried>>

\* the backend copies the thumbnail into the library
CreationReads ==
    /\ creation.busy /\ ~creation.read
    /\ creation' = [creation EXCEPT !.read = TRUE]
    /\ UNCHANGED <<disk, media, thumbPath, temp, latest, isGeneratingThumb, tasks, left, made, wanted,
                   hurried, late>>

\* the form is reset when the media is there, and left as it is when it could not be added
CreationEnds(added) ==
    /\ creation.busy
    /\ added => creation.read
    /\ creation' = NoCreation
    /\ IF added THEN resetThumbState /\ media' = None /\ wanted' = None
       ELSE UNCHANGED <<media, thumbPath, temp, latest, isGeneratingThumb, tasks, wanted>>
    /\ UNCHANGED <<disk, left, made, hurried, late>>

\* Mutant: another channel resets the form of a creation in flight.
AnyForm == TRUE

\* a creation in flight keeps its form
mayReset == ~creation.busy

SelectChannel ==
    /\ mayReset /\ media # None
    /\ media' = None /\ wanted' = None
    /\ resetThumbState
    /\ UNCHANGED <<disk, creation, left, made, hurried, late>>

Next ==
    \/ \E f \in Files : applyMediaSelection(f)
    \/ applyThumbSelection \/ resetForm \/ SelectChannel
    \/ \E t \in tasks : Generated(t) \/ GenerateFails(t) \/ Staged(t, TRUE) \/ Staged(t, FALSE) \/ Cleaned(t)
    \/ addMedia \/ CreationReads \/ CreationEnds(TRUE) \/ CreationEnds(FALSE)

Spec == Init /\ [][Next]_vars

(***************************************************************************)
(* Properties.                                                             *)
(***************************************************************************)

\* Every preview on disk is the one in use or about to be deleted, and the user's own image is never
\* deleted.
PreviewsTracked ==
    /\ OwnImage \in disk
    /\ disk \ {OwnImage} \subseteq {temp} \cup Deleting \cup {t.next : t \in tasks}
    /\ OwnImage \notin Deleting

\* The thumbnail a creation was sent is there until the backend has read it, unless it was added
\* before a picked image was there (README 6.2).
ThumbnailThere ==
    creation.busy /\ ~creation.read /\ ~late =>
       creation.thumb \in disk \cup {NoFile}

\* When nothing is in flight, what is shown is what the user chose last, a frame of the file or the
\* image, unless that was done while an older preview was still being deleted (README 6.2).
ShownAsChosen ==
    tasks = {} /\ ~hurried /\ thumbPath # NoFile /\ wanted # None => thumbPath.of = wanted
=============================================================================
