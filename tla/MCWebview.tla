----------------------------- MODULE MCWebview -----------------------------
(***************************************************************************)
(* The parts of the webview that answers from the backend reach out of     *)
(* turn, in one run: the pages of a channel's media, the position of the   *)
(* player, the thumbnail and the run of the Add media modal, the list of   *)
(* channels, and the folder of the library. They share no state here, so a *)
(* behaviour is of one of them and the variables of the others hold        *)
(* nothing.                                                                *)
(***************************************************************************)
EXTENDS Naturals, Sequences, FiniteSets

CONSTANTS
    Own, Other, Added, Seen, MEDIA_PAGE_SIZE,
    Media, End,
    Files, Urls, Held

VARIABLES
    part,
    order, watched, ref, requests, edits, focus, section, skewed, unlisted, lost,
    row, item, active, view, pending, saves, marks, final, disorder, relisted,
    disk, media, thumbPath, temp, isGeneratingThumb, tasks, made, wanted, hurried, late,
    addMediaOpen, form, loader, terminal, refs, registry, stopped, events, cancels, isCancelling, pressed,
    rows, commits, dialog, count, counts, asked, op, loads, shown, overtaken, missed, fresh,
    stored, kept, there, plugged, chosen, page, start, change, queue, contacted, toggled, agreed, early,
    remade, refused, budget,
    selected, list, latest, creation, left      \* of whichever part has one

pages == <<order, watched, ref, requests, edits, focus, section, skewed, unlisted, lost>>
progress == <<row, item, active, view, pending, saves, marks, final, disorder, relisted>>
thumbnail == <<disk, media, thumbPath, temp, isGeneratingThumb, tasks, made, wanted, hurried, late>>
adding == <<addMediaOpen, form, loader, terminal, refs, registry, stopped, events, cancels, isCancelling, pressed>>
channels == <<rows, commits, dialog, count, counts, asked, op, loads, shown, overtaken, missed, fresh>>
folder == <<stored, kept, there, plugged, chosen, page, start, change, queue, contacted, toggled,
            agreed, early, remade, refused, budget>>
common == <<selected, list, latest, creation, left>>

PageBudgets ==
    LET B(q, e, f) == [queries |-> q, edits |-> e, failures |-> f] IN
    {B(1, 2, 0), B(2, 1, 0), B(1, 1, 1), B(3, 0, 1)}

ProgressBudgets ==
    LET B(o, v, k, f) == [opens |-> o, moves |-> v, marks |-> k, failures |-> f] IN
    {B(1, 1, 2, 0), B(1, 1, 1, 1), B(2, 0, 1, 0), B(1, 2, 0, 0)}

ThumbBudgets ==
    LET B(p, i, a, f) == [picks |-> p, images |-> i, adds |-> a, failures |-> f] IN
    {B(2, 1, 1, 1), B(1, 2, 1, 1), B(2, 2, 0, 1)}

RunBudgets ==
    LET B(o, e, a, c, s) == [opens |-> o, edits |-> e, adds |-> a, cancels |-> c, selects |-> s] IN
    {B(1, 2, 2, 2, 0), B(2, 2, 2, 1, 1)}

ChannelBudgets ==
    LET B(c, e, d, a, m, f, q) ==
          [creates |-> c, edits |-> e, deletes |-> d, avatars |-> a, moves |-> m, failures |-> f,
           asks |-> q] IN
    {B(1, 0, 1, 1, 0, 1, 1), B(0, 1, 1, 1, 1, 0, 1), B(1, 1, 0, 1, 0, 1, 0),
     B(0, 0, 1, 1, 0, 1, 2), B(0, 0, 0, 1, 1, 1, 0)}

\* A removable drive with the library, folders of this machine, one inside the app's, and a share.
Folder(name, drive, kind) == [name |-> name, drive |-> drive, kind |-> kind]
Home == Folder("home", "d1", "plain")
Else == Folder("else", "d2", "plain")
Top == Folder("top", "system", "root")
Inner == Folder("inner", "system", "config")
Share == Folder("share", "net", "share")
Nowhere == Folder("none", "none", "none")
Spelled(f) == [at |-> f, as |-> IF f = Nowhere THEN "none" ELSE "typed"]
FolderBudgets ==
    LET B(d, r, p, t, l) == [drives |-> d, removals |-> r, picks |-> p, toggles |-> t, launches |-> l] IN
    {B(2, 0, 1, 1, 1), B(0, 1, 2, 1, 1), B(1, 1, 1, 0, 1)}
Starts(local, imported, holds) ==
    {[local |-> Spelled(local), imported |-> Spelled(imported), kept |-> holds,
      there |-> {Home, Top, Share} \cup (IF local = Home THEN {} ELSE {Inner}), budget |-> b] : b \in FolderBudgets}
SomeMachines ==
    Starts(Home, Nowhere, Home) \cup Starts(Nowhere, Home, Home)
    \cup UNION {Starts(Nowhere, f, Nowhere) : f \in {Nowhere, Share, Inner, Else}}

Pages == INSTANCE MediaPages
Progress == INSTANCE PlayerProgress
Thumbnail == INSTANCE TempThumbnail
Adding == INSTANCE AddMediaRun
ChannelList == INSTANCE Channels
LibraryFolder == INSTANCE LibraryFolder WITH
    Folders <- {Home, Else, Top, Inner, Share}, Machines <- SomeMachines

None == "none"
NoPages ==
    /\ order = None /\ watched = None /\ ref = None /\ requests = None /\ edits = None
    /\ focus = None /\ section = None /\ skewed = None /\ unlisted = None /\ lost = None
NoProgress ==
    /\ row = None /\ item = None /\ active = None /\ view = None /\ pending = None /\ saves = None
    /\ marks = None /\ final = None /\ disorder = None /\ relisted = None
NoThumbnail ==
    /\ disk = None /\ media = None /\ thumbPath = None /\ temp = None /\ isGeneratingThumb = None
    /\ tasks = None /\ made = None /\ wanted = None /\ hurried = None /\ late = None
NoAdding ==
    /\ addMediaOpen = None /\ form = None /\ loader = None /\ terminal = None /\ refs = None
    /\ registry = None /\ stopped = None /\ events = None /\ cancels = None /\ isCancelling = None
    /\ pressed = None
NoChannelList ==
    /\ rows = None /\ commits = None /\ dialog = None /\ count = None /\ counts = None
    /\ asked = None /\ op = None /\ loads = None /\ shown = None /\ overtaken = None
    /\ missed = None /\ fresh = None
NoLibraryFolder ==
    /\ stored = None /\ kept = None /\ there = None /\ plugged = None /\ chosen = None /\ page = None
    /\ start = None /\ change = None /\ queue = None /\ contacted = None /\ toggled = None
    /\ agreed = None /\ early = None /\ remade = None /\ refused = None /\ budget = None

Init ==
    \/ /\ part = "pages" /\ Pages!Init
       /\ NoProgress /\ NoThumbnail /\ NoAdding /\ NoChannelList /\ NoLibraryFolder
       /\ latest = None /\ creation = None
    \/ /\ part = "progress" /\ Progress!Init
       /\ NoPages /\ NoThumbnail /\ NoAdding /\ NoChannelList /\ NoLibraryFolder
       /\ selected = None /\ list = None /\ latest = None /\ creation = None
    \/ /\ part = "thumbnail" /\ Thumbnail!Init
       /\ NoPages /\ NoProgress /\ NoAdding /\ NoChannelList /\ NoLibraryFolder
       /\ selected = None /\ list = None
    \/ /\ part = "adding" /\ Adding!Init
       /\ NoPages /\ NoProgress /\ NoThumbnail /\ NoChannelList /\ NoLibraryFolder
       /\ selected = None /\ list = None /\ latest = None
    \/ /\ part = "channels" /\ ChannelList!Init
       /\ NoPages /\ NoProgress /\ NoThumbnail /\ NoAdding /\ NoLibraryFolder
       /\ creation = None
    \/ /\ part = "folder" /\ LibraryFolder!Init
       /\ NoPages /\ NoProgress /\ NoThumbnail /\ NoAdding /\ NoChannelList
       /\ selected = None /\ list = None /\ latest = None /\ creation = None /\ left = None

Next ==
    \/ part = "pages" /\ Pages!Next
       /\ UNCHANGED <<part, folder, progress, thumbnail, adding, channels, latest, creation>>
    \/ part = "progress" /\ Progress!Next
       /\ UNCHANGED <<part, folder, pages, thumbnail, adding, channels, selected, list, latest, creation>>
    \/ part = "thumbnail" /\ Thumbnail!Next
       /\ UNCHANGED <<part, folder, pages, progress, adding, channels, selected, list>>
    \/ part = "adding" /\ Adding!Next
       /\ UNCHANGED <<part, folder, pages, progress, thumbnail, channels, selected, list, latest>>
    \/ part = "channels" /\ ChannelList!Next
       /\ UNCHANGED <<part, folder, pages, progress, thumbnail, adding, creation>>
    \/ part = "folder" /\ LibraryFolder!Next
       /\ UNCHANGED <<part, pages, progress, thumbnail, adding, channels, common>>

Spec == Init /\ [][Next]_<<part, folder, pages, progress, thumbnail, adding, channels, common>>

\* The lists on screen hold what the database has, in whatever order edits, pages, saves and reloads
\* were answered.
ListsTell ==
    /\ part = "pages" => Pages!ListOfChannel /\ Pages!ListComplete /\ Pages!JumpFinds
    /\ part = "progress" => Progress!ListTells
    /\ part = "channels" => ChannelList!ListTold /\ ChannelList!NewSelected

\* What the user was shown is what is kept: the position of a media, the picked image,
\* the folder of the library and the other settings.
ChoicesKept ==
    /\ part = "progress" => Progress!PositionKept /\ Progress!WatchedFromStart
    /\ part = "thumbnail" => /\ Thumbnail!ShownAsChosen /\ Thumbnail!ThumbnailThere
                            /\ Thumbnail!PreviewsTracked
    /\ part = "folder" => /\ LibraryFolder!LibraryFound /\ LibraryFolder!PickedTaken
                         /\ LibraryFolder!LibraryApart /\ LibraryFolder!ToggleKept
                         /\ LibraryFolder!ImportStaysHere

\* A dialog speaks of, and acts on, what it shows.
DialogsTell ==
    /\ part = "adding" => Adding!FormatsOfUrl /\ Adding!TerminalFollows /\ Adding!CancelsWhatIsShown
    /\ part = "channels" => ChannelList!CountOfNamed /\ ChannelList!DialogOnChannel
=============================================================================
