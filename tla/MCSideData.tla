----------------------------- MODULE MCSideData -----------------------------
(***************************************************************************)
(* SideData on small instances. A behaviour is of one part, so the others  *)
(* start in one state only, and so do those that have many.                *)
(***************************************************************************)
EXTENDS SideData, Sequences, TLC

CONSTANTS w1, w2, x, y, bad, nothing

None == "none"
C(id, author, text, date) ==
    [id |-> id, author |-> author, text |-> text, published_at |-> date]
R(list, n) == [comments |-> list, comment_count |-> n]

SomeResponses ==
    { R(<<>>, 0), R(<<>>, 5),
      R(<<C("c1", "@ann", "A", "d1")>>, 1),
      R(<<C("c1", None, "B", "d2")>>, 1),
      R(<<C("c1", None, "blank", None), C("c1", "@ann", "A2", None), C(None, "@bob", "A", "d1"),
          C(None, "@bob", "A", "d1")>>, 3),
      R(<<C("c2", "@bob", "B", None), C("c3", "@ann", "A", "d1"), C("c1", "@ann", "B", "d1")>>, 9),
      R(<<C("c1", "@ann", "B", "d1"), C("c1", "@ann", "B", "d1"), C("c1", "@ann", "B", "d1"),
          C("c1", "@ann", "B", "d1"), C("c1", "@ann", "B", "d1")>>, 5) }

AnImport == [media |-> <<[video |-> "v2", count |-> 0, has |-> FALSE, state |-> "unknown"]>>,
             rows |-> {}, seq |-> 0]

SomeFiles == { <<>>, <<"a", "long", "b", "c">>, <<"a", "b", "damage">>,
           <<"a", "long", "b", "long", "c">> }

SomeSizes == [p \in Paths |-> IF p = "p1" THEN 2 ELSE 1]

Each(a, b) == (w1 :> a) @@ (w2 :> b)
Scene(a, b, f) == [kind |-> Each(a, b), faults |-> f, given |-> Each(x, x)]

Pairs == {<<"copy", "copy">>, <<"copy", "move">>, <<"move", "move">>, <<"copy", "download">>,
          <<"move", "download">>, <<"download", "download">>, <<"thumb", "thumb">>}

\* Two calls at once meet refusals, or a damaged file, not both: a download that puts a damaged file
\* back after a refusal may put it over the file another call stored meanwhile.
SomeScenarios ==
    { Scene(p[1], p[2], f) : p \in Pairs,
        f \in { {"refused"}, {"refused", "otherVolume"}, {"refused", "noLinks"}, {"damagedAtStart"},
                {"otherVolume", "damagedAtStart"} } }
    \cup { Scene(k, nothing, f \cup {"corrupt", "refused"}) :
        k \in {"copy", "move", "thumb", "download"},
        f \in { {}, {"sourceChanges"}, {"otherVolume"}, {"damagedAtStart"},
                {"otherVolume", "sourceChanges"}, {"noLinks", "sourceChanges"},
                {"noFlush", "otherVolume"}, {"otherVolume", "damagedAtStart"} } }

Url(scheme, host, name, ext, query, width) ==
    [scheme |-> scheme, host |-> host, name |-> name, ext |-> ext, query |-> query, width |-> width]
Image(host) == Url("https", host, "a", "jpg", "q", 0)
Page(host, name) == Url("https", host, name, "none", "q", 0)
Asks(kind, urls, thumbnail) == [kind |-> kind, urls |-> urls, thumbnail |-> thumbnail]

\* A media whose largest image is a WebP, whose JPEG is declared at two sizes, with one image that
\* was not declared and one of another server; one without a declared image; and one without any.
Declared == << Url("https", "ytimg", "b", "jpg", "q1", 1), Url("https", "ytimg", "b", "jpg", "q2", 2),
               Url("https", "ytimg", "c", "jpg", "q1", 0), Url("https", "elsewhere", "d", "jpg", "q1", 3),
               Url("https", "ytimg", "a", "jpg", "q1", 4), Url("https", "ytimg", "a", "webp", "q1", 5) >>
OneAsks ==
    { Asks("media", Declared, <<Url("https", "ytimg", "a", "webp", "q2", 0)>>),
      Asks("media", <<>>, <<Image("ytimg")>>), Asks("media", <<>>, <<>>),
      Asks("url", <<Image("ytimg")>>, <<>>), Asks("url", <<Image("elsewhere")>>, <<>>),
      Asks("url", <<[Image("ytimg") EXCEPT !.scheme = "http"]>>, <<>>),
      Asks("url", <<Url("file", "none", "a", "jpg", "q", 0)>>, <<>>),
      Asks("url", <<Page("youtube", "list")>>, <<>>), Asks("url", <<Page("elsewhere", "video")>>, <<>>) }
SomePlans ==
    { <<a, Asks("none", <<>>, <<>>), Asks("none", <<>>, <<>>)>> : a \in OneAsks }
    \cup { <<Asks("avatar", <<>>, <<>>), Asks("avatar", <<>>, <<>>),
            Asks("url", <<Page("youtu.be", "video")>>, <<>>)>> }
Redirects ==
    { Image("ytimg"), Image("elsewhere"), [Image("youtube") EXCEPT !.scheme = "inherited"],
      [Image("ytimg") EXCEPT !.scheme = "http"], Url("inherited", "inherited", "b", "none", "q", 0) }

\* What may go wrong in one behaviour, each pair with a bound of its own.
SomeBudgets ==
    { [exports |-> e, launches |-> l, faults |-> f] :
        <<e, l, f>> \in { q \in (0 .. 1) \X (0 .. 1) \X (0 .. 1) : q[1] + q[2] + q[3] = 2 } }
SomeTroubles ==
    { [edits |-> e, deaths |-> 1 - e, refusals |-> 1] : e \in 0 .. 1 }

\* A library with two media, one of them kept under an older name, a thumbnail that is also an
\* avatar, and another avatar; for the comparison also a replay, a row that escapes the folder, a
\* leftover, a scratch file and a link; for the walk a tree with a link to its top.
Held(group, name, digest, managed) == [group |-> group, name |-> name, digest |-> digest, managed |-> managed]
On(file, holds, recent) == [file |-> file, holds |-> holds, recent |-> recent]
MediaA == Held("media", "a", TRUE, TRUE)
MediaB == Held("media", "b", FALSE, TRUE)
ThumbT == Held("thumbnails", "t", TRUE, TRUE)
ThumbU == Held("thumbnails", "u", TRUE, TRUE)
Replay == Held("live_chat", "r", FALSE, TRUE)
Escaping == Held("media", "e", TRUE, FALSE)
RowOf(file, thumbnail, chat) == [file |-> file, thumbnail |-> thumbnail, live_chat |-> chat]
Verified ==
    [plan |-> "verify", files |-> {On(MediaA, "whole", FALSE), On(MediaB, "whole", FALSE), On(ThumbT, "whole", FALSE)},
     rows |-> {RowOf(MediaA, {ThumbT}, {}), RowOf(MediaB, {}, {})}, avatars |-> {ThumbT}, nodes |-> {}]
Compared ==
    [plan |-> "integrity",
     files |-> {On(MediaA, "whole", FALSE), On(ThumbT, "whole", FALSE), On(ThumbU, "whole", FALSE), On(Replay, "whole", FALSE),
                On(Held("media", "o", TRUE, TRUE), "whole", FALSE), On(Held("media", "dot", FALSE, TRUE), "whole", FALSE),
                On(MediaB, "link", FALSE)},
     rows |-> {RowOf(MediaA, {ThumbT}, {Replay}), RowOf(Escaping, {}, {}), RowOf(MediaB, {}, {})},
     avatars |-> {ThumbT, ThumbU}, nodes |-> {}]
Node(path, is) == [path |-> path, is |-> is]
Walked ==
    [plan |-> "summary", files |-> {}, rows |-> {}, avatars |-> {},
     nodes |-> {Node(<<>>, "dir"), Node(<<"video">>, "dir"), Node(<<"video", "a">>, "file"), Node(<<"video", "run">>, "dir"),
                Node(<<"video", "run", "tmp">>, "file"), Node(<<"video", "loop">>, "link")}]

\* Libraries on two shares, the requests of a page, and what one may ask of a
\* file: a range closed, open, counted from the end, no range, or one that is not understood.
FirstLibrary == [name |-> "A", share |-> "s0"]
OtherLibrary == [name |-> "B", share |-> "s1"]
Header(form, a, b) == [form |-> form, a |-> a, b |-> b]
NoRange(where) == [folder : where, header : {Header("none", 0, 0)}]
AnyRange ==
    [folder : {FirstLibrary},
     header : {Header("closed", a, b) : a \in 0 .. 3, b \in 0 .. 3}
              \cup {Header(form, a, 0) : form \in {"open", "suffix"}, a \in 0 .. 4}
              \cup {Header("none", 0, 0), Header("other", 0, 0)}]

\* A program opened from the Finder, with a PATH or without one, and one on Windows with a batch file
\* before the program; what each program does when it is asked for its version.
Does(output, released, kind) ==
    [output |-> output, hangs |-> kind = "hangs", fails |-> kind = "fails", version |-> "v",
     helper |-> IF kind = "hangs" THEN "stays" ELSE IF kind = "shim" THEN "ends" ELSE "none",
     released |-> released]
Acts(a, b, c) == ("yt-dlp" :> a) @@ ("ffmpeg" :> b) @@ ("deno" :> c)
Quick == Acts(Does(1, 9, "prints"), Does(1, 0, "prints"), Does(1, 0, "prints"))
Computer(system, path, fallback, holds, acts) ==
    [windows |-> system = "windows", path |-> path, fallback |-> fallback, holds |-> holds, acts |-> acts,
     movable |-> IF system = "windows" THEN {<<"tools", "deno", "exe">>, <<"usr", "deno", "exe">>, <<"first", "yt-dlp", "com">>}
                 ELSE {<<"tools", "deno", "bare">>, <<"brew", "deno", "bare">>, <<"usr", "ffmpeg", "bare">>}]
OfTheMac == { <<"brew", "yt-dlp", "bare">>, <<"cwd", "yt-dlp", "bare">>, <<"brew", "ffmpeg", "plain">>,
              <<"usr", "ffmpeg", "bare">>, <<"tools", "ffmpeg", "bare">>, <<"tools", "deno", "bare">> }
OfWindows == { <<"first", "yt-dlp", "shim">>, <<"usr", "yt-dlp", "exe">>, <<"usr", "ffmpeg", "com">>,
               <<"tools", "ffmpeg", "exe">>, <<"tools", "deno", "exe">> }
SomeComputers ==
    { Computer("windows", <<>>, <<>>, {}, Quick) }
    \cup { Computer(c[1], c[2], c[3], c[4], acts) :
        c \in { <<"mac", <<"cwd", "usr">>, <<"brew">>, OfTheMac>>, <<"mac", <<>>, <<"brew">>, OfTheMac>>,
                <<"windows", <<"first", "usr">>, <<>>, OfWindows>> },
        acts \in { Acts(Does(3, 12, "prints"), Does(1, 0, "prints"), Does(0, 0, "prints")),
                   Acts(Does(1, 7, "hangs"), Does(1, 0, "prints"), Does(1, 0, "fails")),
                   Acts(Does(1, 7, "shim"), Does(1, 0, "fails"), Does(1, 0, "shim")) } }

\* Paths below a managed directory with up to four pieces more, the same behind a `.` segment, and the
\* short ones of any pieces.
Pieces == {"word", "con", "sp", "dot", "colon", "slash"}
UpTo(pieces, n) == UNION {[1 .. k -> pieces] : k \in 0 .. n}
SomeTexts ==
    {<<"video">> \o t : t \in UpTo(Pieces, 4)}
    \cup {<<"dot", "slash">> \o s \o <<"video", "slash">> \o t : s \in {<<>>, <<"sp">>}, t \in UpTo(Pieces, 3)}
    \cup UpTo(Pieces \cup {"thumbnails"}, 3)
SomeSubtrees == [Media |-> {"video", "audio"}, Thumbnails |-> {"thumbnails"}]

TwoWriters == {w1, w2}
SomeContents == {x, y, bad}
ThreeFetchers == 1 .. 3
SomeLibraries == {Verified, Compared, Walked}
SomeFolders == {FirstLibrary, OtherLibrary}
SomeWanted == [r1 |-> AnyRange, r2 |-> NoRange({OtherLibrary}), r3 |-> NoRange({FirstLibrary})]

\* AllInit, with each part held to one state where it is not the one that runs.
MCInit ==
    /\ part \in {"comments", "replays", "streams", "thumbs", "writes", "images", "cookies", "previews", "checks", "served", "programs", "paths"}
    /\ CommentsPart!Init /\ Init /\ StreamsPart!Init
    /\ ThumbsPart!Init
    /\ part # "thumbs" \/ ~ffmpeg => \A p \in Paths : source[p] = "usable"
    /\ part # "thumbs" => ffmpeg
    /\ \E p \in Paths : source[p] = "usable"
    /\ WritesPart!Init
    /\ part # "writes" => scenario = Scene("copy", "copy", {"refused"})
    /\ ImagesPart!Init
    /\ part # "images" => ask[1] = Asks("media", <<>>, <<>>)
    /\ CookiesPart!Init
    /\ part # "cookies" => left.exports = 0
    /\ PreviewsPart!Init
    /\ chosen = "k1" /\ (part # "previews" => trouble.edits = 0)
    /\ ChecksPart!Init
    /\ part # "checks" => plan = "summary"
    /\ ServedPart!Init
    /\ part # "served" => scene = "serving" /\ configured = FirstLibrary /\ length = 0
    /\ scene = "serving" => length = 0
    /\ ProgramsPart!Init
    /\ part # "programs" => machine = Computer("windows", <<>>, <<>>, {}, Quick)
    /\ PathsPart!Init
    /\ part # "paths" => named = <<"word">>

MCSpec == MCInit /\ [][AllNext]_all
=============================================================================
