-------------------------- MODULE ReplayFilesProofs --------------------------
(***************************************************************************)
(* Why no replay the app has accepted is lost, for any number of replays,  *)
(* downloads, launches and moves of the library, whatever is killed when,  *)
(* as long as no two calls stage its compressed copy at once.              *)
(***************************************************************************)
EXTENDS ReplayFiles, TLAPS

Calls == Downloads \cup {"pass"}

\* The names the module gives a meaning of their own name no replay or call.
Apart ==
  /\ MaxLaunches \in Nat \ {0}
  /\ "pass" \notin Downloads /\ Closed \notin Downloads /\ NoName \notin Names

\* A file that is whole is closed.
File == {f \in [gz : BOOLEAN, whole : BOOLEAN, by : Calls \cup {"none", Closed, Both}, born : Nat] :
           f.whole => f.by = Closed}

Stagings   == {"stage", "verify", "park", "place", "install"}
PassSteps  == {"idle", "migrate", "copy", "copied", "compress", "stage", "verify", "park", "install",
               "unpark"}
DlSteps    == {"idle", "run", "create", "stage", "verify", "place", "install", "unpark", "over"}
SweepKinds == {"none", "gztmp", "tmp", "backup"}

Typed ==
  /\ old \in [Names -> File] /\ live \in [Names -> File] /\ gztmp \in [Names -> File]
  /\ scratch \in [Names -> File] /\ backup \in [Names -> [Suffixes -> File]]
  /\ gen \in Nat /\ launch \in 1..MaxLaunches
  /\ pass \in [pc : PassSteps, todo : SUBSET Names, name : Names \cup {NoName, "started"}, gen : Nat]
  /\ dl \in [Downloads -> [pc : DlSteps, name : Names \cup {NoName}, gen : Nat]]
  /\ sweep.kind \in SweepKinds
  /\ owed \subseteq Names /\ shared \subseteq Names

\* What a call has in hand.
InHand ==
  /\ pass.name = NoName => pass.pc = "idle"
  /\ pass.pc = "idle" => pass.todo = {}
  /\ pass.pc \notin {"idle", "migrate", "compress"} => pass.name \in pass.todo
  /\ pass.pc = "copy" => pass.gen = gen
  /\ \A d \in Downloads : dl[d].pc # "idle" => dl[d].name \in Names
  /\ sweep.kind # "none" => sweep.name \in Names
  /\ sweep.kind = "backup" => sweep.of \in Suffixes

Shape == Typed /\ InHand

\* Where call c is with replay n.
Step(c, n) ==
  IF c = "pass" THEN IF pass.name = n THEN pass.pc ELSE "away"
  ELSE IF dl[c].name = n THEN dl[c].pc ELSE "away"

\* The pass may still bring n into the library; it will not touch it any more.
Pending(n) ==
  \/ pass.name = NoName
  \/ /\ n \in pass.todo
     /\ pass.pc \in {"migrate", "copy"} \/ (pass.pc = "copied" /\ pass.name # n)
Passed(n)  == pass.name # NoName /\ pass.pc \notin {"migrate", "copy", "copied"} /\ n \notin pass.todo

\* Call c is done with the file it parked, or will be with its next step.
Finished(c, n)  == Step(c, n) \in {"unpark", "over"} \/ (c = "pass" /\ Passed(n))
HasParked(c, n) == Step(c, n) = "install" \/ Finished(c, n)

\* A backup that is about to be removed; the files that are not keep n.
Doomed(n, c, l) ==
  \/ sweep.kind = "backup" /\ sweep.name = n /\ sweep.of = <<c, l>>
  \/ l = launch /\ Step(c, n) = "unpark"
Held(n) ==
  \/ Whole(live[n])
  \/ \E c \in Calls, l \in 1..MaxLaunches : Whole(backup[n][<<c, l>>]) /\ ~Doomed(n, c, l)

\* One call stages the copy, which is its own and whole once it was compared.
OneStages(n) == \A c, d \in Calls : Step(c, n) \in Stagings /\ Step(d, n) \in Stagings => c = d
StagedWell(n) ==
  \A c \in Calls : Step(c, n) \in Stagings =>
    \/ gztmp[n] = NoFile
    \/ /\ gztmp[n].born = launch
       /\ Step(c, n) \in {"park", "place", "install"} => gztmp[n].whole

\* What lies under the replay's name is whole, and there while the pass
\* compresses it.
LiveWhole(n) == live[n] = NoFile \/ Whole(live[n])
ToCompress(n) == Step("pass", n) \in {"stage", "verify", "park"} => live[n] # NoFile

\* What a download finds under the name, while the pass may still bring the
\* older replay, was written in this launch: the sweep is not after it.
Recent(n) ==
  \A d \in Downloads : Step(d, n) \in {"create", "stage", "verify", "place"} /\ Pending(n) =>
    live[n] = NoFile \/ live[n].born = launch

\* A parked file is whole and not in the eye of the sweep, whose backups are
\* of calls that are done with them.
ParkedWell(n) ==
  \A c \in Calls : Step(c, n) = "install" =>
    /\ Whole(backup[n][<<c, launch>>])
    /\ live[n] = NoFile \/ backup[n][<<c, launch>>].born = launch
    /\ Pending(n) => backup[n][<<c, launch>>].born = launch
ParkedOnce(n) ==
  \A c \in Calls, l \in 1..MaxLaunches : backup[n][<<c, l>>] # NoFile =>
    l <= launch /\ (l = launch => HasParked(c, n))
SweptLate(n) ==
  \A c \in Calls :
    sweep.kind = "backup" /\ sweep.name = n /\ sweep.of = <<c, launch>> => Finished(c, n)

Kept(n) ==
  /\ old[n] = NoFile \/ Whole(old[n])
  /\ Step("pass", n) = "copied" => Held(n)
  /\ n \in owed => Whole(old[n]) \/ Held(n)

Clean(n) ==
  /\ OneStages(n) /\ StagedWell(n) /\ LiveWhole(n) /\ ToCompress(n) /\ Recent(n)
  /\ ParkedWell(n) /\ ParkedOnce(n) /\ SweptLate(n) /\ Kept(n)

Inv == Shape /\ \A n \in Names \ shared : Clean(n)

(***************************************************************************)
(* What an action does to one replay n, when the library, the backups and  *)
(* the calls that stage a copy of n stay as they are.                      *)
(***************************************************************************)

\* How a call may go on without touching what keeps n.
GoesOn(c, n) ==
  \/ Step(c, n)' = Step(c, n)
  \/ /\ Step(c, n) \notin {"install", "unpark", "over"}
     /\ Step(c, n)' \notin Stagings \cup {"create", "unpark", "copied"}
  \/ /\ Step(c, n) = "verify" /\ Step(c, n)' \in {"park", "place"}
     /\ Whole(gztmp[n]) /\ gztmp'[n] = gztmp[n]
  \/ Step(c, n) = "run" /\ Step(c, n)' = "create" /\ live[n] = NoFile

\* The sweep has not set its eye on a backup of n.
NotAfter(n) == sweep' = sweep \/ ~(sweep'.kind = "backup" /\ sweep'.name = n)

\* The pass goes on; it does not turn back to n.
PassGoesOn(n) == (Pending(n)' => Pending(n)) /\ (Passed(n) => Passed(n)')

\* A replay stays kept where no call parks, installs, restores or removes a
\* file of it.
LEMMA Calm ==
  ASSUME Shape, NEW n \in Names, Clean(n), launch' = launch, live'[n] = live[n], backup'[n] = backup[n],
         gztmp'[n] = gztmp[n] \/ gztmp'[n] = NoFile,
         old'[n] = old[n] \/ (old'[n] = NoFile /\ Held(n)),
         n \in owed' => n \in owed \/ Held(n),
         NotAfter(n), PassGoesOn(n), \A c \in Calls : GoesOn(c, n)
  PROVE  Clean(n)'
<1>1. "pass" \in Calls /\ \A d \in Downloads : d \in Calls
  BY DEF Calls
<1>2. /\ OneStages(n) /\ StagedWell(n) /\ LiveWhole(n) /\ ToCompress(n) /\ Recent(n)
      /\ ParkedWell(n) /\ ParkedOnce(n) /\ SweptLate(n) /\ Kept(n)
  BY DEF Clean
<1>3. \A c \in Calls : Step(c, n)' \in Stagings => Step(c, n) \in Stagings
  BY DEF GoesOn, Stagings
<1>4. \A c \in Calls : /\ Step(c, n)' \in {"install", "unpark", "copied"} => Step(c, n)' = Step(c, n)
                       /\ Finished(c, n) => Finished(c, n)'
                       /\ HasParked(c, n) => HasParked(c, n)'
  BY DEF GoesOn, Stagings, Finished, HasParked, PassGoesOn
<1>5. Held(n) => Held(n)'
  BY <1>4 DEF Held, Doomed, NotAfter
<1>6. OneStages(n)'
  BY <1>2, <1>3 DEF OneStages
<1>7. StagedWell(n)'
  BY <1>2, <1>3 DEF StagedWell, GoesOn, Whole, Stagings
<1>8. LiveWhole(n)' /\ ToCompress(n)'
  BY <1>1, <1>2 DEF LiveWhole, ToCompress, GoesOn, Stagings, Whole
<1>9. Recent(n)'
  BY <1>1, <1>2 DEF Recent, GoesOn, Stagings, PassGoesOn
<1>10. ParkedWell(n)'
  BY <1>2, <1>4 DEF ParkedWell, PassGoesOn, Whole
<1>11. ParkedOnce(n)'
  BY <1>2, <1>4 DEF ParkedOnce
<1>12. SweptLate(n)'
  BY <1>2, <1>4 DEF SweptLate, NotAfter
<1>13. Kept(n)'
  BY <1>1, <1>2, <1>4, <1>5 DEF Kept, Whole
<1> QED
  BY <1>6, <1>7, <1>8, <1>9, <1>10, <1>11, <1>12, <1>13 DEF Clean

(***************************************************************************)
(* The steps that do touch what keeps n.                                   *)
(***************************************************************************)

\* Every other call stays where it is with n.
OthersStay(c, n) == \A e \in Calls : e # c => Step(e, n)' = Step(e, n)

\* Call c replaces its own backup of n, and no other is touched.
OwnBackup(c, n, file) ==
  /\ backup'[n][<<c, launch>>] = file
  /\ \A e \in Calls, l \in 1..MaxLaunches :
       <<e, l>> # <<c, launch>> => backup'[n][<<e, l>>] = backup[n][<<e, l>>]

\* The legacy replay comes into the library.
LEMMA Arrives ==
  ASSUME Shape, NEW n \in Names, Clean(n), launch' = launch, Whole(live'[n]),
         backup'[n] = backup[n], gztmp'[n] = gztmp[n], old'[n] \in {old[n], NoFile}, owed' = owed, sweep' = sweep,
         Pending(n), ~Passed(n), ~Pending(n)', OthersStay("pass", n),
         Step("pass", n) \in {"migrate", "copy", "away"}, Step("pass", n)' \in {"migrate", "copied", "away"}
  PROVE  Clean(n)'
<1>1. "pass" \in Calls /\ \A d \in Downloads : d \in Calls
  BY DEF Calls
<1>2. /\ OneStages(n) /\ StagedWell(n) /\ LiveWhole(n) /\ ToCompress(n) /\ Recent(n)
      /\ ParkedWell(n) /\ ParkedOnce(n) /\ SweptLate(n) /\ Kept(n)
  BY DEF Clean
<1>3. \A c \in Calls : Step(c, n)' \in Stagings => c # "pass" /\ Step(c, n)' = Step(c, n)
  BY <1>1 DEF OthersStay, Stagings
<1>4. ~HasParked("pass", n) /\ ~Finished("pass", n)
  BY DEF HasParked, Finished
<1>5. \A c \in Calls : c # "pass" => /\ HasParked(c, n)' <=> HasParked(c, n)
                                     /\ Finished(c, n)' <=> Finished(c, n)
  BY DEF HasParked, Finished, OthersStay
<1>6. Held(n)'
  BY DEF Held
<1>7. OneStages(n)' /\ StagedWell(n)'
  BY <1>2, <1>3 DEF OneStages, StagedWell
<1>8. LiveWhole(n)' /\ ToCompress(n)' /\ Recent(n)'
  BY <1>1, <1>3 DEF LiveWhole, ToCompress, Recent, Stagings, Whole
<1>9. ParkedWell(n)'
  <2>1. \A c \in Calls : Step(c, n)' = "install" => Step(c, n) = "install"
    BY <1>3 DEF Stagings
  <2> QED
    BY <1>2, <2>1 DEF ParkedWell, Whole
<1>10. ParkedOnce(n)' /\ SweptLate(n)'
  BY <1>1, <1>2, <1>4, <1>5 DEF ParkedOnce, SweptLate
<1>11. Kept(n)'
  BY <1>2, <1>6 DEF Kept, Whole
<1> QED
  BY <1>6, <1>7, <1>8, <1>9, <1>10, <1>11 DEF Clean

\* Call c, the only one that stages n, opens the staged file or ends it.
LEMMA Stages ==
  ASSUME Apart, Shape, NEW n \in Names, Clean(n), launch' = launch, live'[n] = live[n], backup'[n] = backup[n],
         old'[n] = old[n], owed' = owed, sweep' = sweep, PassGoesOn(n), NEW c \in Calls, OthersStay(c, n),
         gztmp'[n] = NoFile \/ gztmp'[n].born = launch,
         \A e \in Calls : e # c => Step(e, n) \notin Stagings,
         Step(c, n)' \in {"stage", "verify"},
         IF c = "pass" THEN Step(c, n) \in {"compress", "away", "stage"} /\ live[n] # NoFile
                       ELSE Step(c, n) \in {"create", "stage"}
  PROVE  Clean(n)'
<1>1. "pass" \in Calls /\ \A d \in Downloads : d \in Calls
  BY DEF Calls
<1>2. /\ OneStages(n) /\ StagedWell(n) /\ LiveWhole(n) /\ ToCompress(n) /\ Recent(n)
      /\ ParkedWell(n) /\ ParkedOnce(n) /\ SweptLate(n) /\ Kept(n)
  BY DEF Clean
<1>3. \A e \in Calls : Step(e, n)' \in Stagings => e = c
  BY DEF OthersStay
<1>4. \A e \in Calls : /\ Finished(e, n) => Finished(e, n)'
                       /\ HasParked(e, n) => HasParked(e, n)'
  BY DEF Finished, HasParked, OthersStay, PassGoesOn
<1>5. \A e \in Calls : Step(e, n)' \in {"install", "unpark", "copied"} => Step(e, n)' = Step(e, n)
  BY DEF OthersStay
<1>6. Held(n) => Held(n)'
  BY <1>5 DEF Held, Doomed
<1>7. OneStages(n)' /\ StagedWell(n)'
  BY <1>3 DEF OneStages, StagedWell
<1>8. LiveWhole(n)' /\ ToCompress(n)'
  <2>1. \A e \in Calls : Step(e, n)' \in {"stage", "verify", "park"} => e = c
    BY <1>3 DEF Stagings
  <2> QED
    BY <1>1, <1>2, <2>1 DEF LiveWhole, ToCompress, Whole
<1>9. Recent(n)'
  <2>1. \A d \in Downloads : Step(d, n)' \in {"create", "stage", "verify", "place"} =>
                               \/ d = c
                               \/ Step(d, n)' = Step(d, n)
    BY <1>1 DEF OthersStay
  <2> QED
    BY <1>1, <1>2, <2>1 DEF Recent, PassGoesOn, Apart
<1>10. ParkedWell(n)'
  BY <1>2, <1>5 DEF ParkedWell, PassGoesOn, Whole
<1>11. ParkedOnce(n)' /\ SweptLate(n)'
  BY <1>2, <1>4 DEF ParkedOnce, SweptLate
<1>12. Kept(n)'
  BY <1>1, <1>2, <1>5, <1>6 DEF Kept, Whole
<1> QED
  BY <1>7, <1>8, <1>9, <1>10, <1>11, <1>12 DEF Clean

\* Call c puts what lies under the name aside.
LEMMA Parks ==
  ASSUME Apart, Shape, NEW n \in Names, Clean(n), launch' = launch, live'[n] = NoFile, gztmp'[n] = gztmp[n],
         old'[n] = old[n], owed' = owed, sweep' = sweep, PassGoesOn(n), NEW c \in Calls, OthersStay(c, n),
         live[n] # NoFile, OwnBackup(c, n, live[n]),
         Step(c, n) \in {"park", "place"}, Step(c, n)' = "install",
         IF c = "pass" THEN ~Passed(n) /\ ~Pending(n)' ELSE Step(c, n) = "place"
  PROVE  Clean(n)'
<1>1. "pass" \in Calls /\ \A d \in Downloads : d \in Calls
  BY DEF Calls
<1>2. /\ OneStages(n) /\ StagedWell(n) /\ LiveWhole(n) /\ ToCompress(n) /\ Recent(n)
      /\ ParkedWell(n) /\ ParkedOnce(n) /\ SweptLate(n) /\ Kept(n)
  BY DEF Clean
<1>3. launch \in 1..MaxLaunches /\ Whole(live[n])
  BY <1>2 DEF Shape, Typed, LiveWhole
<1>4. \A e \in Calls : e # c => Step(e, n)' \notin Stagings
  BY <1>2 DEF OneStages, OthersStay, Stagings
<1>5. ~Finished(c, n) /\ HasParked(c, n)'
  BY DEF Finished, HasParked
<1>6. \A e \in Calls : e # c => /\ Finished(e, n) => Finished(e, n)'
                                /\ HasParked(e, n) => HasParked(e, n)'
  BY DEF Finished, HasParked, OthersStay, PassGoesOn
<1>7. Held(n)'
  <2>1. ~(sweep.kind = "backup" /\ sweep.name = n /\ sweep.of = <<c, launch>>)
    BY <1>2, <1>5 DEF SweptLate
  <2>2. ~Doomed(n, c, launch)'
    BY <2>1 DEF Doomed
  <2> QED
    BY <1>3, <2>2 DEF Held, OwnBackup, Whole
<1>8. OneStages(n)' /\ StagedWell(n)'
  <2>1. gztmp[n] = NoFile \/ (gztmp[n].born = launch /\ gztmp[n].whole)
    BY <1>2 DEF StagedWell, Stagings
  <2> QED
    BY <1>4, <2>1 DEF OneStages, StagedWell
<1>9. LiveWhole(n)' /\ ToCompress(n)' /\ Recent(n)'
  BY <1>1, <1>4 DEF LiveWhole, ToCompress, Recent, Stagings
<1>10. ParkedWell(n)'
  <2>1. \A e \in Calls : Step(e, n)' = "install" => e = c
    BY <1>4 DEF Stagings
  <2>2. Pending(n)' => live[n].born = launch
    BY <1>1, <1>2 DEF Recent, PassGoesOn, Calls
  <2> QED
    BY <1>3, <2>1, <2>2 DEF ParkedWell, OwnBackup, Whole
<1>11. ParkedOnce(n)'
  <2> SUFFICES ASSUME NEW e \in Calls, NEW l \in 1..MaxLaunches, (backup[n][<<e, l>>] # NoFile)'
               PROVE  l <= launch /\ (l = launch => HasParked(e, n)')
    BY DEF ParkedOnce
  <2>1. CASE <<e, l>> = <<c, launch>>
    BY <1>3, <1>5, <2>1
  <2>2. CASE <<e, l>> # <<c, launch>>
    <3>1. l <= launch /\ (l = launch => HasParked(e, n))
      BY <1>2, <2>2 DEF ParkedOnce, OwnBackup
    <3>2. l = launch => e # c
      BY <2>2
    <3> QED
      BY <1>6, <3>1, <3>2
  <2> QED
    BY <2>1, <2>2
<1>12. SweptLate(n)'
  BY <1>2, <1>5, <1>6 DEF SweptLate
<1>13. Kept(n)'
  BY <1>2, <1>7 DEF Kept, Whole
<1> QED
  BY <1>8, <1>9, <1>10, <1>11, <1>12, <1>13 DEF Clean

\* The staged file takes the name.
LEMMA Installs ==
  ASSUME Apart, Shape, NEW n \in Names, Clean(n), launch' = launch, live'[n] = gztmp[n], gztmp'[n] = NoFile,
         backup'[n] = backup[n], old'[n] = old[n], sweep' = sweep, PassGoesOn(n),
         NEW c \in Calls, OthersStay(c, n), gztmp[n] # NoFile,
         Step(c, n) \in {"place", "install"}, Step(c, n)' \in {"unpark", "over"}
  PROVE  Clean(n)'
<1>1. "pass" \in Calls /\ \A d \in Downloads : d \in Calls
  BY DEF Calls
<1>2. /\ OneStages(n) /\ StagedWell(n) /\ LiveWhole(n) /\ ToCompress(n) /\ Recent(n)
      /\ ParkedWell(n) /\ ParkedOnce(n) /\ SweptLate(n) /\ Kept(n)
  BY DEF Clean
<1>3. Whole(live'[n]) /\ live'[n].born = launch
  BY <1>2 DEF StagedWell, Stagings, Whole
<1>4. \A e \in Calls : Step(e, n)' \notin Stagings
  BY <1>2 DEF OneStages, OthersStay, Stagings
<1>5. \A e \in Calls : /\ Finished(e, n) => Finished(e, n)'
                       /\ HasParked(e, n) => HasParked(e, n)'
  BY DEF Finished, HasParked, OthersStay, PassGoesOn
<1>6. Held(n)'
  BY <1>3 DEF Held
<1>7. OneStages(n)' /\ StagedWell(n)'
  BY <1>4 DEF OneStages, StagedWell
<1>8. LiveWhole(n)' /\ ToCompress(n)' /\ Recent(n)'
  BY <1>1, <1>3, <1>4 DEF LiveWhole, ToCompress, Recent, Stagings, Whole
<1>9. ParkedWell(n)'
  BY <1>4 DEF ParkedWell, Stagings
<1>10. ParkedOnce(n)' /\ SweptLate(n)'
  BY <1>2, <1>5 DEF ParkedOnce, SweptLate
<1>11. Kept(n)'
  BY <1>2, <1>6 DEF Kept, Whole
<1> QED
  BY <1>7, <1>8, <1>9, <1>10, <1>11 DEF Clean

\* The rename failed: what was put aside takes its name back.
LEMMA Restores ==
  ASSUME Apart, Shape, NEW n \in Names, Clean(n), launch' = launch, gztmp'[n] = gztmp[n],
         old'[n] = old[n], owed' = owed, sweep' = sweep, PassGoesOn(n), NEW c \in Calls, OthersStay(c, n),
         live'[n] = backup[n][<<c, launch>>], OwnBackup(c, n, NoFile),
         Step(c, n) = "install", Step(c, n)' \in {"compress", "over"}, Finished(c, n)'
  PROVE  Clean(n)'
<1>1. "pass" \in Calls /\ \A d \in Downloads : d \in Calls
  BY DEF Calls
<1>2. /\ OneStages(n) /\ StagedWell(n) /\ LiveWhole(n) /\ ToCompress(n) /\ Recent(n)
      /\ ParkedWell(n) /\ ParkedOnce(n) /\ SweptLate(n) /\ Kept(n)
  BY DEF Clean
<1>3. Whole(live'[n]) /\ (Pending(n)' => live'[n].born = launch)
  BY <1>2 DEF ParkedWell, PassGoesOn
<1>4. \A e \in Calls : Step(e, n)' \notin Stagings
  BY <1>2 DEF OneStages, OthersStay, Stagings
<1>5. \A e \in Calls : /\ Finished(e, n) => Finished(e, n)'
                       /\ e # c => (HasParked(e, n) => HasParked(e, n)')
  BY DEF Finished, HasParked, OthersStay, PassGoesOn
<1>6. Held(n)'
  BY <1>3 DEF Held
<1>7. OneStages(n)' /\ StagedWell(n)'
  BY <1>4 DEF OneStages, StagedWell
<1>8. LiveWhole(n)' /\ ToCompress(n)' /\ Recent(n)'
  BY <1>1, <1>3, <1>4 DEF LiveWhole, ToCompress, Recent, Stagings, Whole
<1>9. ParkedWell(n)'
  BY <1>4 DEF ParkedWell, Stagings
<1>10. ParkedOnce(n)'
  BY <1>2, <1>5 DEF ParkedOnce, OwnBackup
<1>11. SweptLate(n)'
  BY <1>2, <1>5 DEF SweptLate
<1>12. Kept(n)'
  BY <1>2, <1>6 DEF Kept, Whole
<1> QED
  BY <1>7, <1>8, <1>9, <1>10, <1>11, <1>12 DEF Clean

\* What was put aside goes, now that the new file has the name.
LEMMA Unparks ==
  ASSUME Shape, NEW n \in Names, Clean(n), launch' = launch, gztmp'[n] = gztmp[n], live'[n] = live[n],
         old'[n] = old[n], owed' = owed, sweep' = sweep, PassGoesOn(n), NEW c \in Calls, OthersStay(c, n),
         OwnBackup(c, n, NoFile), Step(c, n) = "unpark", Step(c, n)' \in {"compress", "over"}, Finished(c, n)'
  PROVE  Clean(n)'
<1>1. "pass" \in Calls /\ \A d \in Downloads : d \in Calls
  BY DEF Calls
<1>2. /\ OneStages(n) /\ StagedWell(n) /\ LiveWhole(n) /\ ToCompress(n) /\ Recent(n)
      /\ ParkedWell(n) /\ ParkedOnce(n) /\ SweptLate(n) /\ Kept(n)
  BY DEF Clean
<1>3. \A e \in Calls : \/ Step(e, n)' = Step(e, n) /\ e # c
                       \/ Step(e, n)' \notin Stagings \cup {"create", "unpark", "copied"}
  BY DEF OthersStay, Stagings
<1>4. \A e \in Calls : /\ Finished(e, n) => Finished(e, n)'
                       /\ e # c => (HasParked(e, n) => HasParked(e, n)')
  BY DEF Finished, HasParked, OthersStay, PassGoesOn
<1>5. Held(n) => Held(n)'
  <2> SUFFICES ASSUME NEW e \in Calls, NEW l \in 1..MaxLaunches, Whole(backup[n][<<e, l>>]), ~Doomed(n, e, l)
               PROVE  Held(n)'
    BY DEF Held
  <2>1. <<e, l>> # <<c, launch>>
    BY DEF Doomed
  <2>2. Whole(backup[n][<<e, l>>])'
    BY <2>1 DEF OwnBackup, Whole
  <2>3. ~Doomed(n, e, l)'
    BY <1>3 DEF Doomed, Stagings
  <2> QED
    BY <2>2, <2>3 DEF Held
<1>6. OneStages(n)' /\ StagedWell(n)'
  BY <1>2, <1>3 DEF OneStages, StagedWell
<1>7. LiveWhole(n)' /\ ToCompress(n)' /\ Recent(n)'
  BY <1>1, <1>2, <1>3 DEF LiveWhole, ToCompress, Recent, Stagings, Whole, PassGoesOn
<1>8. ParkedWell(n)'
  <2> SUFFICES ASSUME NEW e \in Calls, Step(e, n)' = "install"
               PROVE  /\ (Whole(backup[n][<<e, launch>>]))'
                      /\ (live[n] = NoFile \/ backup[n][<<e, launch>>].born = launch)'
                      /\ Pending(n)' => (backup[n][<<e, launch>>].born = launch)'
    BY DEF ParkedWell
  <2>1. Step(e, n) = "install" /\ e # c
    BY <1>3 DEF Stagings
  <2>2. backup'[n][<<e, launch>>] = backup[n][<<e, launch>>]
    BY <2>1 DEF OwnBackup, Shape, Typed
  <2> QED
    BY <1>2, <2>1, <2>2 DEF ParkedWell, PassGoesOn, Whole
<1>9. ParkedOnce(n)'
  BY <1>2, <1>4 DEF ParkedOnce, OwnBackup
<1>10. SweptLate(n)'
  BY <1>2, <1>4 DEF SweptLate
<1>11. Kept(n)'
  BY <1>1, <1>2, <1>3, <1>5 DEF Kept, Whole
<1> QED
  BY <1>6, <1>7, <1>8, <1>9, <1>10, <1>11 DEF Clean

\* The sweep sets its eye on a backup of an earlier launch, beside the file
\* it was made from.
LEMMA Eyes ==
  ASSUME Shape, NEW n \in Names, Clean(n), launch' = launch, gztmp' = gztmp, live' = live, backup' = backup,
         old' = old, owed' = owed, pass' = pass, dl' = dl,
         live[n] # NoFile, NEW x \in Suffixes, sweep'.of = x,
         backup[n][x] # NoFile, OldEnough(backup[n][x])
  PROVE  Clean(n)'
<1>1. launch \in Nat
  BY DEF Shape, Typed
<1>2. /\ OneStages(n) /\ StagedWell(n) /\ LiveWhole(n) /\ ToCompress(n) /\ Recent(n)
      /\ ParkedWell(n) /\ ParkedOnce(n) /\ SweptLate(n) /\ Kept(n)
  BY DEF Clean
<1>3. \A e \in Calls : Step(e, n)' = Step(e, n)
  BY DEF Step
<1>4. (Pending(n)' <=> Pending(n)) /\ (Passed(n)' <=> Passed(n))
  BY DEF Pending, Passed
<1>5. \A e \in Calls : (Finished(e, n)' <=> Finished(e, n)) /\ (HasParked(e, n)' <=> HasParked(e, n))
  BY <1>3, <1>4 DEF Finished, HasParked
<1>6. Held(n)'
  BY <1>2 DEF Held, LiveWhole
<1>7. OneStages(n)' /\ StagedWell(n)'
  BY <1>2, <1>3 DEF OneStages, StagedWell
<1>8. LiveWhole(n)' /\ ToCompress(n)'
  BY <1>2, <1>3 DEF LiveWhole, ToCompress, Whole, Calls
<1>9. Recent(n)' /\ ParkedWell(n)' /\ ParkedOnce(n)'
  BY <1>2, <1>3, <1>4, <1>5 DEF Recent, ParkedWell, ParkedOnce, Whole, Calls
<1>10. SweptLate(n)'
  <2> SUFFICES ASSUME NEW c \in Calls, x = <<c, launch>>
               PROVE  Finished(c, n)
    BY <1>5 DEF SweptLate
  <2>1. Step(c, n) # "install"
    BY <1>1, <1>2 DEF ParkedWell, OldEnough
  <2>2. HasParked(c, n)
    BY <1>2 DEF ParkedOnce, Shape, Typed
  <2> QED
    BY <2>1, <2>2 DEF HasParked
<1>11. Kept(n)'
  BY <1>2, <1>6 DEF Kept, Whole
<1> QED
  BY <1>7, <1>8, <1>9, <1>10, <1>11 DEF Clean

\* The sweep removes the backup of n it has its eye on.
LEMMA Sweeps ==
  ASSUME Apart, Shape, NEW n \in Names, Clean(n), launch' = launch, gztmp' = gztmp, live' = live,
         old' = old, owed' = owed, pass' = pass, dl' = dl,
         sweep.kind = "backup", sweep.name = n, sweep'.kind # "backup",
         \A x \in Suffixes : x # sweep.of => backup'[n][x] = backup[n][x],
         backup'[n][sweep.of] = NoFile
  PROVE  Clean(n)'
<1>1. launch \in 1..MaxLaunches /\ n # NoName /\ n \in Names
  BY DEF Shape, Typed, Apart
<1>2. /\ OneStages(n) /\ StagedWell(n) /\ LiveWhole(n) /\ ToCompress(n) /\ Recent(n)
      /\ ParkedWell(n) /\ ParkedOnce(n) /\ SweptLate(n) /\ Kept(n)
  BY DEF Clean
<1>3. \A e \in Calls : Step(e, n)' = Step(e, n)
  BY DEF Step
<1>4. (Pending(n)' <=> Pending(n)) /\ (Passed(n)' <=> Passed(n))
  BY DEF Pending, Passed
<1>5. \A e \in Calls : (Finished(e, n)' <=> Finished(e, n)) /\ (HasParked(e, n)' <=> HasParked(e, n))
  BY <1>3, <1>4 DEF Finished, HasParked
<1>6. \A e \in Calls, l \in 1..MaxLaunches :
         \/ sweep.of = <<e, l>> /\ backup'[n][<<e, l>>] = NoFile
         \/ sweep.of # <<e, l>> /\ backup'[n][<<e, l>>] = backup[n][<<e, l>>]
  BY DEF Suffixes, Calls
<1>7. Held(n) => Held(n)'
  BY <1>3, <1>6 DEF Held, Doomed
<1>8. OneStages(n)' /\ StagedWell(n)'
  BY <1>2, <1>3 DEF OneStages, StagedWell
<1>9. LiveWhole(n)' /\ ToCompress(n)' /\ Recent(n)'
  BY <1>2, <1>3, <1>4 DEF LiveWhole, ToCompress, Recent, Whole, Calls
<1>10. ParkedWell(n)'
  <2> SUFFICES ASSUME NEW e \in Calls, Step(e, n)' = "install"
               PROVE  /\ (Whole(backup[n][<<e, launch>>]))'
                      /\ (live[n] = NoFile \/ backup[n][<<e, launch>>].born = launch)'
                      /\ Pending(n)' => (backup[n][<<e, launch>>].born = launch)'
    BY DEF ParkedWell
  <2>1. Step(e, n) = "install"
    BY <1>3
  <2>2. ~Finished(e, n)
    BY <1>1, <2>1 DEF Finished, Passed, Step, Shape, InHand, Calls
  <2>3. backup'[n][<<e, launch>>] = backup[n][<<e, launch>>]
    BY <1>1, <1>2, <1>6, <2>2 DEF SweptLate
  <2> QED
    BY <1>2, <1>4, <2>1, <2>3 DEF ParkedWell, Whole
<1>11. ParkedOnce(n)' /\ SweptLate(n)'
  BY <1>2, <1>5, <1>6 DEF ParkedOnce, SweptLate
<1>12. Kept(n)'
  BY <1>2, <1>3, <1>7 DEF Kept, Whole, Calls
<1> QED
  BY <1>8, <1>9, <1>10, <1>11, <1>12 DEF Clean

\* A kill leaves the files as they are, and no call in between.
LEMMA Killed ==
  ASSUME Apart, Shape, NEW n \in Names, Clean(n), Kill
  PROVE  Clean(n)'
<1>1. launch \in Nat /\ launch' = launch + 1 /\ n # NoName
  BY DEF Kill, Shape, Typed, Apart
<1>2. /\ OneStages(n) /\ StagedWell(n) /\ LiveWhole(n) /\ ToCompress(n) /\ Recent(n)
      /\ ParkedWell(n) /\ ParkedOnce(n) /\ SweptLate(n) /\ Kept(n)
  BY DEF Clean
<1>3. \A e \in Calls : Step(e, n)' = "away"
  BY <1>1 DEF Kill, Step, Calls, NoPass, NoDownload
<1>4. sweep'.kind # "backup" /\ UNCHANGED <<old, live, gztmp, backup, owed>>
  BY DEF Kill, NoSweep
<1>5. Held(n) => Held(n)'
  BY <1>3, <1>4 DEF Held, Doomed, Whole
<1>6. OneStages(n)' /\ StagedWell(n)' /\ ToCompress(n)' /\ Recent(n)' /\ ParkedWell(n)'
  BY <1>3 DEF OneStages, StagedWell, ToCompress, Recent, ParkedWell, Stagings, Calls
<1>7. LiveWhole(n)' /\ SweptLate(n)'
  BY <1>2, <1>4 DEF LiveWhole, SweptLate, Whole
<1>8. ParkedOnce(n)'
  BY <1>1, <1>2, <1>4 DEF ParkedOnce
<1>9. Kept(n)'
  BY <1>2, <1>3, <1>4, <1>5 DEF Kept, Calls, Whole
<1> QED
  BY <1>6, <1>7, <1>8, <1>9 DEF Clean

(***************************************************************************)
(* The types, and what a call has in hand.                                 *)
(***************************************************************************)

\* The files the operations make.
LEMMA Files ==
  ASSUME Apart, Typed
  PROVE  /\ NoFile \in File
         /\ \A b \in Nat : /\ Plain(b) \in File /\ Whole(Plain(b))
                           /\ [Plain(b) EXCEPT !.whole = FALSE] \in File
         /\ \A c \in Calls \cup {Both} : Opened(c) \in File /\ Opened(c).born = launch
<1>1. NoFile \in File
  BY DEF NoFile, File
<1>2. ASSUME NEW b \in Nat
      PROVE  Plain(b) \in File /\ Whole(Plain(b)) /\ [Plain(b) EXCEPT !.whole = FALSE] \in File
  BY DEF Plain, File, Whole, NoFile
<1>3. ASSUME NEW c \in Calls \cup {Both}
      PROVE  Opened(c) \in File /\ Opened(c).born = launch
  BY DEF Opened, File, Typed
<1> QED
  BY <1>1, <1>2, <1>3

LEMMA InitShape ==
  ASSUME Apart, Init
  PROVE  Shape
<1>1. NoFile \in File /\ Plain(0) \in File
  BY DEF NoFile, Plain, File
<1>2. \A n \in Names : (IF n \in Legacy THEN Plain(0) ELSE NoFile) \in File
  BY <1>1
<1>3. /\ old \in [Names -> File] /\ live \in [Names -> File] /\ gztmp \in [Names -> File]
      /\ scratch \in [Names -> File]
  BY <1>1, <1>2 DEF Init
<1>4. backup \in [Names -> [Suffixes -> File]]
  BY <1>1 DEF Init
<1>5. pass \in [pc : PassSteps, todo : SUBSET Names, name : Names \cup {NoName, "started"}, gen : Nat]
  BY DEF Init, NoPass, PassSteps
<1>6. dl \in [Downloads -> [pc : DlSteps, name : Names \cup {NoName}, gen : Nat]]
  BY DEF Init, NoDownload, DlSteps
<1>7. Typed
  BY <1>3, <1>4, <1>5, <1>6 DEF Init, Typed, Apart, SweepKinds, NoSweep, Names
<1>8. InHand
  BY DEF Init, InHand, NoPass, NoDownload, NoSweep
<1> QED
  BY <1>7, <1>8 DEF Shape

\* The staged file as the call opens it.
LEMMA OpenedShape ==
  ASSUME Apart, Typed, NEW c \in Calls, NEW n \in Names, temp_sibling_path(c, n)
  PROVE  /\ gztmp' \in [Names -> File] /\ gztmp'[n].born = launch
         /\ \A m \in Names \ {n} : gztmp'[m] = gztmp[m]
         /\ shared' \subseteq Names /\ shared \subseteq shared'
         /\ n \notin shared' => Staging(n) = {}
<1> DEFINE by == IF gztmp[n].by # c /\ Writing(gztmp[n].by) THEN Both ELSE c
<1>1. by \in Calls \cup {Both}
  OBVIOUS
<1>2. gztmp' = [gztmp EXCEPT ![n] = Opened(by)]
  BY DEF temp_sibling_path
<1>3. Opened(by) \in File /\ Opened(by).born = launch
  BY <1>1, Files
<1>4. gztmp' \in [Names -> File] /\ gztmp'[n].born = launch /\ \A m \in Names \ {n} : gztmp'[m] = gztmp[m]
  <2> HIDE DEF by
  <2> QED
    BY <1>2, <1>3 DEF Typed
<1>5. shared' \subseteq Names /\ shared \subseteq shared' /\ (n \notin shared' => Staging(n) = {})
  BY DEF temp_sibling_path, Typed
<1> QED
  BY <1>4, <1>5

\* The staged file as the call ends it; what lies whole under the name is
\* nobody's open file.
LEMMA EndedShape ==
  ASSUME Apart, Typed, NEW c \in Calls, NEW n \in Names, NEW good \in BOOLEAN, compress_file_to_temp(c, n, good)
  PROVE  /\ gztmp' \in [Names -> File] /\ live' \in [Names -> File]
         /\ gztmp'[n].born = gztmp[n].born
         /\ \A m \in Names \ {n} : gztmp'[m] = gztmp[m] /\ live'[m] = live[m]
         /\ live[n] = NoFile \/ Whole(live[n]) => live'[n] = live[n]
         /\ gztmp[n] = NoFile => gztmp'[n] = NoFile
<1> DEFINE Ended(file) == IF file.by = c /\ file.born = launch
                          THEN [file EXCEPT !.whole = good, !.by = Closed] ELSE file
<1>1. ASSUME NEW f \in File
      PROVE  /\ Ended(f) \in File /\ Ended(f).born = f.born
             /\ f = NoFile \/ Whole(f) => Ended(f) = f
  <2>1. Ended(f) \in File /\ Ended(f).born = f.born
    BY DEF File
  <2>2. ASSUME f = NoFile
        PROVE  Ended(f) = f
    BY <2>2 DEF NoFile, Typed
  <2>3. ASSUME Whole(f)
        PROVE  Ended(f) = f
    BY <2>3 DEF Whole, File, Calls, Apart, Closed
  <2> QED
    BY <2>1, <2>2, <2>3
<1>2. gztmp' = [gztmp EXCEPT ![n] = Ended(gztmp[n])] /\ live' = [live EXCEPT ![n] = Ended(live[n])]
  BY DEF compress_file_to_temp
<1>3. gztmp[n] \in File /\ live[n] \in File
  BY DEF Typed
<1> HIDE DEF Ended
<1> QED
  BY <1>1, <1>2, <1>3 DEF Typed

(***************************************************************************)
(* Where the calls go.                                                     *)
(***************************************************************************)

\* A call that does nothing more stays where it is.
LEMMA NobodyMoves ==
  ASSUME NEW n \in Names, pass' = pass, dl' = dl
  PROVE  PassGoesOn(n) /\ \A c \in Calls : Step(c, n)' = Step(c, n)
BY DEF PassGoesOn, Pending, Passed, Step

\* The pass moves: the downloads stay.
LEMMA PassMoves ==
  ASSUME NEW n \in Names, dl' = dl
  PROVE  /\ OthersStay("pass", n)
         /\ Step("pass", n) = IF pass.name = n THEN pass.pc ELSE "away"
         /\ Step("pass", n)' = IF pass'.name = n THEN pass'.pc ELSE "away"
BY DEF OthersStay, Step

\* A download moves: the pass and the others stay.
LEMMA DownloadMoves ==
  ASSUME Apart, Typed, NEW d \in Downloads, NEW t \in DlSteps, pass' = pass, At(d, t)
  PROVE  /\ dl' \in [Downloads -> [pc : DlSteps, name : Names \cup {NoName}, gen : Nat]]
         /\ \A e \in Downloads : dl'[e].name = dl[e].name /\ dl'[e].gen = dl[e].gen
         /\ dl'[d].pc = t /\ \A e \in Downloads \ {d} : dl'[e] = dl[e]
         /\ d \in Calls /\ d # "pass"
         /\ \A n \in Names : /\ PassGoesOn(n) /\ OthersStay(d, n)
                             /\ Pending(n)' = Pending(n) /\ Passed(n)' = Passed(n)
                             /\ IF dl[d].name = n THEN Step(d, n) = dl[d].pc /\ Step(d, n)' = t
                                ELSE Step(d, n)' = Step(d, n)
<1>1. /\ dl' \in [Downloads -> [pc : DlSteps, name : Names \cup {NoName}, gen : Nat]]
      /\ \A e \in Downloads : dl'[e].name = dl[e].name /\ dl'[e].gen = dl[e].gen
      /\ dl'[d].pc = t /\ \A e \in Downloads \ {d} : dl'[e] = dl[e]
  BY DEF At, Typed
<1>2. d \in Calls /\ d # "pass"
  BY DEF Calls, Apart
<1>3. ASSUME NEW n \in Names
      PROVE  PassGoesOn(n) /\ Pending(n)' = Pending(n) /\ Passed(n)' = Passed(n)
  BY DEF PassGoesOn, Pending, Passed
<1>4. ASSUME NEW n \in Names
      PROVE  OthersStay(d, n)
  BY <1>1 DEF OthersStay, Step, Calls
<1>5. ASSUME NEW n \in Names
      PROVE  IF dl[d].name = n THEN Step(d, n) = dl[d].pc /\ Step(d, n)' = t
             ELSE Step(d, n)' = Step(d, n)
  BY <1>1, <1>2 DEF Step
<1> QED
  BY <1>1, <1>2, <1>3, <1>4, <1>5

\* Where each call can be with a replay, and the pass when it holds one.
LEMMA Places ==
  ASSUME Apart, Shape, NEW n \in Names
  PROVE  /\ \A d \in Downloads : Step(d, n) \in DlSteps \cup {"away"}
         /\ Step("pass", n) \in PassSteps \cup {"away"}
         /\ pass.pc \notin {"idle", "migrate", "compress"} => ~Passed(pass.name) /\ pass.name \in Names
         /\ pass.pc # "idle" => pass.name # NoName
BY DEF Shape, Typed, InHand, Step, Passed, Apart

\* Between the guards no call stages a copy of n, so far as no two ever did.
LEMMA NoneStages ==
  ASSUME Apart, Shape, NEW n \in Names, Staging(n) = {}
  PROVE  \A c \in Calls : Step(c, n) \notin Stagings
<1>1. \A d \in Downloads : Step(d, n) \notin Stagings
  <2> SUFFICES ASSUME NEW d \in Downloads, Step(d, n) \in Stagings
               PROVE  d \in Staging(n)
    OBVIOUS
  <2>1. dl[d].name = n /\ dl[d].pc = Step(d, n)
    BY DEF Step, Stagings, Apart
  <2>2. dl[d].pc \in {"stage", "verify", "place", "install"}
    BY <2>1 DEF Stagings, Shape, Typed, DlSteps
  <2> QED
    BY <2>1, <2>2 DEF Staging
<1>2. Step("pass", n) \notin Stagings
  <2> SUFFICES ASSUME Step("pass", n) \in Stagings
               PROVE  "pass" \in Staging(n)
    OBVIOUS
  <2>1. pass.name = n /\ pass.pc = Step("pass", n)
    BY DEF Step, Stagings
  <2>2. pass.pc \in {"stage", "verify", "park", "install"}
    BY <2>1 DEF Stagings, Shape, Typed, PassSteps
  <2> QED
    BY <2>1, <2>2 DEF Staging
<1> QED
  BY <1>1, <1>2 DEF Calls

(***************************************************************************)
(* The startup pass.                                                       *)
(***************************************************************************)

LEMMA StartPassKeeps ==
  ASSUME Apart, Inv, StartPass
  PROVE  Inv'
<1>1. Shape /\ \A n \in Names \ shared : Clean(n)
  BY DEF Inv
<1>2. Shape'
  <2>1. {n \in Names : old[n] # NoFile} \in SUBSET Names
    OBVIOUS
  <2>2. pass' \in [pc : PassSteps, todo : SUBSET Names, name : Names \cup {NoName, "started"}, gen : Nat]
    BY <1>1, <2>1 DEF StartPass, Shape, Typed, PassSteps
  <2>3. Typed'
    BY <1>1, <2>2 DEF Shape, Typed, StartPass
  <2>4. InHand'
    BY <1>1 DEF Shape, InHand, StartPass, NoName
  <2> QED
    BY <2>3, <2>4 DEF Shape
<1>3. ASSUME NEW n \in Names \ shared'
      PROVE  Clean(n)'
  <2>1. UNCHANGED <<old, live, gztmp, scratch, backup, gen, launch, dl, sweep, owed, shared>>
    BY DEF StartPass
  <2>2. Clean(n) /\ n \in Names
    BY <1>1, <2>1
  <2>3. PassGoesOn(n) /\ Step("pass", n)' \in {"migrate", "away"} /\ Step("pass", n) = "away"
    BY <2>2 DEF StartPass, PassGoesOn, Pending, Passed, Step, Apart
  <2>4. \A c \in Calls : GoesOn(c, n)
    BY <2>1, <2>2, <2>3, PassMoves DEF GoesOn, OthersStay, Stagings
  <2> QED
    BY <1>1, <2>1, <2>2, <2>3, <2>4, Calm DEF NotAfter
<1> QED
  BY <1>2, <1>3 DEF Inv

\* The legacy replays, one by one: whatever is dropped is in the library.
LEMMA MigrateKeeps ==
  ASSUME Apart, Inv, migrate_live_chat_files
  PROVE  Inv'
<1>1. Shape /\ \A n \in Names \ shared : Clean(n)
  BY DEF Inv
<1>2. /\ pass.pc = "migrate" /\ pass.name # NoName
      /\ UNCHANGED <<gztmp, backup, gen, launch, dl, sweep, owed, shared>>
  BY <1>1 DEF migrate_live_chat_files, Shape, InHand
<1> DEFINE Turned == /\ \E todo \in SUBSET Names : pass' = [pass EXCEPT !.pc = "compress", !.todo = todo]
                     /\ UNCHANGED <<old, live, scratch>>
           Dropped(m) == /\ live[m] # NoFile
                         /\ old' = [old EXCEPT ![m] = NoFile]
                         /\ pass' = [pass EXCEPT !.todo = @ \ {m}]
                         /\ UNCHANGED <<live, scratch>>
           Renamed(m) == /\ live[m] = NoFile
                         /\ live' = [live EXCEPT ![m] = old[m]]
                         /\ old' = [old EXCEPT ![m] = NoFile]
                         /\ pass' = [pass EXCEPT !.todo = @ \ {m}]
                         /\ UNCHANGED scratch
           Copied(m) == /\ pass.gen = gen
                        /\ scratch' = [scratch EXCEPT ![m] = [Plain(launch) EXCEPT !.whole = FALSE]]
                        /\ live' = live
                        /\ pass' = [pass EXCEPT !.pc = "copy", !.name = m]
                        /\ UNCHANGED old
<1>3. Turned \/ \E m \in pass.todo : Dropped(m) \/ Renamed(m) \/ Copied(m)
  <2>1. CASE pass.todo = {}
    <3>1. {n \in Names : live[n] # NoFile} \in SUBSET Names
      OBVIOUS
    <3> QED
      BY <2>1, <3>1 DEF migrate_live_chat_files
  <2>2. CASE pass.todo # {}
    <3>1. {n \in Names : live[n] # NoFile} \in SUBSET Names
      OBVIOUS
    <3> QED
      BY <2>2, <3>1 DEF migrate_live_chat_files, file_guard, InLibrary, CopyStaged
  <2> QED
    BY <2>1, <2>2
<1>4. NoFile \in File /\ [Plain(launch) EXCEPT !.whole = FALSE] \in File
  BY <1>1, Files DEF Shape, Typed
<1>5. CASE Turned
  <2>1. Shape'
    BY <1>1, <1>2, <1>5 DEF Shape, Typed, InHand, PassSteps
  <2>2. ASSUME NEW n \in Names \ shared'
        PROVE  Clean(n)'
    <3>1. PassGoesOn(n) /\ Step("pass", n)' \in {"compress", "away"} /\ Step("pass", n) \in {"migrate", "away"}
      BY <1>1, <1>2, <1>5 DEF PassGoesOn, Pending, Passed, Step, Shape, Typed
    <3>2. \A c \in Calls : GoesOn(c, n)
      BY <1>2, <3>1, PassMoves DEF GoesOn, OthersStay, Stagings
    <3> QED
      BY <1>1, <1>2, <1>5, <3>1, <3>2, Calm DEF NotAfter
  <2> QED
    BY <2>1, <2>2 DEF Inv
<1>6. ASSUME NEW m \in pass.todo, Dropped(m)
      PROVE  Inv'
  <2>1. Shape'
    BY <1>1, <1>2, <1>4, <1>6 DEF Shape, Typed, InHand, PassSteps
  <2>2. ASSUME NEW n \in Names \ shared'
        PROVE  Clean(n)'
    <3>1. PassGoesOn(n) /\ Step("pass", n)' = Step("pass", n)
      BY <1>1, <1>2, <1>6 DEF PassGoesOn, Pending, Passed, Step, Shape, Typed
    <3>2. \A c \in Calls : GoesOn(c, n)
      BY <1>2, <3>1, PassMoves DEF GoesOn, OthersStay
    <3>3. Clean(n) /\ n \in Names
      BY <1>1, <1>2
    <3>4. old'[n] = old[n] \/ (old'[n] = NoFile /\ Held(n))
      BY <1>1, <1>6, <3>3 DEF Shape, Typed, Clean, LiveWhole, Held
    <3> QED
      BY <1>1, <1>2, <1>6, <3>1, <3>2, <3>3, <3>4, Calm DEF NotAfter
  <2> QED
    BY <2>1, <2>2 DEF Inv
<1>7. ASSUME NEW m \in pass.todo, Renamed(m)
      PROVE  Inv'
  <2>1. Shape'
    BY <1>1, <1>2, <1>4, <1>7 DEF Shape, Typed, InHand, PassSteps
  <2>2. ASSUME NEW n \in Names \ shared'
        PROVE  Clean(n)'
    <3>1. Clean(n) /\ n \in Names
      BY <1>1, <1>2
    <3>2. PassGoesOn(n) /\ Step("pass", n)' = Step("pass", n) /\ Step("pass", n) \in {"migrate", "away"}
      BY <1>1, <1>2, <1>7 DEF PassGoesOn, Pending, Passed, Step, Shape, Typed
    <3>3. CASE n = m /\ old[n] # NoFile
      <4>1. Whole(live'[n]) /\ old'[n] = NoFile
        BY <1>1, <1>7, <3>1, <3>3 DEF Clean, Kept, Shape, Typed
      <4>2. Pending(n) /\ ~Passed(n) /\ ~Pending(n)'
        BY <1>1, <1>2, <1>7, <3>3 DEF Pending, Passed, Shape, Typed
      <4>3. OthersStay("pass", n)
        BY <1>2, <3>1, PassMoves
      <4> QED
        BY <1>1, <1>2, <1>7, <3>1, <3>2, <4>1, <4>2, <4>3, Arrives
    <3>4. CASE n # m \/ old[n] = NoFile
      <4>1. live'[n] = live[n] /\ old'[n] = old[n]
        BY <1>1, <1>7, <3>1, <3>4 DEF Shape, Typed
      <4>2. \A c \in Calls : GoesOn(c, n)
        BY <1>2, <3>2, PassMoves DEF GoesOn, OthersStay
      <4> QED
        BY <1>1, <1>2, <3>1, <3>2, <4>1, <4>2, Calm DEF NotAfter
    <3> QED
      BY <3>3, <3>4
  <2> QED
    BY <2>1, <2>2 DEF Inv
<1>8. ASSUME NEW m \in pass.todo, Copied(m)
      PROVE  Inv'
  <2>1. Shape'
    BY <1>1, <1>2, <1>4, <1>8 DEF Shape, Typed, InHand, PassSteps, Apart
  <2>2. ASSUME NEW n \in Names \ shared'
        PROVE  Clean(n)'
    <3>1. Clean(n) /\ n \in Names
      BY <1>1, <1>2
    <3>2. /\ PassGoesOn(n) /\ Step("pass", n)' \in {"copy", "away"}
          /\ Step("pass", n) \in {"migrate", "away"}
      BY <1>1, <1>2, <1>8 DEF PassGoesOn, Pending, Passed, Step, Shape, Typed, Apart
    <3>3. \A c \in Calls : GoesOn(c, n)
      BY <1>2, <3>2, PassMoves DEF GoesOn, OthersStay, Stagings
    <3> QED
      BY <1>1, <1>2, <1>8, <3>1, <3>2, <3>3, Calm DEF NotAfter
  <2> QED
    BY <2>1, <2>2 DEF Inv
<1> QED
  BY <1>3, <1>5, <1>6, <1>7, <1>8

\* The copy from another volume takes the name whole.
LEMMA CopyKeeps ==
  ASSUME Apart, Inv, CopyRenamed
  PROVE  Inv'
<1>1. Shape /\ \A n \in Names \ shared : Clean(n)
  BY DEF Inv
<1>2. /\ pass.pc = "copy" /\ pass.name \in pass.todo /\ pass.name \in Names /\ pass.gen = gen
      /\ launch \in Nat /\ NoFile \in File /\ pass.name # NoName
      /\ UNCHANGED <<old, gztmp, backup, gen, launch, dl, sweep, owed, shared>>
  BY <1>1, Files DEF CopyRenamed, Shape, InHand, Typed, Apart
<1>3. scratch' \in [Names -> File]
  BY <1>1, <1>2 DEF CopyRenamed, Shape, Typed
<1>4. CASE live' = [live EXCEPT ![pass.name] = Plain(launch)] /\ pass' = [pass EXCEPT !.pc = "copied"]
  <2>1. Plain(launch) \in File /\ Whole(Plain(launch))
    BY <1>1, <1>2, Files DEF Shape
  <2>2. Shape'
    BY <1>1, <1>2, <1>3, <1>4, <2>1 DEF Shape, Typed, InHand, PassSteps
  <2>3. ASSUME NEW n \in Names \ shared'
        PROVE  Clean(n)'
    <3>1. Clean(n) /\ n \in Names
      BY <1>1, <1>2
    <3>2. /\ Step("pass", n) \in {"copy", "away"} /\ Step("pass", n)' \in {"copied", "away"}
          /\ OthersStay("pass", n) /\ ~Passed(n) /\ ~Passed(n)'
      BY <1>1, <1>2, <1>4, PassMoves DEF Passed, Shape, Typed
    <3>3. CASE n = pass.name
      <4>1. Whole(live'[n])
        BY <1>1, <1>4, <2>1, <3>3 DEF Shape, Typed
      <4>2. Pending(n) /\ ~Pending(n)'
        BY <1>1, <1>2, <1>4, <3>3 DEF Pending, Shape, Typed
      <4> QED
        BY <1>1, <1>2, <3>1, <3>2, <4>1, <4>2, Arrives
    <3>4. CASE n # pass.name
      <4>1. live'[n] = live[n]
        BY <1>1, <1>4, <3>4 DEF Shape, Typed
      <4>2. PassGoesOn(n) /\ Step("pass", n)' = Step("pass", n)
        BY <1>1, <1>2, <1>4, <3>2, <3>4 DEF PassGoesOn, Pending, Step, Shape, Typed
      <4>3. \A c \in Calls : GoesOn(c, n)
        BY <3>2, <4>2 DEF GoesOn, OthersStay
      <4> QED
        BY <1>1, <1>2, <3>1, <4>1, <4>2, <4>3, Calm DEF NotAfter
    <3> QED
      BY <3>3, <3>4
  <2> QED
    BY <2>2, <2>3 DEF Inv
<1>5. CASE live' = live /\ PassEnds
  <2>1. Shape'
    BY <1>1, <1>2, <1>3, <1>5 DEF Shape, Typed, InHand, PassSteps, PassEnds
  <2>2. ASSUME NEW n \in Names \ shared'
        PROVE  Clean(n)'
    <3>1. Clean(n) /\ n \in Names
      BY <1>1, <1>2
    <3>2. /\ Step("pass", n) \in {"copy", "away"} /\ Step("pass", n)' \in {"idle", "away"}
          /\ OthersStay("pass", n) /\ PassGoesOn(n)
      BY <1>1, <1>2, <1>5, PassMoves DEF PassGoesOn, Passed, Pending, Shape, Typed, PassEnds
    <3>3. \A c \in Calls : GoesOn(c, n)
      BY <3>2 DEF GoesOn, OthersStay, Stagings
    <3> QED
      BY <1>1, <1>2, <1>5, <3>1, <3>2, <3>3, Calm DEF NotAfter
  <2> QED
    BY <2>1, <2>2 DEF Inv
<1> QED
  BY <1>2, <1>4, <1>5 DEF CopyRenamed, InLibrary

\* Only then the source goes.
LEMMA SourceKeeps ==
  ASSUME Apart, Inv, SourceDropped
  PROVE  Inv'
<1>1. Shape /\ \A n \in Names \ shared : Clean(n)
  BY DEF Inv
<1>2. /\ pass.pc = "copied" /\ pass.name \in pass.todo /\ pass.name \in Names
      /\ NoFile \in File /\ pass.name # NoName
      /\ pass' = [pass EXCEPT !.pc = "migrate", !.todo = @ \ {pass.name}]
      /\ UNCHANGED <<live, gztmp, scratch, backup, gen, launch, dl, sweep, owed, shared>>
  BY <1>1, Files DEF SourceDropped, Shape, InHand, Typed, Apart
<1>3. old' = old \/ old' = [old EXCEPT ![pass.name] = NoFile]
  BY DEF SourceDropped
<1>4. Shape'
  BY <1>1, <1>2, <1>3 DEF Shape, Typed, InHand, PassSteps
<1>5. ASSUME NEW n \in Names \ shared'
      PROVE  Clean(n)'
  <2>1. Clean(n) /\ n \in Names
    BY <1>1, <1>2
  <2>2. /\ Step("pass", n) \in {"copied", "away"} /\ Step("pass", n)' \in {"migrate", "away"}
        /\ OthersStay("pass", n) /\ PassGoesOn(n)
    BY <1>1, <1>2, PassMoves DEF PassGoesOn, Passed, Pending, Shape, Typed
  <2>3. \A c \in Calls : GoesOn(c, n)
    BY <2>2 DEF GoesOn, OthersStay, Stagings
  <2>4. old'[n] = old[n] \/ (old'[n] = NoFile /\ Held(n))
    BY <1>1, <1>2, <1>3, <2>1 DEF Clean, Kept, Step, Shape, Typed
  <2> QED
    BY <1>1, <1>2, <2>1, <2>2, <2>3, <2>4, Calm DEF NotAfter
<1> QED
  BY <1>4, <1>5 DEF Inv

\* One file that is not compressed yet, unless it is gone or is already.
LEMMA CompressKeeps ==
  ASSUME Apart, Inv, compress_existing_live_chat_files
  PROVE  Inv'
<1>1. Shape /\ \A n \in Names \ shared : Clean(n)
  BY DEF Inv
<1>2. /\ pass.pc = "compress" /\ pass.name # NoName
      /\ UNCHANGED <<old, live, scratch, backup, gen, launch, dl, sweep, owed>>
  BY <1>1 DEF compress_existing_live_chat_files, Shape, InHand
<1> DEFINE Skipped == /\ \E todo \in SUBSET pass.todo : \/ pass' = [pass EXCEPT !.todo = todo]
                                                        \/ PassEnds
                      /\ UNCHANGED <<gztmp, shared>>
           Opens(m) == /\ live[m] # NoFile
                       /\ temp_sibling_path("pass", m)
                       /\ pass' = [pass EXCEPT !.pc = "stage", !.name = m]
<1>3. Skipped \/ \E m \in pass.todo : Opens(m)
  <2>1. \A m \in pass.todo : pass.todo \ {m} \in SUBSET pass.todo
    OBVIOUS
  <2> QED
    BY <2>1 DEF compress_existing_live_chat_files
<1>4. CASE Skipped
  <2>1. Shape'
    <3>1. PICK todo \in SUBSET pass.todo : pass' = [pass EXCEPT !.todo = todo] \/ PassEnds
      BY <1>4
    <3>2. todo \subseteq Names
      BY <1>1 DEF Shape, Typed
    <3>3. CASE pass' = [pass EXCEPT !.todo = todo]
      BY <1>1, <1>2, <1>4, <3>2, <3>3 DEF Shape, Typed, InHand
    <3>4. CASE PassEnds
      BY <1>1, <1>2, <1>4, <3>4 DEF Shape, Typed, InHand, PassEnds, PassSteps
    <3> QED
      BY <3>1, <3>3, <3>4
  <2>2. ASSUME NEW n \in Names \ shared'
        PROVE  Clean(n)'
    <3>1. Clean(n) /\ n \in Names
      BY <1>1, <1>4
    <3>2. /\ Step("pass", n) \in {"compress", "away"} /\ Step("pass", n)' \in {"compress", "idle", "away"}
          /\ OthersStay("pass", n) /\ PassGoesOn(n)
      BY <1>1, <1>2, <1>4, PassMoves DEF PassGoesOn, Passed, Pending, Shape, Typed, PassEnds
    <3>3. \A c \in Calls : GoesOn(c, n)
      BY <3>2 DEF GoesOn, OthersStay, Stagings
    <3> QED
      BY <1>1, <1>2, <1>4, <3>1, <3>2, <3>3, Calm DEF NotAfter
  <2> QED
    BY <2>1, <2>2 DEF Inv
<1>5. ASSUME NEW m \in pass.todo, Opens(m)
      PROVE  Inv'
  <2>1. "pass" \in Calls /\ m \in Names /\ m # NoName
    BY <1>1 DEF Calls, Shape, Typed, Apart
  <2>2. /\ gztmp' \in [Names -> File] /\ gztmp'[m].born = launch
        /\ \A k \in Names \ {m} : gztmp'[k] = gztmp[k]
        /\ shared' \subseteq Names /\ shared \subseteq shared'
        /\ m \notin shared' => Staging(m) = {}
    BY <1>1, <1>5, <2>1, OpenedShape DEF Shape
  <2>3. Shape'
    BY <1>1, <1>2, <1>5, <2>1, <2>2 DEF Shape, Typed, InHand, PassSteps
  <2>4. ASSUME NEW n \in Names \ shared'
        PROVE  Clean(n)'
    <3>1. Clean(n) /\ n \in Names
      BY <1>1, <2>2
    <3>2. /\ Step("pass", n) \in {"compress", "away"}
          /\ n # m => Step("pass", n)' = "away"
          /\ n = m => Step("pass", n)' = "stage"
          /\ OthersStay("pass", n) /\ PassGoesOn(n)
      BY <1>1, <1>2, <1>5, <2>1, PassMoves DEF PassGoesOn, Passed, Pending, Shape, Typed
    <3>3. CASE n = m
      <4>1. \A c \in Calls : Step(c, n) \notin Stagings
        BY <1>1, <2>2, <3>1, <3>3, NoneStages
      <4> QED
        BY <1>1, <1>2, <1>5, <2>1, <2>2, <3>1, <3>2, <3>3, <4>1, Stages
    <3>4. CASE n # m
      <4>1. \A c \in Calls : GoesOn(c, n)
        BY <3>2, <3>4 DEF GoesOn, OthersStay, Stagings
      <4> QED
        BY <1>1, <1>2, <2>2, <3>1, <3>2, <3>4, <4>1, Calm DEF NotAfter
    <3> QED
      BY <3>3, <3>4
  <2> QED
    BY <2>3, <2>4 DEF Inv
<1> QED
  BY <1>3, <1>4, <1>5

\* The pass takes the next step with the replay it holds.
LEMMA PassStays ==
  ASSUME Apart, Shape, NEW t \in {"verify", "park", "install", "unpark"}, dl' = dl, gen' = gen, sweep' = sweep,
         pass.pc \in {"stage", "verify", "park", "install"}, pass' = [pass EXCEPT !.pc = t]
  PROVE  /\ pass' \in [pc : PassSteps, todo : SUBSET Names, name : Names \cup {NoName, "started"}, gen : Nat]
         /\ InHand' /\ pass.name \in Names
         /\ \A n \in Names : /\ OthersStay("pass", n) /\ PassGoesOn(n)
                             /\ n = pass.name => Step("pass", n) = pass.pc /\ Step("pass", n)' = t
                             /\ n # pass.name => Step("pass", n) = "away" /\ Step("pass", n)' = "away"
                             /\ n = pass.name => ~Passed(n) /\ ~Pending(n)'
<1>1. /\ pass.name \in pass.todo /\ pass.name \in Names /\ pass.name # NoName
      /\ pass'.pc = t /\ pass'.name = pass.name /\ pass'.todo = pass.todo
      /\ pass' \in [pc : PassSteps, todo : SUBSET Names, name : Names \cup {NoName, "started"}, gen : Nat]
  BY DEF Shape, Typed, InHand, PassSteps, Apart
<1>2. InHand'
  BY <1>1 DEF Shape, InHand
<1>3. ASSUME NEW n \in Names
      PROVE  /\ OthersStay("pass", n) /\ PassGoesOn(n)
             /\ n = pass.name => Step("pass", n) = pass.pc /\ Step("pass", n)' = t
             /\ n # pass.name => Step("pass", n) = "away" /\ Step("pass", n)' = "away"
             /\ n = pass.name => ~Passed(n) /\ ~Pending(n)'
  BY <1>1, PassMoves DEF PassGoesOn, Passed, Pending
<1> QED
  BY <1>1, <1>2, <1>3

\* The pass is done with the replay it holds.
LEMMA PassLeaves ==
  ASSUME Apart, Shape, dl' = dl, gen' = gen, sweep' = sweep,
         pass.pc \in {"stage", "verify", "park", "install", "unpark"}, PassNext
  PROVE  /\ pass' \in [pc : PassSteps, todo : SUBSET Names, name : Names \cup {NoName, "started"}, gen : Nat]
         /\ InHand' /\ pass.name \in Names
         /\ \A n \in Names : /\ OthersStay("pass", n) /\ PassGoesOn(n)
                             /\ n = pass.name => /\ Step("pass", n) = pass.pc /\ Step("pass", n)' = "compress"
                                                 /\ Finished("pass", n)'
                             /\ n # pass.name => Step("pass", n) = "away" /\ Step("pass", n)' = "away"
<1>1. /\ pass.name \in pass.todo /\ pass.name \in Names /\ pass.name # NoName
      /\ pass'.pc = "compress" /\ pass'.name = pass.name /\ pass'.todo = pass.todo \ {pass.name}
      /\ pass' \in [pc : PassSteps, todo : SUBSET Names, name : Names \cup {NoName, "started"}, gen : Nat]
  BY DEF Shape, Typed, InHand, PassSteps, Apart, PassNext
<1>2. InHand'
  BY <1>1 DEF Shape, InHand
<1>3. ASSUME NEW n \in Names
      PROVE  /\ OthersStay("pass", n) /\ PassGoesOn(n)
             /\ n = pass.name => /\ Step("pass", n) = pass.pc /\ Step("pass", n)' = "compress"
                                 /\ Finished("pass", n)'
             /\ n # pass.name => Step("pass", n) = "away" /\ Step("pass", n)' = "away"
  BY <1>1, PassMoves DEF PassGoesOn, Passed, Pending, Finished
<1> QED
  BY <1>1, <1>2, <1>3

\* Call c replaces its backup of n.
LEMMA Backed ==
  ASSUME Typed, NEW c \in Calls, NEW n \in Names, NEW f \in File,
         backup' = [backup EXCEPT ![n][<<c, launch>>] = f]
  PROVE  /\ backup' \in [Names -> [Suffixes -> File]] /\ OwnBackup(c, n, f)
         /\ \A m \in Names \ {n} : backup'[m] = backup[m]
<1>1. <<c, launch>> \in Suffixes /\ \A e \in Calls, l \in 1..MaxLaunches : <<e, l>> \in Suffixes
  BY DEF Typed, Suffixes, Calls
<1>2. backup' = [backup EXCEPT ![n] = [backup[n] EXCEPT ![<<c, launch>>] = f]]
  OBVIOUS
<1>3. /\ backup' \in [Names -> [Suffixes -> File]]
      /\ backup'[n] = [backup[n] EXCEPT ![<<c, launch>>] = f] /\ backup[n] \in [Suffixes -> File]
      /\ \A m \in Names \ {n} : backup'[m] = backup[m]
  BY <1>1, <1>2 DEF Typed
<1>4. OwnBackup(c, n, f)
  BY <1>1, <1>3 DEF OwnBackup
<1> QED
  BY <1>3, <1>4

\* The compressed copy is written to its end, or the file is left alone.
LEMMA PassStageKeeps ==
  ASSUME Apart, Inv, PassStage
  PROVE  Inv'
<1>1. Shape /\ \A n \in Names \ shared : Clean(n)
  BY DEF Inv
<1>2. /\ pass.pc = "stage" /\ pass.name \in Names /\ "pass" \in Calls
      /\ UNCHANGED <<old, scratch, backup, gen, launch, dl, sweep, owed, shared>>
  BY <1>1 DEF PassStage, Shape, Typed, InHand, Calls
<1>3. ASSUME NEW good \in BOOLEAN, compress_file_to_temp("pass", pass.name, good),
             pass' = [pass EXCEPT !.pc = "verify"]
      PROVE  Inv'
  <2>1. /\ gztmp' \in [Names -> File] /\ live' \in [Names -> File]
        /\ gztmp'[pass.name].born = gztmp[pass.name].born
        /\ \A m \in Names \ {pass.name} : gztmp'[m] = gztmp[m] /\ live'[m] = live[m]
        /\ live[pass.name] = NoFile \/ Whole(live[pass.name]) => live'[pass.name] = live[pass.name]
        /\ gztmp[pass.name] = NoFile => gztmp'[pass.name] = NoFile
    BY <1>1, <1>2, <1>3, EndedShape DEF Shape
  <2>2. /\ pass' \in [pc : PassSteps, todo : SUBSET Names, name : Names \cup {NoName, "started"}, gen : Nat]
        /\ InHand'
        /\ \A n \in Names : /\ OthersStay("pass", n) /\ PassGoesOn(n)
                            /\ n = pass.name => Step("pass", n) = "stage" /\ Step("pass", n)' = "verify"
                            /\ n # pass.name => Step("pass", n) = "away" /\ Step("pass", n)' = "away"
    BY <1>1, <1>2, <1>3, PassStays
  <2>3. Shape'
    BY <1>1, <1>2, <2>1, <2>2 DEF Shape, Typed
  <2>4. ASSUME NEW n \in Names \ shared'
        PROVE  Clean(n)'
    <3>1. Clean(n) /\ n \in Names
      BY <1>1, <1>2
    <3>2. live'[n] = live[n]
      BY <2>1, <3>1 DEF Clean, LiveWhole
    <3>3. CASE n = pass.name
      <4>1. /\ gztmp'[n] = NoFile \/ gztmp'[n].born = launch
            /\ \A e \in Calls : e # "pass" => Step(e, n) \notin Stagings
            /\ live[n] # NoFile
        BY <1>2, <2>1, <2>2, <3>1, <3>3 DEF Clean, StagedWell, OneStages, ToCompress, Stagings
      <4> QED
        BY <1>1, <1>2, <2>2, <3>1, <3>2, <3>3, <4>1, Stages
    <3>4. CASE n # pass.name
      <4>1. \A c \in Calls : GoesOn(c, n)
        BY <2>2, <3>1, <3>4 DEF GoesOn, OthersStay
      <4> QED
        BY <1>1, <1>2, <2>1, <2>2, <3>1, <3>2, <3>4, <4>1, Calm DEF NotAfter
    <3> QED
      BY <3>3, <3>4
  <2> QED
    BY <2>3, <2>4 DEF Inv
<1>4. CASE PassNext /\ UNCHANGED <<gztmp, live>>
  <2>1. /\ pass' \in [pc : PassSteps, todo : SUBSET Names, name : Names \cup {NoName, "started"}, gen : Nat]
        /\ InHand'
        /\ \A n \in Names : /\ OthersStay("pass", n) /\ PassGoesOn(n)
                            /\ n = pass.name => Step("pass", n) = "stage" /\ Step("pass", n)' = "compress"
                            /\ n # pass.name => Step("pass", n) = "away" /\ Step("pass", n)' = "away"
    BY <1>1, <1>2, <1>4, PassLeaves
  <2>2. Shape'
    BY <1>1, <1>2, <1>4, <2>1 DEF Shape, Typed
  <2>3. ASSUME NEW n \in Names \ shared'
        PROVE  Clean(n)'
    <3>1. \A c \in Calls : GoesOn(c, n)
      BY <2>1 DEF GoesOn, OthersStay, Stagings
    <3> QED
      BY <1>1, <1>2, <1>4, <2>1, <3>1, Calm DEF NotAfter
  <2> QED
    BY <2>2, <2>3 DEF Inv
<1> QED
  BY <1>3, <1>4 DEF PassStage

\* Only a copy that was read back whole goes on.
LEMMA PassVerifyKeeps ==
  ASSUME Apart, Inv, PassVerify
  PROVE  Inv'
<1>1. Shape /\ \A n \in Names \ shared : Clean(n)
  BY DEF Inv
<1>2. /\ pass.pc = "verify" /\ pass.name \in Names
      /\ UNCHANGED <<old, live, gztmp, scratch, backup, gen, launch, dl, sweep, owed, shared>>
  BY <1>1 DEF PassVerify, Shape, Typed, InHand
<1>3. /\ pass' \in [pc : PassSteps, todo : SUBSET Names, name : Names \cup {NoName, "started"}, gen : Nat]
      /\ InHand'
      /\ \A n \in Names : /\ OthersStay("pass", n) /\ PassGoesOn(n)
                          /\ n = pass.name => /\ Step("pass", n) = "verify"
                                              /\ \/ Step("pass", n)' = "park" /\ Whole(gztmp[n])
                                                 \/ Step("pass", n)' = "compress"
                          /\ n # pass.name => Step("pass", n) = "away" /\ Step("pass", n)' = "away"
  <2>1. CASE Whole(gztmp[pass.name])
    <3>1. pass' = [pass EXCEPT !.pc = "park"]
      BY <2>1 DEF PassVerify, verify_compressed_matches
    <3> QED
      BY <1>1, <1>2, <2>1, <3>1, PassStays
  <2>2. CASE ~Whole(gztmp[pass.name])
    <3>1. PassNext
      BY <2>2 DEF PassVerify, verify_compressed_matches
    <3> QED
      BY <1>1, <1>2, <3>1, PassLeaves
  <2> QED
    BY <2>1, <2>2
<1>4. Shape'
  BY <1>1, <1>2, <1>3 DEF Shape, Typed
<1>5. ASSUME NEW n \in Names \ shared'
      PROVE  Clean(n)'
  <2>1. \A c \in Calls : GoesOn(c, n)
    BY <1>2, <1>3 DEF GoesOn, OthersStay, Stagings
  <2> QED
    BY <1>1, <1>2, <1>3, <2>1, Calm DEF NotAfter
<1> QED
  BY <1>4, <1>5 DEF Inv

\* The file is put aside, the copy takes its name, and what was put aside
\* goes, or comes back where the rename failed.
LEMMA InPlaceKeeps ==
  ASSUME Apart, Inv, compress_file_in_place
  PROVE  Inv'
<1> DEFINE k == pass.name
<1>1. Shape /\ \A n \in Names \ shared : Clean(n)
  BY DEF Inv
<1>2. /\ pass.pc \in {"park", "install", "unpark"} /\ k \in Names /\ "pass" \in Calls
      /\ NoFile \in File /\ live[k] \in File /\ gztmp[k] \in File /\ <<"pass", launch>> \in Suffixes
      /\ backup[k] \in [Suffixes -> File] /\ launch' = launch
      /\ UNCHANGED <<old, scratch, gen, launch, dl, sweep, owed, shared>>
  BY <1>1, Files DEF compress_file_in_place, Shape, Typed, InHand, Calls, Suffixes
<1>3. CASE pass.pc = "park" /\ PassNext /\ UNCHANGED <<live, gztmp, backup>>
  <2>1. /\ pass' \in [pc : PassSteps, todo : SUBSET Names, name : Names \cup {NoName, "started"}, gen : Nat]
        /\ InHand'
        /\ \A n \in Names : /\ OthersStay("pass", n) /\ PassGoesOn(n)
                            /\ n = k => Step("pass", n) = "park" /\ Step("pass", n)' = "compress"
                            /\ n # k => Step("pass", n) = "away" /\ Step("pass", n)' = "away"
    BY <1>1, <1>2, <1>3, PassLeaves
  <2>2. Shape'
    BY <1>1, <1>2, <1>3, <2>1 DEF Shape, Typed
  <2>3. ASSUME NEW n \in Names \ shared'
        PROVE  Clean(n)'
    <3>1. \A c \in Calls : GoesOn(c, n)
      BY <2>1 DEF GoesOn, OthersStay, Stagings
    <3> QED
      BY <1>1, <1>2, <1>3, <2>1, <3>1, Calm DEF NotAfter
  <2> QED
    BY <2>2, <2>3 DEF Inv
<1>4. CASE pass.pc = "park" /\ gztmp[k] # NoFile /\ Parked("pass", k)
           /\ pass' = [pass EXCEPT !.pc = "install"] /\ UNCHANGED gztmp
  <2>1. /\ pass' \in [pc : PassSteps, todo : SUBSET Names, name : Names \cup {NoName, "started"}, gen : Nat]
        /\ InHand'
        /\ \A n \in Names : /\ OthersStay("pass", n) /\ PassGoesOn(n)
                            /\ n = k => Step("pass", n) = "park" /\ Step("pass", n)' = "install"
                            /\ n # k => Step("pass", n) = "away" /\ Step("pass", n)' = "away"
                            /\ n = k => ~Passed(n) /\ ~Pending(n)'
    BY <1>1, <1>2, <1>4, PassStays
  <2>2. /\ backup' \in [Names -> [Suffixes -> File]] /\ OwnBackup("pass", k, live[k])
        /\ \A m \in Names \ {k} : backup'[m] = backup[m]
    BY <1>1, <1>2, <1>4, Backed DEF Parked, Shape
  <2>3. /\ live' \in [Names -> File] /\ live'[k] = NoFile /\ \A m \in Names \ {k} : live'[m] = live[m]
    BY <1>1, <1>2, <1>4 DEF Parked, Shape, Typed
  <2>4. Shape'
    BY <1>1, <1>2, <1>4, <2>1, <2>2, <2>3 DEF Shape, Typed
  <2>5. ASSUME NEW n \in Names \ shared'
        PROVE  Clean(n)'
    <3>1. Clean(n) /\ n \in Names
      BY <1>1, <1>2
    <3>2. CASE n = k
      <4>1. live[n] # NoFile
        BY <2>1, <3>1, <3>2 DEF Clean, ToCompress
      <4> QED
        BY <1>1, <1>2, <1>4, <2>1, <2>2, <2>3, <3>1, <3>2, <4>1, Parks
    <3>3. CASE n # k
      <4>1. \A c \in Calls : GoesOn(c, n)
        BY <2>1, <3>1, <3>3 DEF GoesOn, OthersStay
      <4> QED
        BY <1>1, <1>2, <1>4, <2>1, <2>2, <2>3, <3>1, <3>3, <4>1, Calm DEF NotAfter
    <3> QED
      BY <3>2, <3>3
  <2> QED
    BY <2>4, <2>5 DEF Inv
<1>5. CASE pass.pc = "install" /\ gztmp[k] # NoFile /\ Installed(k)
           /\ pass' = [pass EXCEPT !.pc = "unpark"] /\ UNCHANGED backup
  <2>1. /\ pass' \in [pc : PassSteps, todo : SUBSET Names, name : Names \cup {NoName, "started"}, gen : Nat]
        /\ InHand'
        /\ \A n \in Names : /\ OthersStay("pass", n) /\ PassGoesOn(n)
                            /\ n = k => Step("pass", n) = "install" /\ Step("pass", n)' = "unpark"
                            /\ n # k => Step("pass", n) = "away" /\ Step("pass", n)' = "away"
    BY <1>1, <1>2, <1>5, PassStays
  <2>2. /\ live' \in [Names -> File] /\ live'[k] = gztmp[k] /\ \A m \in Names \ {k} : live'[m] = live[m]
        /\ gztmp' \in [Names -> File] /\ gztmp'[k] = NoFile /\ \A m \in Names \ {k} : gztmp'[m] = gztmp[m]
    BY <1>1, <1>2, <1>5 DEF Installed, Shape, Typed
  <2>3. Shape'
    BY <1>1, <1>2, <1>5, <2>1, <2>2 DEF Shape, Typed
  <2>4. ASSUME NEW n \in Names \ shared'
        PROVE  Clean(n)'
    <3>1. Clean(n) /\ n \in Names
      BY <1>1, <1>2
    <3>2. CASE n = k
      BY <1>1, <1>2, <1>5, <2>1, <2>2, <3>1, <3>2, Installs
    <3>3. CASE n # k
      <4>1. \A c \in Calls : GoesOn(c, n)
        BY <2>1, <3>1, <3>3 DEF GoesOn, OthersStay
      <4> QED
        BY <1>1, <1>2, <1>5, <2>1, <2>2, <3>1, <3>3, <4>1, Calm DEF NotAfter
    <3> QED
      BY <3>2, <3>3
  <2> QED
    BY <2>3, <2>4 DEF Inv
<1>6. CASE pass.pc = "install" /\ Restored("pass", k) /\ PassNext /\ UNCHANGED gztmp
  <2>1. /\ pass' \in [pc : PassSteps, todo : SUBSET Names, name : Names \cup {NoName, "started"}, gen : Nat]
        /\ InHand'
        /\ \A n \in Names : /\ OthersStay("pass", n) /\ PassGoesOn(n)
                            /\ n = k => /\ Step("pass", n) = "install" /\ Step("pass", n)' = "compress"
                                        /\ Finished("pass", n)'
                            /\ n # k => Step("pass", n) = "away" /\ Step("pass", n)' = "away"
    BY <1>1, <1>2, <1>6, PassLeaves
  <2>2. /\ backup' \in [Names -> [Suffixes -> File]] /\ OwnBackup("pass", k, NoFile)
        /\ \A m \in Names \ {k} : backup'[m] = backup[m]
    BY <1>1, <1>2, <1>6, Backed DEF Restored, Shape
  <2>3. /\ live' \in [Names -> File] /\ live'[k] = backup[k][<<"pass", launch>>]
        /\ \A m \in Names \ {k} : live'[m] = live[m]
    BY <1>1, <1>2, <1>6 DEF Restored, Shape, Typed
  <2>4. Shape'
    BY <1>1, <1>2, <1>6, <2>1, <2>2, <2>3 DEF Shape, Typed
  <2>5. ASSUME NEW n \in Names \ shared'
        PROVE  Clean(n)'
    <3>1. Clean(n) /\ n \in Names
      BY <1>1, <1>2
    <3>2. CASE n = k
      BY <1>1, <1>2, <1>6, <2>1, <2>2, <2>3, <3>1, <3>2, Restores
    <3>3. CASE n # k
      <4>1. \A c \in Calls : GoesOn(c, n)
        BY <2>1, <3>1, <3>3 DEF GoesOn, OthersStay
      <4> QED
        BY <1>1, <1>2, <1>6, <2>1, <2>2, <2>3, <3>1, <3>3, <4>1, Calm DEF NotAfter
    <3> QED
      BY <3>2, <3>3
  <2> QED
    BY <2>4, <2>5 DEF Inv
<1>7. CASE pass.pc = "unpark" /\ backup' = [backup EXCEPT ![k][<<"pass", launch>>] = NoFile]
           /\ PassNext /\ UNCHANGED <<live, gztmp>>
  <2>1. /\ pass' \in [pc : PassSteps, todo : SUBSET Names, name : Names \cup {NoName, "started"}, gen : Nat]
        /\ InHand'
        /\ \A n \in Names : /\ OthersStay("pass", n) /\ PassGoesOn(n)
                            /\ n = k => /\ Step("pass", n) = "unpark" /\ Step("pass", n)' = "compress"
                                        /\ Finished("pass", n)'
                            /\ n # k => Step("pass", n) = "away" /\ Step("pass", n)' = "away"
    BY <1>1, <1>2, <1>7, PassLeaves
  <2>2. /\ backup' \in [Names -> [Suffixes -> File]] /\ OwnBackup("pass", k, NoFile)
        /\ \A m \in Names \ {k} : backup'[m] = backup[m]
    BY <1>1, <1>2, <1>7, Backed DEF Shape
  <2>3. Shape'
    BY <1>1, <1>2, <1>7, <2>1, <2>2 DEF Shape, Typed
  <2>4. ASSUME NEW n \in Names \ shared'
        PROVE  Clean(n)'
    <3>1. Clean(n) /\ n \in Names
      BY <1>1, <1>2
    <3>2. CASE n = k
      BY <1>1, <1>2, <1>7, <2>1, <2>2, <3>1, <3>2, Unparks
    <3>3. CASE n # k
      <4>1. \A c \in Calls : GoesOn(c, n)
        BY <2>1, <3>1, <3>3 DEF GoesOn, OthersStay
      <4> QED
        BY <1>1, <1>2, <1>7, <2>1, <2>2, <3>1, <3>3, <4>1, Calm DEF NotAfter
    <3> QED
      BY <3>2, <3>3
  <2> QED
    BY <2>3, <2>4 DEF Inv
<1> QED
  BY <1>3, <1>4, <1>5, <1>6, <1>7 DEF compress_file_in_place

(***************************************************************************)
(* The downloads.                                                          *)
(***************************************************************************)

LEMMA StartDownloadKeeps ==
  ASSUME Apart, Inv, NEW d \in Downloads, StartDownload(d)
  PROVE  Inv'
<1>1. Shape /\ \A n \in Names \ shared : Clean(n)
  BY DEF Inv
<1>2. PICK m \in Fresh : /\ dl[d].pc = "idle" /\ dl' = [dl EXCEPT ![d] = [pc |-> "run", name |-> m, gen |-> gen]]
                         /\ UNCHANGED <<old, live, gztmp, scratch, backup, gen, launch, pass, sweep, owed, shared>>
  BY DEF StartDownload
<1>3. m \in Names /\ d # "pass"
  BY DEF Names, Apart
<1>4. Shape'
  BY <1>1, <1>2, <1>3 DEF Shape, Typed, InHand, DlSteps
<1>5. ASSUME NEW n \in Names \ shared'
      PROVE  Clean(n)'
  <2>1. /\ Step(d, n) \in {"idle", "away"} /\ Step(d, n)' \in {"run", "away"}
        /\ OthersStay(d, n) /\ PassGoesOn(n)
    BY <1>1, <1>2, <1>3 DEF Step, OthersStay, PassGoesOn, Pending, Passed, Shape, Typed, Calls
  <2>2. \A c \in Calls : GoesOn(c, n)
    BY <2>1 DEF GoesOn, OthersStay, Stagings
  <2> QED
    BY <1>1, <1>2, <2>1, <2>2, Calm DEF NotAfter
<1> QED
  BY <1>4, <1>5 DEF Inv

\* A replay is reported stored when one lies whole under its name already.
LEMMA StoreKeeps ==
  ASSUME Apart, Inv, NEW d \in Downloads, store_live_chat(d)
  PROVE  Inv'
<1>1. Shape /\ \A n \in Names \ shared : Clean(n)
  BY DEF Inv
<1>2. /\ dl[d].pc = "run" /\ dl[d].name \in Names
      /\ UNCHANGED <<old, live, gztmp, scratch, backup, gen, launch, pass, sweep, shared>>
  BY <1>1 DEF store_live_chat, Shape, InHand
<1>3. PICK t \in DlSteps :
        /\ t \in {"over", "create"} /\ At(d, t)
        /\ t = "create" => live[dl[d].name] = NoFile
        /\ owed' = owed \/ (owed' = owed \cup {dl[d].name} /\ live[dl[d].name] # NoFile)
  BY DEF store_live_chat, KeptExisting, DlSteps
<1>4. /\ dl' \in [Downloads -> [pc : DlSteps, name : Names \cup {NoName}, gen : Nat]]
      /\ \A e \in Downloads : dl'[e].name = dl[e].name
      /\ \A e \in Downloads \ {d} : dl'[e] = dl[e]
      /\ \A n \in Names : /\ PassGoesOn(n) /\ OthersStay(d, n)
                          /\ IF dl[d].name = n THEN Step(d, n) = "run" /\ Step(d, n)' = t
                             ELSE Step(d, n)' = Step(d, n)
  BY <1>1, <1>2, <1>3, DownloadMoves DEF Shape
<1>5. InHand'
  BY <1>1, <1>2, <1>4 DEF Shape, InHand
<1>6. Typed'
  BY <1>1, <1>2, <1>3, <1>4 DEF Shape, Typed
<1>7. ASSUME NEW n \in Names \ shared'
      PROVE  Clean(n)'
  <2>1. Clean(n) /\ n \in Names
    BY <1>1, <1>2
  <2>2. n \in owed' => n \in owed \/ Held(n)
    BY <1>3, <2>1 DEF Clean, LiveWhole, Held
  <2>3. \A c \in Calls : GoesOn(c, n)
    BY <1>3, <1>4, <2>1 DEF GoesOn, OthersStay, Stagings
  <2> QED
    BY <1>1, <1>2, <1>4, <2>1, <2>2, <2>3, Calm DEF NotAfter
<1> QED
  BY <1>5, <1>6, <1>7 DEF Inv, Shape

LEMMA CreateKeeps ==
  ASSUME Apart, Inv, NEW d \in Downloads, DownloadCreate(d)
  PROVE  Inv'
<1> DEFINE k == dl[d].name
<1>1. Shape /\ \A n \in Names \ shared : Clean(n)
  BY DEF Inv
<1>2. /\ dl[d].pc = "create" /\ k \in Names /\ temp_sibling_path(d, k) /\ At(d, "stage") /\ "stage" \in DlSteps
      /\ UNCHANGED <<old, live, scratch, backup, gen, launch, pass, sweep, owed>>
  BY <1>1 DEF DownloadCreate, Shape, InHand, DlSteps
<1>3. /\ dl' \in [Downloads -> [pc : DlSteps, name : Names \cup {NoName}, gen : Nat]]
      /\ \A e \in Downloads : dl'[e].name = dl[e].name
      /\ \A e \in Downloads \ {d} : dl'[e] = dl[e]
      /\ d \in Calls /\ d # "pass"
      /\ \A n \in Names : /\ PassGoesOn(n) /\ OthersStay(d, n)
                          /\ IF k = n THEN Step(d, n) = "create" /\ Step(d, n)' = "stage"
                             ELSE Step(d, n)' = Step(d, n)
  BY <1>1, <1>2, DownloadMoves DEF Shape
<1>4. /\ gztmp' \in [Names -> File] /\ gztmp'[k].born = launch
      /\ \A m \in Names \ {k} : gztmp'[m] = gztmp[m]
      /\ shared' \subseteq Names /\ shared \subseteq shared'
      /\ k \notin shared' => Staging(k) = {}
  BY <1>1, <1>2, <1>3, OpenedShape DEF Shape
<1>5. InHand'
  BY <1>1, <1>2, <1>3 DEF Shape, InHand
<1>6. Typed'
  BY <1>1, <1>2, <1>3, <1>4 DEF Shape, Typed
<1>7. ASSUME NEW n \in Names \ shared'
      PROVE  Clean(n)'
  <2>1. Clean(n) /\ n \in Names
    BY <1>1, <1>4
  <2>2. CASE n = k
    <3>1. \A c \in Calls : Step(c, n) \notin Stagings
      BY <1>1, <1>4, <2>1, <2>2, NoneStages
    <3> QED
      BY <1>1, <1>2, <1>3, <1>4, <2>1, <2>2, <3>1, Stages
  <2>3. CASE n # k
    <3>1. \A c \in Calls : GoesOn(c, n)
      BY <1>3, <2>1, <2>3 DEF GoesOn, OthersStay
    <3> QED
      BY <1>1, <1>2, <1>3, <1>4, <2>1, <2>3, <3>1, Calm DEF NotAfter
  <2> QED
    BY <2>2, <2>3
<1> QED
  BY <1>5, <1>6, <1>7 DEF Inv, Shape

LEMMA DownloadStageKeeps ==
  ASSUME Apart, Inv, NEW d \in Downloads, DownloadStage(d)
  PROVE  Inv'
<1> DEFINE k == dl[d].name
<1>1. Shape /\ \A n \in Names \ shared : Clean(n)
  BY DEF Inv
<1>2. /\ dl[d].pc = "stage" /\ k \in Names /\ {"verify", "over"} \subseteq DlSteps /\ d \in Calls
      /\ UNCHANGED <<old, scratch, backup, gen, launch, pass, sweep, owed, shared>>
  BY <1>1 DEF DownloadStage, Shape, InHand, DlSteps, Calls
<1>3. ASSUME NEW t \in {"verify", "over"}, At(d, t)
      PROVE  /\ dl' \in [Downloads -> [pc : DlSteps, name : Names \cup {NoName}, gen : Nat]]
             /\ \A e \in Downloads : dl'[e].name = dl[e].name
             /\ \A e \in Downloads \ {d} : dl'[e] = dl[e]
             /\ d # "pass"
             /\ \A n \in Names : /\ PassGoesOn(n) /\ OthersStay(d, n)
                                 /\ IF k = n THEN Step(d, n) = "stage" /\ Step(d, n)' = t
                                    ELSE Step(d, n)' = Step(d, n)
  BY <1>1, <1>2, <1>3, DownloadMoves DEF Shape
<1>4. ASSUME NEW good \in BOOLEAN, compress_file_to_temp(d, k, good), At(d, "verify")
      PROVE  Inv'
  <2>1. /\ gztmp' \in [Names -> File] /\ live' \in [Names -> File]
        /\ gztmp'[k].born = gztmp[k].born
        /\ \A m \in Names \ {k} : gztmp'[m] = gztmp[m] /\ live'[m] = live[m]
        /\ live[k] = NoFile \/ Whole(live[k]) => live'[k] = live[k]
        /\ gztmp[k] = NoFile => gztmp'[k] = NoFile
    BY <1>1, <1>2, <1>4, EndedShape DEF Shape
  <2>2. InHand'
    BY <1>1, <1>2, <1>3, <1>4 DEF Shape, InHand
  <2>3. Typed'
    BY <1>1, <1>2, <1>3, <1>4, <2>1 DEF Shape, Typed
  <2>4. ASSUME NEW n \in Names \ shared'
        PROVE  Clean(n)'
    <3>1. Clean(n) /\ n \in Names
      BY <1>1, <1>2
    <3>2. live'[n] = live[n]
      BY <2>1, <3>1 DEF Clean, LiveWhole
    <3>3. CASE n = k
      <4>1. /\ gztmp'[n] = NoFile \/ gztmp'[n].born = launch
            /\ \A e \in Calls : e # d => Step(e, n) \notin Stagings
        BY <1>2, <1>3, <1>4, <2>1, <3>1, <3>3 DEF Clean, StagedWell, OneStages, Stagings
      <4> QED
        BY <1>1, <1>2, <1>3, <1>4, <3>1, <3>2, <3>3, <4>1, Stages
    <3>4. CASE n # k
      <4>1. \A c \in Calls : GoesOn(c, n)
        BY <1>3, <1>4, <3>1, <3>4 DEF GoesOn, OthersStay
      <4> QED
        BY <1>1, <1>2, <1>3, <1>4, <2>1, <3>1, <3>2, <3>4, <4>1, Calm DEF NotAfter
    <3> QED
      BY <3>3, <3>4
  <2> QED
    BY <2>2, <2>3, <2>4 DEF Inv, Shape
<1>5. CASE At(d, "over") /\ UNCHANGED <<gztmp, live>>
  <2>1. InHand'
    BY <1>1, <1>2, <1>3, <1>5 DEF Shape, InHand
  <2>2. Typed'
    BY <1>1, <1>2, <1>3, <1>5 DEF Shape, Typed
  <2>3. ASSUME NEW n \in Names \ shared'
        PROVE  Clean(n)'
    <3>1. \A c \in Calls : GoesOn(c, n)
      BY <1>3, <1>5 DEF GoesOn, OthersStay, Stagings
    <3> QED
      BY <1>1, <1>2, <1>3, <1>5, <3>1, Calm DEF NotAfter
  <2> QED
    BY <2>1, <2>2, <2>3 DEF Inv, Shape
<1> QED
  BY <1>4, <1>5 DEF DownloadStage

LEMMA DownloadVerifyKeeps ==
  ASSUME Apart, Inv, NEW d \in Downloads, DownloadVerify(d)
  PROVE  Inv'
<1> DEFINE k == dl[d].name
<1>1. Shape /\ \A n \in Names \ shared : Clean(n)
  BY DEF Inv
<1>2. /\ dl[d].pc = "verify" /\ k \in Names
      /\ UNCHANGED <<old, live, gztmp, scratch, backup, gen, launch, pass, sweep, owed, shared>>
  BY <1>1 DEF DownloadVerify, Shape, InHand
<1>3. PICK t \in DlSteps : At(d, t) /\ (t = "over" \/ (t = "place" /\ Whole(gztmp[k])))
  BY DEF DownloadVerify, verify_compressed_matches, DlSteps
<1>4. /\ dl' \in [Downloads -> [pc : DlSteps, name : Names \cup {NoName}, gen : Nat]]
      /\ \A e \in Downloads : dl'[e].name = dl[e].name
      /\ \A e \in Downloads \ {d} : dl'[e] = dl[e]
      /\ \A n \in Names : /\ PassGoesOn(n) /\ OthersStay(d, n)
                          /\ IF k = n THEN Step(d, n) = "verify" /\ Step(d, n)' = t
                             ELSE Step(d, n)' = Step(d, n)
  BY <1>1, <1>2, <1>3, DownloadMoves DEF Shape
<1>5. InHand'
  BY <1>1, <1>2, <1>4 DEF Shape, InHand
<1>6. Typed'
  BY <1>1, <1>2, <1>4 DEF Shape, Typed
<1>7. ASSUME NEW n \in Names \ shared'
      PROVE  Clean(n)'
  <2>1. \A c \in Calls : GoesOn(c, n)
    BY <1>2, <1>3, <1>4 DEF GoesOn, OthersStay, Stagings
  <2> QED
    BY <1>1, <1>2, <1>4, <2>1, Calm DEF NotAfter
<1> QED
  BY <1>5, <1>6, <1>7 DEF Inv, Shape

LEMMA StoredKeeps ==
  ASSUME Apart, Inv, NEW d \in Downloads, compress_file_to(d)
  PROVE  Inv'
<1> DEFINE k == dl[d].name
<1>1. Shape /\ \A n \in Names \ shared : Clean(n)
  BY DEF Inv
<1>2. /\ dl[d].pc \in {"place", "install", "unpark"} /\ k \in Names /\ d \in Calls
      /\ {"install", "unpark", "over"} \subseteq DlSteps
      /\ NoFile \in File /\ live[k] \in File /\ gztmp[k] \in File /\ <<d, launch>> \in Suffixes
      /\ backup[k] \in [Suffixes -> File] /\ owed \subseteq Names
      /\ UNCHANGED <<old, scratch, gen, launch, pass, sweep, shared>>
  BY <1>1, Files DEF compress_file_to, Shape, Typed, InHand, Calls, Suffixes, DlSteps
<1>3. ASSUME NEW t \in {"install", "unpark", "over"}, At(d, t)
      PROVE  /\ dl' \in [Downloads -> [pc : DlSteps, name : Names \cup {NoName}, gen : Nat]]
             /\ InHand' /\ d # "pass"
             /\ \A n \in Names : /\ PassGoesOn(n) /\ OthersStay(d, n)
                                 /\ IF k = n THEN Step(d, n) = dl[d].pc /\ Step(d, n)' = t
                                    ELSE Step(d, n)' = Step(d, n)
  <2>1. /\ dl' \in [Downloads -> [pc : DlSteps, name : Names \cup {NoName}, gen : Nat]]
        /\ \A e \in Downloads : dl'[e].name = dl[e].name
        /\ \A e \in Downloads \ {d} : dl'[e] = dl[e]
        /\ d # "pass"
        /\ \A n \in Names : /\ PassGoesOn(n) /\ OthersStay(d, n)
                            /\ IF k = n THEN Step(d, n) = dl[d].pc /\ Step(d, n)' = t
                               ELSE Step(d, n)' = Step(d, n)
    BY <1>1, <1>2, <1>3, DownloadMoves DEF Shape
  <2>2. InHand'
    BY <1>1, <1>2, <2>1 DEF Shape, InHand
  <2> QED
    BY <2>1, <2>2
\* Every other replay is left alone.
<1>4. ASSUME NEW t \in {"install", "unpark", "over"}, At(d, t),
             NEW n \in Names \ shared', n # k, live'[n] = live[n], gztmp'[n] = gztmp[n], backup'[n] = backup[n],
             owed' \subseteq owed \cup {k}
      PROVE  Clean(n)'
  <2>1. Clean(n) /\ n \in Names
    BY <1>1, <1>2, <1>4
  <2>2. \A c \in Calls : GoesOn(c, n)
    BY <1>3, <1>4, <2>1 DEF GoesOn, OthersStay
  <2> QED
    BY <1>1, <1>2, <1>3, <1>4, <2>1, <2>2, Calm DEF NotAfter
<1>5. CASE dl[d].pc = "place" /\ At(d, "over") /\ UNCHANGED <<live, gztmp, backup, owed>>
  <2>1. Shape'
    BY <1>1, <1>2, <1>3, <1>5 DEF Shape, Typed
  <2>2. ASSUME NEW n \in Names \ shared'
        PROVE  Clean(n)'
    <3>1. \A c \in Calls : GoesOn(c, n)
      BY <1>3, <1>5 DEF GoesOn, OthersStay, Stagings
    <3> QED
      BY <1>1, <1>2, <1>3, <1>5, <3>1, Calm DEF NotAfter
  <2> QED
    BY <2>1, <2>2 DEF Inv
<1>6. ASSUME NEW t \in {"unpark", "over"}, dl[d].pc \in {"place", "install"}, gztmp[k] # NoFile, Installed(k),
             At(d, t), owed' = owed \cup {k}, UNCHANGED backup
      PROVE  Inv'
  <2>1. /\ live' \in [Names -> File] /\ live'[k] = gztmp[k] /\ \A m \in Names \ {k} : live'[m] = live[m]
        /\ gztmp' \in [Names -> File] /\ gztmp'[k] = NoFile /\ \A m \in Names \ {k} : gztmp'[m] = gztmp[m]
    BY <1>1, <1>2, <1>6 DEF Installed, Shape, Typed
  <2>2. Shape'
    BY <1>1, <1>2, <1>3, <1>6, <2>1 DEF Shape, Typed
  <2>3. ASSUME NEW n \in Names \ shared'
        PROVE  Clean(n)'
    <3>1. Clean(n) /\ n \in Names
      BY <1>1, <1>2
    <3>2. CASE n = k
      BY <1>1, <1>2, <1>3, <1>6, <2>1, <3>1, <3>2, Installs
    <3>3. CASE n # k
      BY <1>4, <1>6, <2>1, <3>1, <3>3
    <3> QED
      BY <3>2, <3>3
  <2> QED
    BY <2>2, <2>3 DEF Inv
<1>7. CASE dl[d].pc = "place" /\ live[k] # NoFile /\ Parked(d, k) /\ At(d, "install")
           /\ UNCHANGED <<gztmp, owed>>
  <2>1. /\ backup' \in [Names -> [Suffixes -> File]] /\ OwnBackup(d, k, live[k])
        /\ \A m \in Names \ {k} : backup'[m] = backup[m]
    BY <1>1, <1>2, <1>7, Backed DEF Parked, Shape
  <2>2. /\ live' \in [Names -> File] /\ live'[k] = NoFile /\ \A m \in Names \ {k} : live'[m] = live[m]
    BY <1>1, <1>2, <1>7 DEF Parked, Shape, Typed
  <2>3. Shape'
    BY <1>1, <1>2, <1>3, <1>7, <2>1, <2>2 DEF Shape, Typed
  <2>4. ASSUME NEW n \in Names \ shared'
        PROVE  Clean(n)'
    <3>1. Clean(n) /\ n \in Names
      BY <1>1, <1>2
    <3>2. CASE n = k
      BY <1>1, <1>2, <1>3, <1>7, <2>1, <2>2, <3>1, <3>2, Parks
    <3>3. CASE n # k
      BY <1>4, <1>7, <2>1, <2>2, <3>1, <3>3
    <3> QED
      BY <3>2, <3>3
  <2> QED
    BY <2>3, <2>4 DEF Inv
<1>8. CASE dl[d].pc = "install" /\ Restored(d, k) /\ At(d, "over") /\ UNCHANGED <<gztmp, owed>>
  <2>1. /\ backup' \in [Names -> [Suffixes -> File]] /\ OwnBackup(d, k, NoFile)
        /\ \A m \in Names \ {k} : backup'[m] = backup[m]
    BY <1>1, <1>2, <1>8, Backed DEF Restored, Shape
  <2>2. /\ live' \in [Names -> File] /\ live'[k] = backup[k][<<d, launch>>]
        /\ \A m \in Names \ {k} : live'[m] = live[m]
    BY <1>1, <1>2, <1>8 DEF Restored, Shape, Typed
  <2>3. Shape'
    BY <1>1, <1>2, <1>3, <1>8, <2>1, <2>2 DEF Shape, Typed
  <2>4. ASSUME NEW n \in Names \ shared'
        PROVE  Clean(n)'
    <3>1. Clean(n) /\ n \in Names
      BY <1>1, <1>2
    <3>2. CASE n = k
      <4>1. Finished(d, n)'
        BY <1>3, <1>8, <3>1, <3>2 DEF Finished
      <4> QED
        BY <1>1, <1>2, <1>3, <1>8, <2>1, <2>2, <3>1, <3>2, <4>1, Restores
    <3>3. CASE n # k
      BY <1>4, <1>8, <2>1, <2>2, <3>1, <3>3
    <3> QED
      BY <3>2, <3>3
  <2> QED
    BY <2>3, <2>4 DEF Inv
<1>9. CASE dl[d].pc = "unpark" /\ backup' = [backup EXCEPT ![k][<<d, launch>>] = NoFile] /\ At(d, "over")
           /\ UNCHANGED <<live, gztmp, owed>>
  <2>1. /\ backup' \in [Names -> [Suffixes -> File]] /\ OwnBackup(d, k, NoFile)
        /\ \A m \in Names \ {k} : backup'[m] = backup[m]
    BY <1>1, <1>2, <1>9, Backed DEF Shape
  <2>2. Shape'
    BY <1>1, <1>2, <1>3, <1>9, <2>1 DEF Shape, Typed
  <2>3. ASSUME NEW n \in Names \ shared'
        PROVE  Clean(n)'
    <3>1. Clean(n) /\ n \in Names
      BY <1>1, <1>2
    <3>2. CASE n = k
      <4>1. Finished(d, n)'
        BY <1>3, <1>9, <3>1, <3>2 DEF Finished
      <4> QED
        BY <1>1, <1>2, <1>3, <1>9, <2>1, <3>1, <3>2, <4>1, Unparks
    <3>3. CASE n # k
      BY <1>4, <1>9, <2>1, <3>1, <3>3
    <3> QED
      BY <3>2, <3>3
  <2> QED
    BY <2>2, <2>3 DEF Inv
<1> QED
  BY <1>5, <1>6, <1>7, <1>8, <1>9 DEF compress_file_to

(***************************************************************************)
(* The sweep of the library, the moves and the kills.                      *)
(***************************************************************************)

LEMMA SweepLooksKeeps ==
  ASSUME Apart, Inv, cleanup_library_leftovers_sync
  PROVE  Inv'
<1>1. Shape /\ \A n \in Names \ shared : Clean(n)
  BY DEF Inv
<1>2. UNCHANGED <<old, live, gztmp, scratch, backup, gen, launch, pass, dl, owed, shared>>
  BY DEF cleanup_library_leftovers_sync
<1>3. /\ sweep'.kind \in SweepKinds /\ sweep'.name \in Names
      /\ sweep'.kind = "backup" =>
           /\ sweep'.of \in Suffixes /\ backup[sweep'.name][sweep'.of] # NoFile
           /\ OldEnough(backup[sweep'.name][sweep'.of]) /\ live[sweep'.name] # NoFile
  <2>1. \/ \E m \in Names : sweep' = [kind |-> "gztmp", name |-> m, of |-> <<>>]
        \/ \E m \in Names : sweep' = [kind |-> "tmp", name |-> m, of |-> <<>>]
        \/ \E m \in Names, x \in Suffixes :
              /\ sweep' = [kind |-> "backup", name |-> m, of |-> x]
              /\ backup[m][x] # NoFile /\ OldEnough(backup[m][x]) /\ live[m] # NoFile
    BY DEF cleanup_library_leftovers_sync, cleanup_leftovers_in_dir, replace_backup_target_present
  <2> QED
    BY <2>1 DEF SweepKinds
<1>4. Shape'
  BY <1>1, <1>2, <1>3 DEF Shape, Typed, InHand
<1>5. ASSUME NEW n \in Names \ shared'
      PROVE  Clean(n)'
  <2>1. Clean(n) /\ n \in Names
    BY <1>1, <1>2
  <2>2. CASE sweep'.kind = "backup" /\ sweep'.name = n
    BY <1>1, <1>2, <1>3, <2>1, <2>2, Eyes
  <2>3. CASE ~(sweep'.kind = "backup" /\ sweep'.name = n)
    <3>1. PassGoesOn(n) /\ \A c \in Calls : GoesOn(c, n)
      BY <1>2, <2>1, NobodyMoves DEF GoesOn
    <3> QED
      BY <1>1, <1>2, <2>1, <2>3, <3>1, Calm DEF NotAfter
  <2> QED
    BY <2>2, <2>3
<1> QED
  BY <1>4, <1>5 DEF Inv

LEMMA SweepRemovesKeeps ==
  ASSUME Apart, Inv, remove_path_if_old
  PROVE  Inv'
<1> DEFINE k == sweep.name
<1>1. Shape /\ \A n \in Names \ shared : Clean(n)
  BY DEF Inv
<1>2. /\ sweep' = NoSweep /\ sweep'.kind = "none" /\ "none" \in SweepKinds /\ NoFile \in File
      /\ UNCHANGED <<old, live, gen, launch, pass, dl, owed, shared>>
  BY <1>1, Files DEF remove_path_if_old, NoSweep, SweepKinds, Shape
<1>3. ASSUME NEW n \in Names
      PROVE  PassGoesOn(n) /\ \A c \in Calls : GoesOn(c, n)
  BY <1>2, NobodyMoves DEF GoesOn
<1>4. CASE sweep.kind \in {"gztmp", "tmp"} /\ backup' = backup
           /\ gztmp' \in {gztmp, [gztmp EXCEPT ![k] = NoFile]}
           /\ scratch' \in {scratch, [scratch EXCEPT ![k] = NoFile]}
  <2>1. gztmp' \in [Names -> File] /\ scratch' \in [Names -> File]
    <3>1. k \in Names
      BY <1>1, <1>4 DEF Shape, InHand
    <3>2. gztmp \in [Names -> File] /\ scratch \in [Names -> File] /\ NoFile \in File
      BY <1>1, <1>2 DEF Shape, Typed
    <3>3. gztmp' \in [Names -> File]
      BY <1>4, <3>1, <3>2
    <3>4. scratch' \in [Names -> File]
      BY <1>4, <3>1, <3>2
    <3> QED
      BY <3>3, <3>4
  <2>2. Shape'
    BY <1>1, <1>2, <1>4, <2>1 DEF Shape, Typed, InHand
  <2>3. ASSUME NEW n \in Names \ shared'
        PROVE  Clean(n)'
    <3>1. Clean(n) /\ n \in Names /\ (gztmp'[n] = gztmp[n] \/ gztmp'[n] = NoFile)
      BY <1>1, <1>2, <1>4 DEF Shape, Typed
    <3> QED
      BY <1>1, <1>2, <1>3, <1>4, <3>1, Calm DEF NotAfter
  <2> QED
    BY <2>2, <2>3 DEF Inv
<1>5. CASE sweep.kind = "backup" /\ backup' = [backup EXCEPT ![k][sweep.of] = NoFile]
           /\ UNCHANGED <<gztmp, scratch>>
  <2>1. k \in Names /\ sweep.of \in Suffixes /\ backup[k] \in [Suffixes -> File]
    BY <1>1, <1>5 DEF Shape, InHand, Typed
  <2>2. backup' = [backup EXCEPT ![k] = [backup[k] EXCEPT ![sweep.of] = NoFile]]
    BY <1>5
  <2>3. /\ backup' \in [Names -> [Suffixes -> File]]
        /\ backup'[k][sweep.of] = NoFile /\ \A x \in Suffixes : x # sweep.of => backup'[k][x] = backup[k][x]
        /\ \A m \in Names \ {k} : backup'[m] = backup[m]
    BY <1>1, <1>2, <2>1, <2>2 DEF Shape, Typed
  <2>4. Shape'
    BY <1>1, <1>2, <1>5, <2>3 DEF Shape, Typed, InHand
  <2>5. ASSUME NEW n \in Names \ shared'
        PROVE  Clean(n)'
    <3>1. Clean(n) /\ n \in Names
      BY <1>1, <1>2
    <3>2. CASE n = k
      BY <1>1, <1>2, <1>5, <2>3, <3>1, <3>2, Sweeps
    <3>3. CASE n # k
      BY <1>1, <1>2, <1>3, <1>5, <2>3, <3>1, <3>3, Calm DEF NotAfter
    <3> QED
      BY <3>2, <3>3
  <2> QED
    BY <2>4, <2>5 DEF Inv
<1> QED
  BY <1>4, <1>5 DEF remove_path_if_old

LEMMA LibraryMovesKeeps ==
  ASSUME Apart, Inv, LibraryMoves
  PROVE  Inv'
<1>1. Shape /\ \A n \in Names \ shared : Clean(n)
  BY DEF Inv
<1>2. /\ gen' = gen + 1 /\ pass.pc \in {"idle", "migrate", "compress"}
      /\ UNCHANGED <<old, live, gztmp, scratch, backup, launch, pass, dl, sweep, owed, shared>>
  BY <1>1 DEF LibraryMoves, Guarded
<1>3. Shape'
  BY <1>1, <1>2 DEF Shape, Typed, InHand
<1>4. ASSUME NEW n \in Names \ shared'
      PROVE  Clean(n)'
  <2>1. PassGoesOn(n) /\ \A c \in Calls : GoesOn(c, n)
    BY <1>2, NobodyMoves DEF GoesOn
  <2> QED
    BY <1>1, <1>2, <2>1, Calm DEF NotAfter
<1> QED
  BY <1>3, <1>4 DEF Inv

LEMMA KillKeeps ==
  ASSUME Apart, Inv, Kill
  PROVE  Inv'
<1>1. Shape /\ \A n \in Names \ shared : Clean(n)
  BY DEF Inv
<1>2. pass' \in [pc : PassSteps, todo : SUBSET Names, name : Names \cup {NoName, "started"}, gen : Nat]
  BY DEF Kill, NoPass, PassSteps
<1>3. dl' \in [Downloads -> [pc : DlSteps, name : Names \cup {NoName}, gen : Nat]]
  BY DEF Kill, NoDownload, DlSteps
<1>4. launch' \in 1..MaxLaunches
  BY <1>1 DEF Kill, Shape, Typed, Apart
<1>5. Typed'
  BY <1>1, <1>2, <1>3, <1>4 DEF Kill, Shape, Typed, NoSweep, SweepKinds
<1>6. InHand'
  BY DEF Kill, InHand, NoPass, NoDownload, NoSweep
<1>7. ASSUME NEW n \in Names \ shared'
      PROVE  Clean(n)'
  BY <1>1, Killed DEF Kill
<1> QED
  BY <1>5, <1>6, <1>7 DEF Inv, Shape

(***************************************************************************)
(* No replay is lost.                                                      *)
(***************************************************************************)

LEMMA InitInv ==
  ASSUME Apart, Init
  PROVE  Inv
<1>1. Shape
  BY InitShape
<1>2. ASSUME NEW n \in Names \ shared
      PROVE  Clean(n)
  <2>1. \A c \in Calls : Step(c, n) = "away"
    BY DEF Init, Step, NoPass, NoDownload, Apart, Calls
  <2>2. /\ live[n] = NoFile /\ gztmp[n] = NoFile /\ sweep.kind = "none"
        /\ \A c \in Calls, l \in 1..MaxLaunches : backup[n][<<c, l>>] = NoFile
    BY DEF Init, NoSweep, Suffixes, Calls
  <2>3. /\ old[n] = NoFile \/ Whole(old[n])
        /\ n \in owed => Whole(old[n])
    BY DEF Init, Plain, Whole, NoFile
  <2>4. OneStages(n) /\ StagedWell(n) /\ LiveWhole(n) /\ ToCompress(n) /\ Recent(n) /\ ParkedWell(n)
    BY <2>1, <2>2 DEF OneStages, StagedWell, LiveWhole, ToCompress, Recent, ParkedWell, Stagings, Calls
  <2>5. ParkedOnce(n) /\ SweptLate(n) /\ Kept(n)
    BY <2>1, <2>2, <2>3 DEF ParkedOnce, SweptLate, Kept, Calls
  <2> QED
    BY <2>4, <2>5 DEF Clean
<1> QED
  BY <1>1, <1>2 DEF Inv

LEMMA NextInv ==
  ASSUME Apart, Inv, [Next]_vars
  PROVE  Inv'
<1>1. CASE UNCHANGED vars
  <2>1. Shape'
    BY <1>1 DEF Inv, Shape, Typed, InHand, vars
  <2>2. ASSUME NEW n \in Names \ shared'
        PROVE  Clean(n)'
    <3>1. PassGoesOn(n) /\ \A c \in Calls : GoesOn(c, n)
      BY <1>1, NobodyMoves DEF GoesOn, vars
    <3> QED
      BY <1>1, <3>1, Calm DEF Inv, NotAfter, vars
  <2> QED
    BY <2>1, <2>2 DEF Inv
<1>2. CASE Next
  BY <1>2, StartPassKeeps, MigrateKeeps, CopyKeeps, SourceKeeps, CompressKeeps, PassStageKeeps, PassVerifyKeeps,
     InPlaceKeeps, StartDownloadKeeps, StoreKeeps, CreateKeeps, DownloadStageKeeps, DownloadVerifyKeeps, StoredKeeps,
     SweepLooksKeeps, SweepRemovesKeeps, LibraryMovesKeeps, KillKeeps DEF Next
<1> QED
  BY <1>1, <1>2

\* The app never loses a replay it has accepted, for any number of replays,
\* downloads, launches and library moves: it is whole where the older version
\* left it, under its name in the library, or in a backup beside it, so long
\* as no two calls staged its compressed copy at once.
THEOREM NoReplayLost ==
  ASSUME Apart
  PROVE  Spec => []ReplayKept
<1>1. Init => Inv
  BY InitInv
<1>2. Inv /\ [Next]_vars => Inv'
  BY NextInv
<1>3. Inv => ReplayKept
  <2> SUFFICES ASSUME Inv, NEW n \in owed \ shared
               PROVE  KeptSomewhere(n)
    BY DEF ReplayKept
  <2>1. n \in Names /\ Clean(n)
    BY DEF Inv, Shape, Typed
  <2>2. Whole(old[n]) \/ Held(n)
    BY <2>1 DEF Clean, Kept
  <2>3. \A c \in Calls, l \in 1..MaxLaunches : <<c, l>> \in Suffixes
    BY DEF Suffixes, Calls
  <2> QED
    BY <2>2, <2>3 DEF Held, KeptSomewhere
<1> QED
  BY <1>1, <1>2, <1>3, PTL DEF Spec

=============================================================================
