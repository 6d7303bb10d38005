----------------------------- MODULE Files_proofs -----------------------------
(***************************************************************************)
(* What a person wrote survives the programs that rewrite the same files,  *)
(* for any number of files, edits and runs: `sibyl migrate` as far as its  *)
(* comparison of sizes can tell (GuidedMigration), `sibyl setup` while its *)
(* markers are left alone (HostSetup), and the context trim with its undo  *)
(* until one run takes away what another relies on (ContextTrim).          *)
(***************************************************************************)
EXTENDS GuidedMigration, ContextTrim, HostSetup, SequenceTheorems, TLAPS

Contents == [edit : Nat, whole : {0, 1}, size : Nat]
AtWork == phase # "idle"

TypesOK ==
  /\ live \in [HostFiles -> Contents]
  /\ folders \in [Seconds -> [HostFiles -> Contents \union {NoCopy}]]
  /\ foldersMade \subseteq Seconds /\ now \in Seconds
  /\ phase \in {"idle", "copy", "wire", "extract", "trim", "ask", "replace"}
  /\ folder \in Seconds /\ (AtWork => folder \in foldersMade)
  /\ todo \subseteq HostFiles
  /\ phase \in {"ask", "replace"} => chosen \in HostFiles
  /\ rewrites \in Nat

\* An edit has a number of its own, a file is never empty, and a copy of a text
\* that is still whole in its file is whole too, or was cut to nothing.
CopiesTrue ==
  /\ \A f \in HostFiles : live[f].edit <= rewrites /\ live[f].size > 0
  /\ \A s \in Seconds, f \in HostFiles :
       folders[s][f] \in Contents =>
         /\ folders[s][f].edit <= rewrites
         /\ folders[s][f].edit = live[f].edit /\ live[f].whole = 1 =>
              folders[s][f].whole = 1 \/ folders[s][f].size = 0

\* A folder is filled once, by the run that made it.
FoldersFresh ==
  /\ \A s \in Seconds \ foldersMade : \A f \in HostFiles : folders[s][f] = NoCopy
  /\ phase = "copy" => \A f \in todo : CopyOf(f) = NoCopy

\* About to replace a file: its edit is safe, excused or will be.
SafeToReplace ==
  phase = "replace" =>
    \/ chosen \in excused \/ live[chosen].whole = 0 \/ Hidden(chosen)
    \/ Holds(CopyOf(chosen), live[chosen].edit)

MigrationInv == TypesOK /\ CopiesTrue /\ FoldersFresh /\ SafeToReplace /\ NoEditLost

LEMMA MigrationStart == MigrationInit => MigrationInv
<1> SUFFICES ASSUME MigrationInit PROVE MigrationInv
  OBVIOUS
<1>1. 0 \in Seconds
  BY MigrationBounds DEF Seconds
<1>2. TypesOK
  BY <1>1 DEF MigrationInit, TypesOK, Contents, AtWork
<1>3. CopiesTrue /\ FoldersFresh /\ SafeToReplace /\ NoEditLost
  BY MigrationBounds DEF MigrationInit, Contents, CopiesTrue, FoldersFresh, SafeToReplace, NoEditLost
<1>4. QED
  BY <1>2, <1>3 DEF MigrationInv

LEMMA MigrationStep == MigrationInv /\ [MigrationNext]_migrationVars => MigrationInv'
<1> SUFFICES ASSUME MigrationInv, [MigrationNext]_migrationVars PROVE MigrationInv'
  OBVIOUS
<1>1. TypesOK /\ CopiesTrue /\ FoldersFresh /\ SafeToReplace /\ NoEditLost
  BY DEF MigrationInv
<1>2. /\ 0 \in Seconds /\ Seconds \subseteq Nat /\ Trimmable \subseteq HostFiles /\ WiredFiles \subseteq HostFiles
      /\ \A n \in Sizes : n \in Nat /\ n > 1
      /\ NoCopy \notin Contents
  BY MigrationBounds DEF Seconds, Contents
\* A step of the command that touches no file and no copy.
<1>3. ASSUME /\ UNCHANGED <<live, folders, foldersMade, folder, rewrites, excused>>
             /\ now' \in Seconds /\ todo' \subseteq HostFiles
             /\ phase' \in {"idle", "wire", "extract", "trim", "ask", "replace"}
                \/ (phase' = "copy" /\ phase = "copy" /\ todo' \subseteq todo)
             /\ phase = "idle" => phase' = "idle"
             /\ phase' \in {"ask", "replace"} => chosen' \in HostFiles
             /\ SafeToReplace'
      PROVE  MigrationInv'
  <2>1. TypesOK'
    BY <1>1, <1>3 DEF TypesOK, AtWork
  <2>2. CopiesTrue' /\ NoEditLost'
    BY <1>1, <1>3 DEF CopiesTrue, NoEditLost, Holds
  <2>3. FoldersFresh'
    BY <1>1, <1>3 DEF FoldersFresh, CopyOf
  <2>4. QED
    BY <1>3, <2>1, <2>2, <2>3 DEF MigrationInv
<1>4. CASE BeginMigration
  <2>1. CASE FolderFree
    <3>1. /\ folder' = now /\ foldersMade' = foldersMade \union {now} /\ phase' = "copy" /\ todo' = HostFiles
          /\ UNCHANGED <<worldVars, folders, baseline, chosen, excused>> /\ now \notin foldersMade
      BY <1>4, <2>1 DEF BeginMigration, GoesTo, FolderFree
    <3>2. TypesOK'
      BY <1>1, <3>1 DEF TypesOK, AtWork, worldVars
    <3>3. CopiesTrue' /\ SafeToReplace' /\ NoEditLost'
      BY <1>1, <3>1 DEF CopiesTrue, SafeToReplace, NoEditLost, worldVars, Holds
    <3>4. FoldersFresh'
      BY <1>1, <3>1 DEF TypesOK, FoldersFresh, CopyOf, worldVars
    <3>5. QED
      BY <3>2, <3>3, <3>4 DEF MigrationInv
  <2>2. CASE ~FolderFree
    <3>1. SafeToReplace'
      BY <1>4, <2>2 DEF BeginMigration, GoesTo, SafeToReplace
    <3>2. QED
      BY <1>1, <1>3, <1>4, <2>2, <3>1 DEF BeginMigration, GoesTo, worldVars, TypesOK
  <2>3. QED
    BY <2>1, <2>2
<1>5. CASE Abort \/ Baseline \/ CountAgain \/ Finish \/ Kill
  <2>1. phase' # "replace" /\ phase' # "ask" /\ phase # "idle"
    BY <1>5 DEF Abort, Baseline, CountAgain, Finish, Kill, GoesTo
  <2>2. SafeToReplace'
    BY <2>1 DEF SafeToReplace
  <2>3. QED
    BY <1>1, <1>2, <1>3, <1>5, <2>1, <2>2
       DEF Abort, Baseline, CountAgain, Finish, Kill, GoesTo, worldVars, TypesOK
<1>6. ASSUME NEW f \in HostFiles, Offer(f) PROVE MigrationInv'
  <2>1. SafeToReplace'
    BY <1>6 DEF Offer, GoesTo, SafeToReplace
  <2>2. QED
    BY <1>1, <1>3, <1>6, <2>1 DEF Offer, GoesTo, worldVars, TypesOK
<1>7. CASE AnswerTrim
  <2>1. SafeToReplace'
    <3>1. SUFFICES ASSUME phase' = "replace" PROVE SafeToReplace'
      BY DEF SafeToReplace
    <3>2. Reverified(chosen) /\ chosen' = chosen /\ chosen \in HostFiles /\ folder \in Seconds
      BY <1>1, <1>7, <3>1 DEF AnswerTrim, GoesTo, TypesOK
    <3>3. /\ CopyOf(chosen) \in Contents /\ CopyOf(chosen) # NoCopy
          /\ CopyOf(chosen).size = live[chosen].size /\ live[chosen].size > 0
      BY <1>1, <3>2 DEF Reverified, CopyOf, TypesOK, CopiesTrue
    <3>4. \/ live[chosen].whole = 0 \/ Hidden(chosen)
          \/ Holds(CopyOf(chosen), live[chosen].edit)
      <4>1. live[chosen].whole = 0 \/ live[chosen].whole = 1
        BY <1>1, <3>2 DEF TypesOK, Contents
      <4>2. CASE CopyOf(chosen).edit # live[chosen].edit
        BY <3>3, <4>2 DEF Hidden
      <4>3. CASE CopyOf(chosen).edit = live[chosen].edit /\ live[chosen].whole = 1
        BY <1>1, <3>2, <3>3, <4>3 DEF CopiesTrue, CopyOf, Holds
      <4>4. QED
        BY <4>1, <4>2, <4>3
    <3>5. QED
      BY <1>7, <3>2, <3>4 DEF AnswerTrim, SafeToReplace, Hidden, CopyOf, worldVars
  <2>2. QED
    BY <1>1, <1>3, <1>7, <2>1 DEF AnswerTrim, GoesTo, worldVars, TypesOK
<1>8. ASSUME NEW f \in HostFiles, CopyFile(f) PROVE MigrationInv'
  <2>1. /\ phase = "copy" /\ f \in todo /\ folder \in Seconds /\ folder \in foldersMade
        /\ CopyOf(f) = NoCopy
        /\ folders' = [folders EXCEPT ![folder][f] = live[f]]
        /\ UNCHANGED <<live, now, rewrites, foldersMade, folder, chosen, excused>>
        /\ phase' \in {"copy", "wire"} /\ todo' \subseteq HostFiles /\ (phase' = "copy" => todo' = todo \ {f})
    BY <1>1, <1>2, <1>8 DEF CopyFile, GoesTo, TypesOK, AtWork, FoldersFresh, worldVars
  <2>2. /\ folders' \in [Seconds -> [HostFiles -> Contents \union {NoCopy}]]
        /\ folders'[folder][f] = live[f]
        /\ \A s \in Seconds, g \in HostFiles :
             s # folder \/ g # f => folders'[s][g] = folders[s][g]
    BY <1>1, <2>1 DEF TypesOK
  <2>3. TypesOK'
    BY <1>1, <2>1, <2>2 DEF TypesOK, AtWork
  <2>4. CopiesTrue'
    BY <1>1, <2>1, <2>2 DEF TypesOK, CopiesTrue
  <2>5. FoldersFresh'
    BY <1>1, <2>1, <2>2 DEF TypesOK, FoldersFresh, CopyOf
  <2>6. NoEditLost'
    <3>1. \A s \in foldersMade, g \in HostFiles :
            Holds(folders[s][g], live[g].edit) => Holds(folders'[s][g], live'[g].edit)
      BY <1>1, <2>1, <2>2 DEF TypesOK, Holds, CopyOf
    <3>2. QED
      BY <1>1, <2>1, <3>1 DEF NoEditLost
  <2>7. QED
    BY <2>1, <2>3, <2>4, <2>5, <2>6 DEF MigrationInv, SafeToReplace
<1>9. ASSUME NEW f \in HostFiles, WireFile(f) PROVE MigrationInv'
  <2>1. /\ phase = "wire" /\ phase' = "wire" /\ todo' \subseteq todo
        /\ UNCHANGED <<now, rewrites, folders, foldersMade, folder, chosen, excused>>
        /\ live' \in {live, [live EXCEPT ![f].size = @ + 1]}
    BY <1>9 DEF WireFile, GoesTo
  <2>2. /\ live' \in [HostFiles -> Contents]
        /\ \A g \in HostFiles : /\ live'[g].edit = live[g].edit /\ live'[g].whole = live[g].whole
                                /\ live'[g].size > 0
    <3> DEFINE new == [edit |-> live[f].edit, whole |-> live[f].whole, size |-> live[f].size + 1]
    <3>1. /\ live[f] \in Contents /\ live \in [HostFiles -> Contents]
          /\ \A g \in HostFiles : live[g].size > 0
      BY <1>1 DEF TypesOK, CopiesTrue
    <3>2. new \in Contents /\ [live[f] EXCEPT !.size = @ + 1] = new /\ live[f].size + 1 > 0
      BY <3>1 DEF Contents
    <3>3. live' = live \/ live' = [live EXCEPT ![f] = new]
      BY <2>1, <3>2, Zenon
    <3>4. QED
      BY <3>1, <3>2, <3>3
  <2>3. TypesOK'
    BY <1>1, <2>1, <2>2 DEF TypesOK, AtWork
  <2>4. CopiesTrue' /\ NoEditLost'
    BY <1>1, <2>1, <2>2 DEF CopiesTrue, NoEditLost
  <2>5. FoldersFresh' /\ SafeToReplace'
    BY <1>1, <2>1 DEF FoldersFresh, SafeToReplace
  <2>6. QED
    BY <2>3, <2>4, <2>5 DEF MigrationInv
<1>10. CASE Replace
  <2>1. /\ phase = "replace" /\ chosen \in HostFiles /\ phase' = "trim" /\ todo' = todo
        /\ live' = [live EXCEPT ![chosen] = [edit |-> @.edit, whole |-> 0, size |-> LeanSize]]
        /\ UNCHANGED <<now, rewrites, folders, foldersMade, folder, chosen>>
    BY <1>1, <1>10 DEF Replace, GoesTo, TypesOK
  <2>2. /\ live' \in [HostFiles -> Contents]
        /\ \A g \in HostFiles : /\ live'[g].edit = live[g].edit /\ live'[g].size > 0
                                /\ g # chosen => live'[g] = live[g]
                                /\ live'[g].whole = 1 => live[g].whole = 1
    <3> DEFINE new == [edit |-> live[chosen].edit, whole |-> 0, size |-> 1]
    <3>1. /\ live[chosen] \in Contents /\ live \in [HostFiles -> Contents]
          /\ \A g \in HostFiles : live[g].size > 0
      BY <1>1, <2>1 DEF TypesOK, CopiesTrue
    <3>2. new \in Contents /\ new.edit = live[chosen].edit /\ new.whole # 1 /\ new.size > 0
      BY <3>1 DEF Contents
    <3>3. live' = [live EXCEPT ![chosen] = new]
      BY <2>1 DEF LeanSize
    <3> HIDE DEF new
    <3>4. QED
      BY <2>1, <3>1, <3>2, <3>3
  <2>3. TypesOK'
    BY <1>1, <2>1, <2>2 DEF TypesOK, AtWork
  <2>4. CopiesTrue' /\ FoldersFresh' /\ SafeToReplace'
    BY <1>1, <2>1, <2>2 DEF CopiesTrue, FoldersFresh, SafeToReplace
  <2>5. excused \subseteq excused' /\ (Hidden(chosen) => chosen \in excused')
    BY <1>10 DEF Replace
  <2>6. NoEditLost'
    <3>1. ASSUME NEW g \in HostFiles, g # chosen
          PROVE  \/ live'[g].whole = 1 \/ g \in excused'
                 \/ \E s \in foldersMade' : Holds(folders'[s][g], live'[g].edit)
      BY <1>1, <2>1, <2>2, <2>5, <3>1 DEF NoEditLost
    <3>2. \/ chosen \in excused'
          \/ \E s \in foldersMade' : Holds(folders'[s][chosen], live'[chosen].edit)
      <4>1. folder \in foldersMade
        BY <1>1, <2>1 DEF TypesOK, AtWork
      <4>2. CASE live[chosen].whole = 0
        BY <1>1, <2>1, <2>2, <2>5, <4>2 DEF NoEditLost
      <4>3. CASE Holds(CopyOf(chosen), live[chosen].edit)
        BY <2>1, <2>2, <4>1, <4>3 DEF CopyOf
      <4>4. QED
        BY <1>1, <2>1, <2>5, <4>2, <4>3 DEF SafeToReplace
    <3>3. QED
      BY <3>1, <3>2 DEF NoEditLost
  <2>7. QED
    BY <2>3, <2>4, <2>6 DEF MigrationInv
<1>11. ASSUME NEW f \in HostFiles, NEW size \in Sizes, PersonWrites(f, size) PROVE MigrationInv'
  <2>1. /\ live' = [live EXCEPT ![f] = [edit |-> rewrites + 1, whole |-> 1, size |-> size]]
        /\ rewrites' = rewrites + 1
        /\ UNCHANGED <<folders, foldersMade, now, phase, folder, todo, chosen>>
        /\ excused' = IF phase = "replace" /\ f = chosen THEN excused \union {f} ELSE excused \ {f}
    BY <1>11 DEF PersonWrites
  <2>2. /\ live' \in [HostFiles -> Contents] /\ rewrites' \in Nat /\ rewrites' > rewrites
        /\ live'[f].edit = rewrites' /\ live'[f].whole = 1 /\ live'[f].size > 0
        /\ \A g \in HostFiles \ {f} : live'[g] = live[g]
    BY <1>1, <1>2, <2>1 DEF TypesOK, Contents
  <2>3. TypesOK'
    BY <1>1, <2>1, <2>2 DEF TypesOK, AtWork
  <2>4. CopiesTrue'
    BY <1>1, <2>1, <2>2 DEF TypesOK, Contents, CopiesTrue
  <2>5. FoldersFresh'
    BY <1>1, <2>1 DEF FoldersFresh, CopyOf
  <2>6. SafeToReplace' /\ NoEditLost'
    BY <1>1, <2>1, <2>2 DEF TypesOK, SafeToReplace, NoEditLost, Hidden, CopyOf
  <2>7. QED
    BY <2>3, <2>4, <2>5, <2>6 DEF MigrationInv
<1>12. ASSUME NEW f \in HostFiles, LoseCopy(f) PROVE MigrationInv'
  <2>1. /\ phase \in {"wire", "extract", "trim", "ask"} /\ CopyOf(f) # NoCopy /\ live[f].whole = 1
        /\ folders' \in {[folders EXCEPT ![folder][f] = NoCopy],
                         [folders EXCEPT ![folder][f] = [edit |-> @.edit, whole |-> 0, size |-> 0]]}
        /\ UNCHANGED <<live, now, rewrites, foldersMade, phase, folder, todo, chosen, excused>>
        /\ folder \in foldersMade /\ folder \in Seconds
    BY <1>1, <1>12 DEF LoseCopy, worldVars, TypesOK, AtWork
  <2>2. /\ folders' \in [Seconds -> [HostFiles -> Contents \union {NoCopy}]]
        /\ folders'[folder][f] # NoCopy =>
             folders'[folder][f].edit = folders[folder][f].edit /\ folders'[folder][f].size = 0
        /\ \A s \in Seconds, g \in HostFiles :
             s # folder \/ g # f => folders'[s][g] = folders[s][g]
    <3> DEFINE cut == [edit |-> folders[folder][f].edit, whole |-> 0, size |-> 0]
    <3>1. /\ folders \in [Seconds -> [HostFiles -> Contents \union {NoCopy}]]
          /\ folder \in Seconds /\ folders[folder][f] \in Contents
      BY <1>1, <2>1 DEF TypesOK, CopyOf
    <3>2. cut \in Contents /\ cut.edit = folders[folder][f].edit /\ cut.size = 0
      BY <3>1 DEF Contents
    <3>3. \/ folders' = [folders EXCEPT ![folder][f] = NoCopy]
          \/ folders' = [folders EXCEPT ![folder][f] = cut]
      BY <2>1
    <3> HIDE DEF cut
    <3>4. QED
      BY <2>1, <3>1, <3>2, <3>3
  <2>3. TypesOK'
    BY <1>1, <2>1, <2>2 DEF TypesOK, AtWork
  <2>4. CopiesTrue'
    <3>1. folders[folder][f] \in Contents
      BY <1>1, <2>1 DEF TypesOK, CopyOf
    <3>2. \A g \in HostFiles : live'[g] = live[g] /\ live[g].edit <= rewrites /\ live[g].size > 0
      BY <1>1, <2>1 DEF CopiesTrue
    <3>3. ASSUME NEW s \in Seconds, NEW g \in HostFiles, folders'[s][g] \in Contents
          PROVE  /\ folders'[s][g].edit <= rewrites
                 /\ folders'[s][g].edit = live[g].edit /\ live[g].whole = 1 =>
                      folders'[s][g].whole = 1 \/ folders'[s][g].size = 0
      <4>1. CASE s = folder /\ g = f
        BY <1>1, <1>2, <2>1, <2>2, <3>1, <3>3, <4>1 DEF CopiesTrue
      <4>2. CASE s # folder \/ g # f
        BY <1>1, <2>2, <3>3, <4>2 DEF CopiesTrue
      <4>3. QED
        BY <4>1, <4>2
    <3>4. QED
      BY <2>1, <3>2, <3>3 DEF CopiesTrue
  <2>5. FoldersFresh' /\ SafeToReplace'
    <3>1. \A s \in Seconds \ foldersMade : s # folder
      BY <2>1
    <3>2. \A s \in Seconds \ foldersMade, g \in HostFiles : folders'[s][g] = NoCopy
      BY <1>1, <2>2, <3>1 DEF FoldersFresh
    <3>3. phase' # "copy" /\ phase' # "replace" /\ foldersMade' = foldersMade
      BY <2>1
    <3>4. QED
      BY <3>2, <3>3 DEF FoldersFresh, SafeToReplace
  <2>6. NoEditLost'
    BY <1>1, <2>1, <2>2 DEF TypesOK, NoEditLost
  <2>7. QED
    BY <2>3, <2>4, <2>5, <2>6 DEF MigrationInv
<1>13. CASE Extract \/ NextSecond \/ UNCHANGED migrationVars
  <2>1. /\ UNCHANGED <<live, folders, foldersMade, folder, rewrites, excused, phase, todo, chosen>>
        /\ now' \in Seconds
    BY <1>1, <1>13, MigrationBounds DEF Extract, NextSecond, migrationVars, TypesOK, Seconds
  <2>2. SafeToReplace'
    BY <1>1, <2>1 DEF SafeToReplace, Hidden, CopyOf
  <2>3. QED
    BY <1>1, <1>3, <2>1, <2>2 DEF TypesOK
<1>14. QED
  BY <1>4, <1>5, <1>6, <1>7, <1>8, <1>9, <1>10, <1>11, <1>12, <1>13 DEF MigrationNext

\* Whatever `sibyl migrate` copies, wires, asks, trims and is killed in: what a
\* person wrote last is in the file or in a backup folder, but where the sizes
\* of two texts were equal or the edit fell between the last look and the write.
THEOREM EditsSurviveMigration == MigrationSpec => []NoEditLost
<1>1. MigrationInv => NoEditLost
  BY DEF MigrationInv
<1>2. QED
  BY MigrationStart, MigrationStep, <1>1, PTL DEF MigrationSpec

-----------------------------------------------------------------------------
(* `sibyl setup`.  While nobody edits its markers, the block in AGENTS.md   *)
(* is the two of them side by side: putting it in or taking it out leaves   *)
(* every other line.                                                        *)

Lines == Edits \union {Begin, End}

\* The block begins at b, or there is none.
BlockAt(text, b) ==
  IF b = 0 THEN \A i \in 1..Len(text) : text[i] \in Edits
  ELSE /\ b + 1 <= Len(text) /\ text[b] = Begin /\ text[b + 1] = End
       /\ \A i \in 1..Len(text) : i \notin {b, b + 1} => text[i] \in Edits

OneBlock(text) == text \in Seq(Lines) /\ \E b \in 0..Len(text) : BlockAt(text, b)

LEMMA SequenceParts ==
  ASSUME NEW S, NEW s \in Seq(S)
  PROVE  /\ Len(s) \in Nat /\ DOMAIN s = 1..Len(s)
         /\ \A i \in 1..Len(s) : s[i] \in S
OBVIOUS

LEMMA BlockFound ==
  ASSUME NEW text \in Seq(Lines), NEW b \in 0..Len(text), BlockAt(text, b)
  PROVE  FirstBegin(text) = b /\ BlockEnd(text) = IF b = 0 THEN 0 ELSE b + 1
<1> DEFINE I == {i \in 1..Len(text) : text[i] = Begin}
           J == {i \in b..Len(text) : text[i] = End}
<1>0. Len(text) \in Nat /\ b \in Nat /\ Begin \notin Edits /\ End \notin Edits /\ Begin # End
  BY SetupConstants DEF Begin, End
<1>1. FirstBegin(text) = IF I # {} THEN Min(I) ELSE 0
  BY DEF FirstBegin, SelectInSeq
<1>2. CASE b = 0
  <2>1. I = {}
    BY <1>0, <1>2 DEF BlockAt
  <2>2. FirstBegin(text) = 0
    BY <1>1, <2>1
  <2>3. QED
    BY <1>2, <2>2 DEF BlockEnd
<1>3. CASE b # 0
  <2>1. I = {b} /\ J = {b + 1}
    BY <1>0, <1>3 DEF BlockAt
  <2>2. Min(I) = b /\ Min(J) = b + 1
    BY <1>0, <2>1 DEF Min
  <2>3. FirstBegin(text) = b
    BY <1>1, <2>1, <2>2
  <2>4. BlockEnd(text) = IF J # {} THEN Min(J) ELSE 0
    BY <1>3, <2>3 DEF BlockEnd, SelectInSubSeq
  <2>5. QED
    BY <1>3, <2>1, <2>2, <2>3, <2>4
<1>4. QED
  BY <1>2, <1>3

\* Text up to i, something between, and text from m on.
Splice(text, i, mid, m) == SubSeq(text, 1, i) \o mid \o SubSeq(text, m, Len(text))

SpliceParts(new, text, i, mid, m) ==
  /\ new \in Seq(Lines) /\ Len(new) = i + Len(mid) + (Len(text) + 1 - m)
  /\ \A j \in 1..(i + Len(mid) + (Len(text) + 1 - m)) :
       new[j] = IF j <= i THEN text[j]
                ELSE IF j <= i + Len(mid) THEN mid[j - i]
                ELSE text[(j - i - Len(mid)) + (m - 1)]

LEMMA Spliced ==
  ASSUME NEW text \in Seq(Lines), NEW mid \in Seq(Lines), NEW i \in Nat, NEW m \in Nat,
         i < m, m <= Len(text) + 1
  PROVE  SpliceParts(Splice(text, i, mid, m), text, i, mid, m)
<1> DEFINE S == Lines
           k == m - 1
           new == Splice(text, i, mid, m)
<1> DEFINE before == SubSeq(text, 1, i)
           after == SubSeq(text, m, Len(text))
           front == before \o mid
<1>1. Len(text) \in Nat /\ Len(mid) \in Nat
  OBVIOUS
<1>11. k \in Nat /\ i <= k /\ k <= Len(text) /\ m = k + 1 /\ Len(text) + 1 - m = Len(text) - k
  BY <1>1
<1>2. /\ before \in Seq(S) /\ Len(before) = i
      /\ \A j \in 1..i : before[j] = text[j]
  BY <1>1
<1>3. /\ after \in Seq(S) /\ Len(after) = Len(text) - k
      /\ \A j \in 1..(Len(text) - k) : after[j] = text[k + j]
  <2>1. after = SubSeq(text, k + 1, Len(text))
    BY <1>11
  <2> HIDE DEF k
  <2>2. QED
    BY <1>1, <1>11, <2>1
<1>4. new = front \o after
  BY DEF Splice
<1> HIDE DEF before, after, new, k, S
<1>5. /\ front \in Seq(S) /\ Len(front) = i + Len(mid)
      /\ \A j \in 1..(i + Len(mid)) : front[j] = IF j <= i THEN before[j] ELSE mid[j - i]
  <2>1. before \in Seq(S) /\ mid \in Seq(S)
    BY <1>2 DEF S
  <2>2. QED
    BY <1>2, <2>1, ConcatProperties
<1> HIDE DEF front
<1> DEFINE total == i + Len(mid) + (Len(text) - k)
<1>6. /\ new \in Seq(S) /\ Len(new) = i + Len(mid) + (Len(text) - k)
      /\ \A j \in 1..(i + Len(mid) + (Len(text) - k)) :
           new[j] = IF j <= i + Len(mid) THEN front[j] ELSE after[j - (i + Len(mid))]
  <2>1. /\ front \o after \in Seq(S) /\ Len(front \o after) = Len(front) + Len(after)
        /\ \A j \in 1..(Len(front) + Len(after)) :
             (front \o after)[j] = IF j <= Len(front) THEN front[j] ELSE after[j - Len(front)]
    <3>1. front \in Seq(S) /\ after \in Seq(S)
      BY <1>3, <1>5
    <3>2. QED
      BY <3>1, ConcatProperties
  <2>2. QED
    BY <1>3, <1>4, <1>5, <2>1
<1>61. Len(new) = i + Len(mid) + (Len(text) - k)
  BY <1>6
<1>7. ASSUME NEW j, j \in 1..total
      PROVE  new[j] = IF j <= i THEN text[j]
                      ELSE IF j <= i + Len(mid) THEN mid[j - i]
                      ELSE text[(j - i - Len(mid)) + k]
  <2>1. j \in 1..(i + Len(mid) + (Len(text) - k)) /\ j \in Nat
    BY <1>1, <1>7, <1>11
  <2>2. new[j] = IF j <= i + Len(mid) THEN front[j] ELSE after[j - (i + Len(mid))]
    BY <1>6, <2>1
  <2>3. CASE j <= i + Len(mid)
    <3>1. front[j] = IF j <= i THEN before[j] ELSE mid[j - i]
      BY <1>1, <1>5, <2>1, <2>3
    <3>2. j <= i => before[j] = text[j]
      BY <1>2, <2>1
    <3>3. QED
      BY <1>1, <2>1, <2>2, <2>3, <3>1, <3>2
  <2>4. CASE j > i + Len(mid)
    <3>1. /\ j - (i + Len(mid)) \in 1..(Len(text) - k)
          /\ k + (j - (i + Len(mid))) = (j - i - Len(mid)) + k
          /\ ~(j <= i) /\ ~(j <= i + Len(mid))
      BY <1>1, <1>11, <2>1, <2>4
    <3>2. after[j - (i + Len(mid))] = text[(j - i - Len(mid)) + k]
      BY <1>3, <3>1
    <3>3. QED
      BY <2>2, <3>1, <3>2
  <2>5. j <= i + Len(mid) \/ j > i + Len(mid)
    BY <1>1, <2>1
  <2>6. QED
    BY <2>3, <2>4, <2>5
<1>8. /\ new \in Seq(S) /\ Len(new) = i + Len(mid) + (Len(text) - k)
      /\ \A j \in 1..(i + Len(mid) + (Len(text) - k)) :
           new[j] = IF j <= i THEN text[j]
                    ELSE IF j <= i + Len(mid) THEN mid[j - i]
                    ELSE text[(j - i - Len(mid)) + k]
  BY <1>6, <1>7
<1>9. QED
  BY <1>8, <1>11 DEF new, k, S, SpliceParts

\* Everything a person wrote is in the text that is written, in one block at most.
KeepsLines(text, new) ==
  /\ OneBlock(new)
  /\ \A e \in Edits : e \in ToSet(text) => e \in ToSet(new)

LEMMA UpsertKeeps ==
  ASSUME NEW text, OneBlock(text)
  PROVE  KeepsLines(text, Upserted(text))
<1>1. PICK b \in 0..Len(text) : BlockAt(text, b)
  BY DEF OneBlock
<1>2. /\ text \in Seq(Lines) /\ Len(text) \in Nat /\ b \in Nat /\ Begin \in Lines /\ End \in Lines
      /\ Begin \notin Edits /\ End \notin Edits
  BY SetupConstants DEF OneBlock, Lines
<1>3. FirstBegin(text) = b /\ BlockEnd(text) = IF b = 0 THEN 0 ELSE b + 1
  BY <1>1, <1>2, BlockFound
<1>4. CASE b = 0
  <2> DEFINE new == text \o <<Begin, End>>
  <2>1. /\ new \in Seq(Lines) /\ Len(new) = Len(text) + 2
        /\ \A i \in 1..Len(text) : new[i] = text[i]
        /\ new[Len(text) + 1] = Begin /\ new[Len(text) + 2] = End
    BY <1>2
  <2>2. Upserted(text) = new
    BY <1>3, <1>4 DEF Upserted
  <2> HIDE DEF new
  <2>3. BlockAt(new, Len(text) + 1)
    BY <1>1, <1>2, <1>4, <2>1 DEF BlockAt
  <2>4. OneBlock(new)
    BY <1>2, <2>1, <2>3 DEF OneBlock
  <2>5. ToSet(text) \subseteq ToSet(new)
    BY <1>2, <2>1 DEF ToSet
  <2>6. QED
    BY <2>2, <2>4, <2>5 DEF KeepsLines
<1>5. CASE b # 0
  <2> DEFINE new == SubSeq(text, 1, b - 1) \o <<Begin, End>> \o SubSeq(text, b + 2, Len(text))
  <2>1. b + 1 <= Len(text) /\ text[b] = Begin /\ text[b + 1] = End
    BY <1>1, <1>5 DEF BlockAt
  <2>2. FirstBegin(text) = b /\ BlockEnd(text) = b + 1 /\ b + 1 # 0 /\ b + 1 + 1 = b + 2
    BY <1>2, <1>3, <1>5
  <2>3. Upserted(text) = new
    BY <2>2 DEF Upserted, WithBlock
  <2>4. <<Begin, End>> \in Seq(Lines) /\ Len(<<Begin, End>>) = 2 /\ b - 1 \in Nat /\ b + 1 \in Nat
        /\ b - 1 <= b + 1
    BY <1>2, <1>5
  <2>5. /\ new \in Seq(Lines) /\ Len(new) = (b - 1) + 2 + (Len(text) - (b + 1))
        /\ \A j \in 1..Len(new) :
             new[j] = IF j <= b - 1 THEN text[j]
                      ELSE IF j <= (b - 1) + 2 THEN <<Begin, End>>[j - (b - 1)]
                      ELSE text[(j - (b - 1) - 2) + (b + 1)]
    <3>1. new = SubSeq(text, 1, b - 1) \o <<Begin, End>> \o SubSeq(text, b + 2, Len(text))
      BY <2>2
    <3> HIDE DEF new
    <3> DEFINE mid == <<Begin, End>>
               lo == b - 1
               rest == b + 2
    <3>2. mid \in Seq(Lines) /\ Len(mid) = 2
      BY <2>4
    <3>3. /\ new = Splice(text, lo, mid, rest)
          /\ lo \in Nat /\ rest \in Nat /\ lo < rest /\ rest <= Len(text) + 1
          /\ text \in Seq(Lines) /\ mid \in Seq(Lines)
      BY <1>2, <2>1, <2>4, <3>1 DEF Splice
    <3> HIDE DEF mid, lo, rest
    <3>4. /\ new \in Seq(Lines) /\ Len(new) = lo + Len(mid) + (Len(text) + 1 - rest)
          /\ \A j \in 1..(lo + Len(mid) + (Len(text) + 1 - rest)) :
               new[j] = IF j <= lo THEN text[j]
                        ELSE IF j <= lo + Len(mid) THEN mid[j - lo]
                        ELSE text[(j - lo - Len(mid)) + (rest - 1)]
      <4>1. SpliceParts(Splice(text, lo, mid, rest), text, lo, mid, rest)
        BY <3>3, Spliced
      <4>2. QED
        BY <3>3, <4>1 DEF SpliceParts
    <3>5. Len(text) + 1 - rest = Len(text) - (b + 1) /\ rest - 1 = b + 1
      BY <1>2 DEF rest
    <3>6. QED
      BY <3>2, <3>4, <3>5 DEF mid, lo
  <2> HIDE DEF new
  <2>6. Len(new) = Len(text) /\ \A j \in 1..Len(text) : new[j] = text[j]
    <3>1. Len(new) = Len(text)
      BY <1>2, <2>1, <2>5
    <3>2. SUFFICES ASSUME NEW j \in 1..Len(text) PROVE new[j] = text[j]
      BY <3>1
    <3>3. new[j] = IF j <= b - 1 THEN text[j]
                   ELSE IF j <= (b - 1) + 2 THEN <<Begin, End>>[j - (b - 1)]
                   ELSE text[(j - (b - 1) - 2) + (b + 1)]
      BY <2>5, <3>1
    <3>4. CASE j > b + 1
      <4>1. (j - (b - 1) - 2) + (b + 1) = j /\ ~(j <= b - 1) /\ ~(j <= (b - 1) + 2)
        BY <1>2, <3>4
      <4>2. QED
        BY <3>3, <4>1
    <3>5. CASE j = b + 1
      <4>1. j - (b - 1) = 2 /\ ~(j <= b - 1) /\ j <= (b - 1) + 2
        BY <1>2, <3>5
      <4>2. QED
        BY <2>1, <3>3, <3>5, <4>1
    <3>6. CASE j = b
      <4>1. j - (b - 1) = 1 /\ ~(j <= b - 1) /\ j <= (b - 1) + 2
        BY <1>2, <3>6
      <4>2. QED
        BY <2>1, <3>3, <3>6, <4>1
    <3>7. CASE j < b
      BY <1>2, <3>3, <3>7
    <3>8. QED
      BY <1>2, <3>4, <3>5, <3>6, <3>7
  <2>7. BlockAt(new, b) /\ b \in 0..Len(new)
    BY <1>1, <1>2, <1>5, <2>1, <2>6 DEF BlockAt
  <2>8. OneBlock(new)
    BY <2>5, <2>7 DEF OneBlock
  <2>9. ToSet(text) \subseteq ToSet(new)
    BY <1>2, <2>5, <2>6 DEF ToSet
  <2>10. QED
    BY <2>3, <2>8, <2>9 DEF KeepsLines
<1>6. QED
  BY <1>4, <1>5

LEMMA RemoveKeeps ==
  ASSUME NEW text, OneBlock(text)
  PROVE  KeepsLines(text, Removed(text))
<1>1. PICK b \in 0..Len(text) : BlockAt(text, b)
  BY DEF OneBlock
<1>2. /\ text \in Seq(Lines) /\ Len(text) \in Nat /\ b \in Nat
      /\ Begin \notin Edits /\ End \notin Edits
  BY SetupConstants DEF OneBlock, Lines
<1>3. FirstBegin(text) = b /\ BlockEnd(text) = IF b = 0 THEN 0 ELSE b + 1
  BY <1>1, <1>2, BlockFound
<1>4. CASE b = 0
  BY <1>3, <1>4 DEF Removed, KeepsLines
<1>5. CASE b # 0
  <2> DEFINE new == SubSeq(text, 1, b - 1) \o <<>> \o SubSeq(text, b + 2, Len(text))
  <2>1. b + 1 <= Len(text) /\ text[b] = Begin /\ text[b + 1] = End
    BY <1>1, <1>5 DEF BlockAt
  <2>2. FirstBegin(text) = b /\ BlockEnd(text) = b + 1 /\ b + 1 # 0 /\ b + 1 + 1 = b + 2
    BY <1>2, <1>3, <1>5
  <2>3. Removed(text) = new
    BY <2>2 DEF Removed, WithBlock
  <2>4. <<>> \in Seq(Lines) /\ Len(<<>>) = 0 /\ b - 1 \in Nat /\ b + 1 \in Nat /\ b - 1 <= b + 1
    BY <1>2, <1>5
  <2>5. /\ new \in Seq(Lines) /\ Len(new) = (b - 1) + 0 + (Len(text) - (b + 1))
        /\ \A j \in 1..Len(new) :
             new[j] = IF j <= b - 1 THEN text[j]
                      ELSE IF j <= (b - 1) + 0 THEN <<>>[j - (b - 1)]
                      ELSE text[(j - (b - 1) - 0) + (b + 1)]
    <3>1. new = SubSeq(text, 1, b - 1) \o <<>> \o SubSeq(text, b + 2, Len(text))
      BY <2>2
    <3> HIDE DEF new
    <3> DEFINE mid == <<>>
               lo == b - 1
               rest == b + 2
    <3>2. mid \in Seq(Lines) /\ Len(mid) = 0
      BY <2>4
    <3>3. /\ new = Splice(text, lo, mid, rest)
          /\ lo \in Nat /\ rest \in Nat /\ lo < rest /\ rest <= Len(text) + 1
          /\ text \in Seq(Lines) /\ mid \in Seq(Lines)
      BY <1>2, <2>1, <2>4, <3>1 DEF Splice
    <3> HIDE DEF mid, lo, rest
    <3>4. /\ new \in Seq(Lines) /\ Len(new) = lo + Len(mid) + (Len(text) + 1 - rest)
          /\ \A j \in 1..(lo + Len(mid) + (Len(text) + 1 - rest)) :
               new[j] = IF j <= lo THEN text[j]
                        ELSE IF j <= lo + Len(mid) THEN mid[j - lo]
                        ELSE text[(j - lo - Len(mid)) + (rest - 1)]
      <4>1. SpliceParts(Splice(text, lo, mid, rest), text, lo, mid, rest)
        BY <3>3, Spliced
      <4>2. QED
        BY <3>3, <4>1 DEF SpliceParts
    <3>5. Len(text) + 1 - rest = Len(text) - (b + 1) /\ rest - 1 = b + 1
      BY <1>2 DEF rest
    <3>6. QED
      BY <3>2, <3>4, <3>5 DEF mid, lo
  <2> HIDE DEF new
  <2>51. /\ Len(new) = Len(text) - 2
         /\ \A j \in 1..Len(new) : new[j] = IF j < b THEN text[j] ELSE text[j + 2]
    <3>1. Len(new) = Len(text) - 2
      BY <1>2, <2>1, <2>5
    <3>2. ASSUME NEW j \in 1..Len(new) PROVE new[j] = IF j < b THEN text[j] ELSE text[j + 2]
      <4>1. /\ (j <= b - 1) = (j < b) /\ (j <= (b - 1) + 0) = (j < b)
            /\ (j - (b - 1) - 0) + (b + 1) = j + 2
        BY <1>2, <3>1
      <4>2. QED
        BY <2>5, <4>1
    <3>3. QED
      BY <3>1, <3>2
  <2>6. BlockAt(new, 0) /\ 0 \in 0..Len(new)
    <3>1. ASSUME NEW j \in 1..Len(new) PROVE new[j] \in Edits
      <4>1. /\ j < b => j \in 1..Len(text) /\ j \notin {b, b + 1}
            /\ j >= b => j + 2 \in 1..Len(text) /\ j + 2 \notin {b, b + 1}
        BY <1>2, <2>51
      <4>2. \A i \in 1..Len(text) : i \notin {b, b + 1} => text[i] \in Edits
        BY <1>1, <1>5 DEF BlockAt
      <4>3. QED
        BY <1>2, <2>51, <4>1, <4>2
    <3>2. QED
      BY <1>2, <2>1, <2>51, <3>1 DEF BlockAt
  <2>7. OneBlock(new)
    BY <2>5, <2>6 DEF OneBlock
  <2>8. ASSUME NEW e \in Edits, e \in ToSet(text) PROVE e \in ToSet(new)
    <3>1. PICK i \in 1..Len(text) : text[i] = e
      BY <1>2, <2>8 DEF ToSet
    <3>2. i \notin {b, b + 1}
      BY <1>2, <2>1, <3>1
    <3>3. CASE i < b
      <4>1. i \in DOMAIN new /\ new[i] = e
        BY <1>2, <2>1, <2>5, <2>51, <3>1, <3>3
      <4>2. QED
        BY <4>1 DEF ToSet
    <3>4. CASE i > b + 1
      <4>1. i - 2 \in DOMAIN new /\ new[i - 2] = e
        <5>1. i - 2 \in 1..Len(new) /\ ~(i - 2 < b) /\ (i - 2) + 2 = i
          BY <1>2, <1>5, <2>1, <2>51, <3>4
        <5>2. new[i - 2] = text[i]
          BY <2>51, <5>1
        <5>3. i - 2 \in DOMAIN new
          <6>1. DOMAIN new = 1..Len(new)
            BY <2>5
          <6>2. QED
            BY <5>1, <6>1
        <5>4. QED
          BY <3>1, <5>2, <5>3
      <4>2. QED
        BY <4>1 DEF ToSet
    <3>5. QED
      BY <1>2, <3>1, <3>2, <3>3, <3>4
  <2>9. QED
    BY <2>3, <2>7, <2>8 DEF KeepsLines
<1>6. QED
  BY <1>4, <1>5

\* A line typed anywhere but inside the block.
LEMMA InsertKeeps ==
  ASSUME NEW text, OneBlock(text), NEW e \in Edits, NEW i \in 1..(Len(text) + 1),
         BlockEnd(text) = 0 \/ i \notin (FirstBegin(text) + 1)..BlockEnd(text)
  PROVE  KeepsLines(text, InsertAt(text, i, e)) /\ e \in ToSet(InsertAt(text, i, e))
<1>1. PICK b \in 0..Len(text) : BlockAt(text, b)
  BY DEF OneBlock
<1>2. /\ text \in Seq(Lines) /\ Len(text) \in Nat /\ b \in Nat /\ e \in Lines
      /\ Begin \notin Edits /\ End \notin Edits /\ i \in Nat /\ 1 <= i /\ i <= Len(text) + 1
  BY SetupConstants DEF OneBlock, Lines
<1>3. FirstBegin(text) = b /\ BlockEnd(text) = IF b = 0 THEN 0 ELSE b + 1
  BY <1>1, <1>2, BlockFound
<1>4. b = 0 \/ i # b + 1
  BY <1>2, <1>3
<1> DEFINE new == SubSeq(text, 1, i - 1) \o <<e>> \o SubSeq(text, i, Len(text))
<1>5. <<e>> \in Seq(Lines) /\ Len(<<e>>) = 1 /\ i - 1 \in Nat /\ (i - 1) + 1 = i /\ i - 1 <= Len(text)
  BY <1>2
<1>6. /\ new \in Seq(Lines) /\ Len(new) = (i - 1) + 1 + (Len(text) - (i - 1))
      /\ \A j \in 1..Len(new) :
           new[j] = IF j <= i - 1 THEN text[j]
                    ELSE IF j <= (i - 1) + 1 THEN <<e>>[j - (i - 1)]
                    ELSE text[(j - (i - 1) - 1) + (i - 1)]
  <2>1. new = SubSeq(text, 1, i - 1) \o <<e>> \o SubSeq(text, i, Len(text))
    BY <1>5
  <2> HIDE DEF new
  <2> DEFINE mid == <<e>>
             lo == i - 1
  <2>2. mid \in Seq(Lines) /\ Len(mid) = 1
    BY <1>5
  <2>3. /\ new = Splice(text, lo, mid, i)
        /\ i \in Nat /\ lo \in Nat /\ lo < i /\ i <= Len(text) + 1
        /\ text \in Seq(Lines) /\ mid \in Seq(Lines)
    BY <1>2, <1>5, <2>1 DEF Splice
  <2> HIDE DEF mid, lo
  <2>4. /\ new \in Seq(Lines) /\ Len(new) = lo + Len(mid) + (Len(text) + 1 - i)
        /\ \A j \in 1..(lo + Len(mid) + (Len(text) + 1 - i)) :
             new[j] = IF j <= lo THEN text[j]
                      ELSE IF j <= lo + Len(mid) THEN mid[j - lo]
                      ELSE text[(j - lo - Len(mid)) + (i - 1)]
    <3>1. SpliceParts(Splice(text, lo, mid, i), text, lo, mid, i)
      BY <2>3, Spliced
    <3>2. QED
      BY <2>3, <3>1 DEF SpliceParts
  <2>5. Len(text) + 1 - i = Len(text) - (i - 1)
    BY <1>2
  <2>6. QED
    BY <2>2, <2>4, <2>5 DEF mid, lo
<1>7. InsertAt(text, i, e) = new
  BY DEF InsertAt
<1> HIDE DEF new
<1>8. /\ Len(new) = Len(text) + 1
      /\ \A j \in 1..Len(new) : new[j] = IF j < i THEN text[j] ELSE IF j = i THEN e ELSE text[j - 1]
  <2>1. Len(new) = Len(text) + 1
    BY <1>2, <1>6
  <2>2. ASSUME NEW j \in 1..Len(new)
        PROVE  new[j] = IF j < i THEN text[j] ELSE IF j = i THEN e ELSE text[j - 1]
    <3>1. /\ (j <= i - 1) = (j < i) /\ (j <= (i - 1) + 1) = (j <= i)
          /\ (j - (i - 1) - 1) + (i - 1) = j - 1
          /\ j = i => j - (i - 1) = 1
      BY <1>2, <2>1
    <3>2. CASE j = i
      BY <1>2, <1>6, <3>1, <3>2
    <3>3. CASE j # i
      BY <1>2, <1>6, <2>1, <3>1, <3>3
    <3>4. QED
      BY <3>2, <3>3
  <2>3. QED
    BY <2>1, <2>2
<1>81. ASSUME NEW j \in 1..Len(new)
       PROVE  /\ j \in Nat
              /\ \/ j < i /\ j \in 1..Len(text) /\ new[j] = text[j]
                 \/ j = i /\ new[j] = e
                 \/ j > i /\ j - 1 \in 1..Len(text) /\ new[j] = text[j - 1]
  <2>1. j \in Nat /\ 1 <= j /\ j <= Len(text) + 1
    BY <1>2, <1>8
  <2>2. new[j] = IF j < i THEN text[j] ELSE IF j = i THEN e ELSE text[j - 1]
    BY <1>8
  <2>3. CASE j < i
    BY <1>2, <2>1, <2>2, <2>3
  <2>4. CASE j = i
    BY <1>2, <2>1, <2>2, <2>4
  <2>5. CASE j > i
    <3>1. ~(j < i) /\ j # i /\ j - 1 \in 1..Len(text)
      BY <1>2, <2>1, <2>5
    <3>2. QED
      BY <2>1, <2>2, <2>5, <3>1
  <2>6. QED
    BY <1>2, <2>1, <2>3, <2>4, <2>5
<1>9. OneBlock(new)
  <2>1. CASE b = 0
    <3>1. BlockAt(new, 0)
      <4>1. \A j \in 1..Len(text) : text[j] \in Edits
        BY <1>1, <2>1 DEF BlockAt
      <4>2. ASSUME NEW j \in 1..Len(new) PROVE new[j] \in Edits
        BY <1>81, <4>1
      <4>3. QED
        BY <4>2 DEF BlockAt
    <3>2. QED
      BY <1>2, <1>6, <1>8, <3>1 DEF OneBlock
  <2>2. CASE b # 0 /\ i <= b
    <3>1. BlockAt(new, b + 1) /\ b + 1 \in 0..Len(new)
      <4>1. b + 1 <= Len(text) /\ text[b] = Begin /\ text[b + 1] = End
            /\ \A j \in 1..Len(text) : j \notin {b, b + 1} => text[j] \in Edits
        BY <1>1, <2>2 DEF BlockAt
      <4>2. new[b + 1] = Begin /\ new[b + 2] = End
        <5>1. b \in i..Len(text) /\ b + 1 \in i..Len(text) /\ (b + 1) + 1 = b + 2
          BY <1>2, <2>2, <4>1
        <5>2. b + 1 \in 1..Len(new) /\ b + 2 \in 1..Len(new) /\ (b + 1) - 1 = b /\ (b + 2) - 1 = b + 1
              /\ ~(b + 1 < i) /\ b + 1 # i /\ ~(b + 2 < i) /\ b + 2 # i
          BY <1>2, <1>8, <2>2, <4>1
        <5>3. QED
          BY <1>8, <4>1, <5>2
      <4>3. ASSUME NEW j \in 1..Len(new), j \notin {b + 1, b + 2} PROVE new[j] \in Edits
        <5>1. (j < i => j \notin {b, b + 1}) /\ (j > i => j - 1 \notin {b, b + 1})
          BY <1>2, <1>81, <2>2, <4>3
        <5>2. QED
          BY <1>81, <4>1, <5>1
      <4>4. QED
        BY <1>2, <1>8, <2>2, <4>1, <4>2, <4>3 DEF BlockAt
    <3>2. QED
      BY <1>2, <1>6, <1>8, <3>1 DEF OneBlock
  <2>3. CASE b # 0 /\ i > b + 1
    <3>1. BlockAt(new, b) /\ b \in 0..Len(new)
      <4>1. b + 1 <= Len(text) /\ text[b] = Begin /\ text[b + 1] = End
            /\ \A j \in 1..Len(text) : j \notin {b, b + 1} => text[j] \in Edits
        BY <1>1, <2>3 DEF BlockAt
      <4>2. new[b] = Begin /\ new[b + 1] = End
        BY <1>2, <1>8, <2>3, <4>1
      <4>3. ASSUME NEW j \in 1..Len(new), j \notin {b, b + 1} PROVE new[j] \in Edits
        <5>1. (j < i => j \notin {b, b + 1}) /\ (j > i => j - 1 \notin {b, b + 1})
          BY <1>2, <1>81, <2>3, <4>3
        <5>2. QED
          BY <1>81, <4>1, <5>1
      <4>4. QED
        <5>1. b # 0 /\ b + 1 <= Len(new)
          BY <1>2, <1>8, <2>3, <4>1
        <5>2. QED
          BY <4>2, <4>3, <5>1 DEF BlockAt
    <3>2. QED
      BY <1>2, <1>6, <1>8, <3>1 DEF OneBlock
  <2>4. QED
    BY <1>2, <1>4, <2>1, <2>2, <2>3
<1>10. ASSUME NEW x \in ToSet(text) PROVE x \in ToSet(new)
  <2>1. PICK j \in 1..Len(text) : text[j] = x
    BY <1>2 DEF ToSet
  <2>2. CASE j < i
    <3>1. j \in DOMAIN new /\ new[j] = x
      BY <1>2, <1>8, <2>1, <2>2
    <3>2. QED
      BY <3>1 DEF ToSet
  <2>3. CASE j >= i
    <3>1. j + 1 \in DOMAIN new /\ new[j + 1] = x
      BY <1>2, <1>8, <2>1, <2>3
    <3>2. QED
      BY <3>1 DEF ToSet
  <2>4. QED
    BY <1>2, <2>2, <2>3
<1>11. e \in ToSet(new)
  <2>1. i \in DOMAIN new
    BY <1>2, <1>8
  <2>2. QED
    BY <1>8, <2>1 DEF ToSet
<1>12. QED
  BY <1>7, <1>9, <1>10, <1>11 DEF KeepsLines

-----------------------------------------------------------------------------
(* What a command holds while it is between a read and its write.           *)

File == [form : {"absent", "whole", "broken"}, slot : {"free", "ours", "other"},
         hooks : {0, 1}, rest : SUBSET Edits]

ConfHeld == {"write", "hook-backup", "hook-write"}
Between == ConfHeld \union {"block-write"}

SetupTyped ==
  /\ conf \in File /\ held \in File /\ made \subseteq Edits
  /\ OneBlock(guide) /\ OneBlock(heldGuide)

\* A file that is about to be replaced was read with every edit not raced since.
HeldIsWhole ==
  /\ pc \in ConfHeld => made \subseteq held.rest \union ToSet(guide) \union raced
  /\ pc = "block-write" => made \subseteq conf.rest \union ToSet(heldGuide) \union raced

SetupInv == SetupTyped /\ EditsKept /\ HeldIsWhole

Stays == UNCHANGED <<conf, guide, made, raced, pc, held, heldGuide>>
Moves ==
  /\ UNCHANGED <<conf, guide, made, raced>>
  /\ pc' \notin Between
  /\ held' \in {held, NoFile} /\ heldGuide' \in {heldGuide, <<>>}

LEMMA NothingFits == NoFile \in File /\ OneBlock(<<>>)
<1>1. NoFile \in File
  BY DEF NoFile, File
<1>2. <<>> \in Seq(Lines) /\ Len(<<>>) = 0
  OBVIOUS
<1>3. BlockAt(<<>>, 0)
  BY <1>2 DEF BlockAt
<1>4. QED
  BY <1>1, <1>2, <1>3 DEF OneBlock

LEMMA NothingWritten ==
  ASSUME SetupInv, Stays \/ Moves
  PROVE  SetupInv'
<1>1. CASE Stays
  BY <1>1 DEF SetupInv, SetupTyped, EditsKept, HeldIsWhole, Stays, OneBlock, BlockAt, ToSet
<1>2. CASE Moves
  <2>1. SetupTyped'
    BY <1>2, NothingFits DEF SetupInv, SetupTyped, Moves
  <2>2. EditsKept'
    BY <1>2 DEF SetupInv, EditsKept, Moves
  <2>3. HeldIsWhole'
    BY <1>2 DEF HeldIsWhole, Moves, Between, ConfHeld
  <2>4. QED
    BY <2>1, <2>2, <2>3 DEF SetupInv
<1>3. QED
  BY <1>1, <1>2

LEMMA EndsMoves ==
  ASSUME NEW result, Ends(result), UNCHANGED <<conf, guide, made, raced>>
  PROVE  Moves
BY DEF Ends, Moves, Between, ConfHeld

LEMMA GoesMoves ==
  ASSUME NEW step, step \notin Between, Goes(step), UNCHANGED <<conf, guide, made, raced>>
  PROVE  Moves
BY DEF Goes, Moves

LEMMA ExtrasMove ==
  ASSUME Extras
  PROVE  /\ pc' \notin Between
         /\ held' \in {held, NoFile} /\ heldGuide' \in {heldGuide, <<>>}
BY DEF Extras, Ends, Goes, Between, ConfHeld

LEMMA ReadsOnly ==
  ASSUME \/ \E how \in {"setup", "force", "uninstall"} : Run(how)
         \/ \E yes \in BOOLEAN : Answer(yes)
         \/ Look \/ Wire \/ InstallServer \/ InstallPlugin \/ Unregister \/ Register \/ CopyConf
         \/ StopSetup \/ UninstallPlugin \/ Tick
         \/ \E what \in {"free", "other"} : Reregister(what)
  PROVE  Stays \/ Moves
<1> USE DEF others, files, Between, ConfHeld
<1>1. ASSUME NEW how \in {"setup", "force", "uninstall"}, Run(how) PROVE Moves
  BY <1>1 DEF Run, Moves
<1>2. ASSUME NEW yes \in BOOLEAN, Answer(yes) PROVE Moves
  BY <1>2, EndsMoves, GoesMoves DEF Answer
<1>3. CASE Look
  BY <1>3, GoesMoves DEF Look
<1>4. CASE Wire
  BY <1>4, EndsMoves, GoesMoves, ExtrasMove DEF Wire, Moves
<1>5. CASE InstallServer
  BY <1>5, EndsMoves, GoesMoves, ExtrasMove DEF InstallServer, Moves
<1>6. CASE InstallPlugin
  BY <1>6, EndsMoves, GoesMoves DEF InstallPlugin
<1>7. CASE Unregister
  BY <1>7 DEF Unregister, Stays
<1>8. CASE Register
  BY <1>8, EndsMoves, ExtrasMove DEF Register, Moves
<1>9. CASE CopyConf
  BY <1>9, GoesMoves DEF CopyConf
<1>10. CASE StopSetup
  BY <1>10, EndsMoves DEF StopSetup
<1>11. CASE UninstallPlugin \/ Tick \/ \E what \in {"free", "other"} : Reregister(what)
  BY <1>11 DEF UninstallPlugin, Tick, Reregister, Stays
<1>12. QED
  BY <1>1, <1>2, <1>3, <1>4, <1>5, <1>6, <1>7, <1>8, <1>9, <1>10, <1>11

\* The reads whose result is written back.
LEMMA ReadsHold ==
  ASSUME SetupInv, Read \/ HookRead \/ HookBackup \/ BlockRead
  PROVE  SetupInv'
<1> USE DEF others, files
<1>1. CASE Moves
  BY <1>1, NothingWritten
<1>2. CASE /\ UNCHANGED <<conf, guide, made, raced, heldGuide>>
           /\ pc' \in ConfHeld /\ held' = conf
  <2>1. SetupTyped'
    BY <1>2 DEF SetupInv, SetupTyped
  <2>2. EditsKept'
    BY <1>2 DEF SetupInv, EditsKept
  <2>3. HeldIsWhole'
    BY <1>2 DEF SetupInv, EditsKept, HeldIsWhole, ConfHeld
  <2>4. QED
    BY <2>1, <2>2, <2>3 DEF SetupInv
<1>3. CASE /\ UNCHANGED <<conf, guide, made, raced, held, heldGuide>>
           /\ pc \in ConfHeld /\ pc' \in ConfHeld
  <2>1. SetupTyped'
    BY <1>3 DEF SetupInv, SetupTyped
  <2>2. EditsKept'
    BY <1>3 DEF SetupInv, EditsKept
  <2>3. HeldIsWhole'
    BY <1>3 DEF SetupInv, HeldIsWhole, ConfHeld
  <2>4. QED
    BY <2>1, <2>2, <2>3 DEF SetupInv
<1>4. CASE /\ UNCHANGED <<conf, guide, made, raced, held>>
           /\ pc' = "block-write" /\ heldGuide' = guide
  <2>1. SetupTyped'
    BY <1>4 DEF SetupInv, SetupTyped
  <2>2. EditsKept'
    BY <1>4 DEF SetupInv, EditsKept
  <2>3. HeldIsWhole'
    BY <1>4 DEF SetupInv, EditsKept, HeldIsWhole, ConfHeld
  <2>4. QED
    BY <2>1, <2>2, <2>3 DEF SetupInv
<1>5. CASE Read
  BY <1>1, <1>2, <1>5, EndsMoves, ExtrasMove DEF Read, ConfAsRead, Moves, ConfHeld
<1>6. CASE HookRead
  BY <1>1, <1>2, <1>6, EndsMoves DEF HookRead, ConfAsRead, ConfHeld
<1>7. CASE HookBackup
  BY <1>3, <1>7 DEF HookBackup, Goes, ConfHeld
<1>8. CASE BlockRead
  BY <1>1, <1>4, <1>8, EndsMoves DEF BlockRead
<1>9. QED
  BY <1>5, <1>6, <1>7, <1>8

\* A write replaces a file by what was read of it, with our part changed.
LEMMA WritesKeep ==
  ASSUME SetupInv, WriteConf \/ HookWrite \/ BlockWrite
  PROVE  SetupInv'
<1> USE DEF others
<1>1. ASSUME NEW new \in File, new.rest = held.rest, conf' = new, pc \in ConfHeld,
             UNCHANGED <<guide, made, raced>>, pc' \notin Between,
             held' \in {held, NoFile}, heldGuide' \in {heldGuide, <<>>}
      PROVE  SetupInv'
  <2>1. SetupTyped'
    BY <1>1, NothingFits DEF SetupInv, SetupTyped
  <2>2. EditsKept'
    BY <1>1 DEF SetupInv, HeldIsWhole, EditsKept
  <2>3. HeldIsWhole'
    BY <1>1 DEF HeldIsWhole, Between, ConfHeld
  <2>4. QED
    BY <2>1, <2>2, <2>3 DEF SetupInv
<1>2. held \in File
  BY DEF SetupInv, SetupTyped
<1>3. /\ Merged(held) \in File /\ Merged(held).rest = held.rest
      /\ WithHooks(held) \in File /\ WithHooks(held).rest = held.rest
  BY <1>2 DEF File, Merged, WithHooks, Hooked, Unhooked
<1>4. CASE WriteConf
  BY <1>1, <1>3, <1>4, ExtrasMove DEF WriteConf, ConfHeld
<1>5. CASE HookWrite
  BY <1>1, <1>3, <1>5 DEF HookWrite, Ends, ConfHeld, Between
<1>6. CASE BlockWrite
  <2>1. KeepsLines(heldGuide, WithGuide(heldGuide))
    BY UpsertKeeps, RemoveKeeps DEF SetupInv, SetupTyped, WithGuide
  <2>2. OneBlock(guide') /\ \A e \in Edits : e \in ToSet(heldGuide) => e \in ToSet(guide')
    BY <1>6, <2>1 DEF BlockWrite, KeepsLines
  <2>3. /\ UNCHANGED <<conf, made, raced>> /\ pc' = "idle" /\ pc = "block-write"
        /\ held' = NoFile /\ heldGuide' = <<>>
    BY <1>6 DEF BlockWrite, Ends
  <2>4. SetupTyped'
    BY <2>2, <2>3, NothingFits DEF SetupInv, SetupTyped
  <2>5. EditsKept'
    BY <2>2, <2>3 DEF SetupInv, SetupTyped, HeldIsWhole, EditsKept
  <2>6. HeldIsWhole'
    BY <2>3 DEF HeldIsWhole, ConfHeld
  <2>7. QED
    BY <2>4, <2>5, <2>6 DEF SetupInv
<1>7. QED
  BY <1>4, <1>5, <1>6

\* Other people's edits: one between a read and its write counts as raced.
LEMMA EditsAreKept ==
  ASSUME MarkersEdited = FALSE, SetupInv, NEW e \in Edits, EditConf(e) \/ EditGuide(e)
  PROVE  SetupInv'
<1> USE DEF unedited
<1>1. CASE EditConf(e)
  <2>1. /\ conf' \in File /\ conf'.rest = conf.rest \union {e}
    BY <1>1 DEF SetupInv, SetupTyped, EditConf, File
  <2>2. /\ UNCHANGED <<guide, pc, held, heldGuide>> /\ made' = made \union {e}
        /\ raced \subseteq raced' /\ (pc \in ConfHeld => e \in raced')
    BY <1>1 DEF EditConf, Edited, ConfHeld
  <2>3. SetupTyped'
    BY <2>1, <2>2 DEF SetupInv, SetupTyped
  <2>4. EditsKept'
    BY <2>1, <2>2 DEF SetupInv, EditsKept
  <2>5. HeldIsWhole'
    BY <2>1, <2>2 DEF SetupInv, HeldIsWhole
  <2>6. QED
    BY <2>3, <2>4, <2>5 DEF SetupInv
<1>2. CASE EditGuide(e)
  <2>1. PICK i \in 1..(Len(guide) + 1) :
          /\ BlockEnd(guide) = 0 \/ i \notin (FirstBegin(guide) + 1)..BlockEnd(guide)
          /\ guide' = InsertAt(guide, i, e)
    BY <1>2 DEF EditGuide
  <2>2. KeepsLines(guide, guide') /\ e \in ToSet(guide')
    BY <2>1, InsertKeeps DEF SetupInv, SetupTyped
  <2>3. /\ UNCHANGED <<conf, pc, held, heldGuide>> /\ made' = made \union {e}
        /\ raced \subseteq raced' /\ (pc = "block-write" => e \in raced')
    BY <1>2 DEF EditGuide, Edited
  <2>4. SetupTyped'
    BY <2>2, <2>3 DEF SetupInv, SetupTyped, KeepsLines
  <2>5. EditsKept'
    BY <2>2, <2>3 DEF SetupInv, SetupTyped, EditsKept, KeepsLines
  <2>6. HeldIsWhole'
    BY <2>2, <2>3 DEF SetupInv, SetupTyped, HeldIsWhole, KeepsLines
  <2>7. QED
    BY <2>4, <2>5, <2>6 DEF SetupInv
<1>3. QED
  BY <1>1, <1>2

\* While nobody deletes a marker of the block, what people write into a host's
\* files outlives every sequence of setups, uninstalls and kills, whatever the
\* host, the question that is waited at and the number of edits; only one made
\* between a read of the command and its write may go.
THEOREM SetupKeepsEdits == MarkersEdited = FALSE /\ SetupSpec => []EditsKept
<1> SUFFICES ASSUME MarkersEdited = FALSE PROVE SetupSpec => []EditsKept
  OBVIOUS
<1>1. SetupInit => SetupInv
  <2> SUFFICES ASSUME SetupInit PROVE SetupInv
    OBVIOUS
  <2>1. SetupTyped
    BY NothingFits DEF SetupInit, SetupTyped
  <2>2. EditsKept /\ HeldIsWhole
    BY DEF SetupInit, EditsKept, HeldIsWhole, ConfHeld
  <2>3. QED
    BY <2>1, <2>2 DEF SetupInv
<1>2. SetupInv /\ [SetupNext]_setupVars => SetupInv'
  <2> SUFFICES ASSUME SetupInv, [SetupNext]_setupVars PROVE SetupInv'
    OBVIOUS
  <2>1. CASE Stays \/ Moves
    BY <2>1, NothingWritten
  <2>2. CASE UNCHANGED setupVars
    BY <2>1, <2>2 DEF setupVars, Stays
  <2>3. CASE SetupNext
    BY <2>1, <2>3, ReadsOnly, ReadsHold, WritesKeep, EditsAreKept DEF SetupNext
  <2>4. QED
    BY <2>2, <2>3
<1>3. SetupInv => EditsKept
  BY DEF SetupInv
<1>4. QED
  BY <1>1, <1>2, <1>3, PTL DEF SetupSpec

-----------------------------------------------------------------------------
(* Context trim: what a run relies on between its steps.                    *)

Copies == [stamp : Nat, text : SUBSET Sections, by : {"trim", "undo"}]
RunRecords ==
  [pc : Steps, by : {"apply", "automatic"}, dest : SUBSET {"memory", "sibling"},
   todo : SUBSET TrimFiles, on : TrimFiles \union {Nobody}, text : SUBSET Sections,
   stale : BOOLEAN, key : Keys \union {Nothing}, saw : SUBSET Sections, backup : Nat,
   applied : BOOLEAN, tried : BOOLEAN, done : SUBSET [file : TrimFiles, stamp : Nat]]

Trimming == {"choose", "store", "verify", "sibling", "append", "compare", "rewrite", "cleanup"}
Undoing == {"aside", "restore"}

TrimTyped ==
  /\ file \in [TrimFiles -> SUBSET Sections] /\ sibling \in [TrimFiles -> SUBSET Sections]
  /\ owed \in [TrimFiles -> SUBSET Sections] /\ undone \in [TrimFiles -> SUBSET Sections]
  /\ memory \in [Keys -> SUBSET Sections] /\ backups \in [TrimFiles -> SUBSET Copies]
  /\ stamp \in Nat /\ spoilt \in BOOLEAN /\ run \in [Runs -> RunRecords]
  /\ automatic \subseteq TrimFiles
  /\ \A r \in Runs : run[r].pc \in Trimming \union Undoing => run[r].on \in TrimFiles

\* What is owed lasts without the backups, but for what an undo took out.
TextsOf(bs) == UNION {b.text : b \in bs}
KeptElsewhere ==
  \A f \in TrimFiles :
    owed[f] \subseteq file[f] \union sibling[f] \union InMemory \union (undone[f] \intersect TextsOf(backups[f]))

\* About to overwrite a file: everything owed of it was seen.
SawAll(x) ==
  /\ x.pc = "rewrite" => owed[x.on] \intersect file[x.on] \subseteq x.text
  /\ x.pc \in Undoing => owed[x.on] \intersect file[x.on] \subseteq x.saw

\* The history is copied before the rewrite.
CopiedFirst(x) ==
  /\ x.pc \in {"choose", "store", "verify"} => "memory" \in x.dest
  /\ x.pc = "store" => x.key \in Keys
  /\ x.pc \in {"verify", "sibling", "append", "compare", "rewrite"} /\ "memory" \in x.dest =>
       x.key \in Keys /\ History(x.text) \subseteq memory[x.key]
  /\ x.pc \in {"compare", "rewrite"} => "memory" \in x.dest \/ History(x.text) \subseteq sibling[x.on]

\* The backup a run made is there, and the file is what it read unless stale.
OwnBackup(x) ==
  /\ x.pc \in Trimming => [stamp |-> x.backup, text |-> x.text, by |-> "trim"] \in backups[x.on]
  /\ x.pc = "restore" => [stamp |-> x.backup, text |-> x.saw, by |-> "undo"] \in backups[x.on]
  /\ x.pc \in Trimming /\ ~x.stale => file[x.on] = x.text

RunHolds(x) == SawAll(x) /\ CopiedFirst(x) /\ OwnBackup(x)
RunsHold == \A r \in Runs : RunHolds(run[r])

\* A stamp is used once.
StampsFresh ==
  /\ \A f \in TrimFiles : \A b, c \in backups[f] : b.stamp \in 1..stamp /\ (b.stamp = c.stamp => b = c)
  /\ \A r \in Runs : run[r].backup <= stamp
  /\ \A r, q \in Runs : run[r].backup = run[q].backup => r = q \/ run[r].backup = 0

TrimInv == TrimTyped /\ (spoilt \/ (KeptElsewhere /\ RunsHold /\ StampsFresh))

LEMMA IdleRun == Idle \in RunRecords /\ Idle.pc = "idle" /\ Idle.backup = 0 /\ Idle.on = Nobody
BY DEF Idle, RunRecords, Steps, Nothing, Keys

LEMMA TrimStart == TrimInit => TrimInv
<1> SUFFICES ASSUME TrimInit PROVE TrimInv
  OBVIOUS
<1>1. \A f \in TrimFiles : TextOf[f] \subseteq Sections
  BY DEF Sections
<1>2. TrimTyped
  <2>1. file \in [TrimFiles -> SUBSET Sections]
    BY <1>1 DEF TrimInit
  <2>2. run \in [Runs -> RunRecords] /\ \A r \in Runs : run[r].pc \notin Trimming \union Undoing
    BY IdleRun DEF TrimInit, Trimming, Undoing
  <2>3. QED
    BY <2>1, <2>2 DEF TrimInit, TrimTyped
<1>3. KeptElsewhere
  BY <1>2 DEF TrimTyped, TrimInit, KeptElsewhere
<1>4. RunsHold
  BY IdleRun DEF TrimInit, RunsHold, RunHolds, SawAll, CopiedFirst, OwnBackup, Trimming, Undoing
<1>5. StampsFresh
  BY IdleRun DEF TrimInit, StampsFresh
<1>6. QED
  BY <1>2, <1>3, <1>4, <1>5 DEF TrimInv

\* What every step but a lossy one does to what runs rely on.
NothingDropped ==
  /\ \A k \in Keys : memory[k] \subseteq memory'[k]
  /\ \A f \in TrimFiles : sibling[f] \subseteq sibling'[f]

SameButStale(x, y) ==
  /\ y.pc = x.pc /\ y.dest = x.dest /\ y.on = x.on /\ y.text = x.text /\ y.key = x.key
  /\ y.saw = x.saw /\ y.backup = x.backup /\ (x.stale => y.stale)

Spared(q) ==
  LET f == run[q].on
  IN /\ SameButStale(run[q], run'[q])
     /\ run[q].pc \in Trimming \union Undoing =>
          /\ file'[f] = file[f] \/ run'[q].stale
          /\ \A b \in backups[f] : b.stamp = run[q].backup => b \in backups'[f]
     /\ run[q].pc \in {"rewrite", "aside", "restore"} =>
          owed'[f] \intersect file'[f] \subseteq owed[f] \intersect file[f]

LEMMA SparedHolds ==
  ASSUME TrimTyped, NothingDropped, NEW q \in Runs, RunHolds(run[q]), Spared(q)
  PROVE  RunHolds(run[q])'
<1> DEFINE x == run[q]
           y == run'[q]
           f == run[q].on
<1>1. /\ y.pc = x.pc /\ y.dest = x.dest /\ y.on = f /\ y.text = x.text /\ y.key = x.key
      /\ y.saw = x.saw /\ y.backup = x.backup /\ (x.stale => y.stale)
  BY DEF Spared, SameButStale
<1>2. x.pc \in Trimming \union Undoing =>
        /\ f \in TrimFiles /\ (file'[f] = file[f] \/ y.stale)
        /\ \A b \in backups[f] : b.stamp = x.backup => b \in backups'[f]
  BY DEF Spared, TrimTyped
<1>3. x.pc \in {"rewrite", "aside", "restore"} =>
        owed'[f] \intersect file'[f] \subseteq owed[f] \intersect file[f]
  BY DEF Spared
<1>4. RunHolds(x)
  OBVIOUS
<1>5. SawAll(run[q])'
  BY <1>1, <1>3, <1>4 DEF RunHolds, SawAll, Undoing
<1>6. CopiedFirst(run[q])'
  <2>1. x.pc \in {"verify", "sibling", "append", "compare", "rewrite"} /\ "memory" \in x.dest =>
          x.key \in Keys /\ History(x.text) \subseteq memory'[x.key]
    BY <1>4 DEF RunHolds, CopiedFirst, NothingDropped
  <2>2. x.pc \in {"compare", "rewrite"} =>
          "memory" \in x.dest \/ History(x.text) \subseteq sibling'[f]
    BY <1>2, <1>4 DEF RunHolds, CopiedFirst, NothingDropped, Trimming
  <2>3. QED
    BY <1>1, <1>4, <2>1, <2>2 DEF RunHolds, CopiedFirst, History
<1>7. OwnBackup(run[q])'
  <2>1. x.pc \in Trimming => [stamp |-> x.backup, text |-> x.text, by |-> "trim"] \in backups'[f]
    BY <1>2, <1>4 DEF RunHolds, OwnBackup
  <2>2. x.pc = "restore" => [stamp |-> x.backup, text |-> x.saw, by |-> "undo"] \in backups'[f]
    BY <1>2, <1>4 DEF RunHolds, OwnBackup, Undoing
  <2>3. x.pc \in Trimming /\ ~y.stale => file'[f] = x.text
    BY <1>1, <1>2, <1>4 DEF RunHolds, OwnBackup
  <2>4. QED
    BY <1>1, <2>1, <2>2, <2>3 DEF OwnBackup
<1>8. QED
  BY <1>5, <1>6, <1>7 DEF RunHolds

LEMMA RestingHolds ==
  ASSUME NEW r \in Runs, run'[r].pc \in {"idle", "pick"}
  PROVE  RunHolds(run[r])'
BY DEF RunHolds, SawAll, CopiedFirst, OwnBackup, Trimming, Undoing

\* The steps that write nothing a run relies on.
Quiet == UNCHANGED <<file, sibling, memory, backups, stamp, owed, undone, spoilt>>
OnlyRun(r) == run' \in [Runs -> RunRecords] /\ \A q \in Runs \ {r} : run'[q] = run[q]
StaysOnFile(r) == run'[r].pc \in Trimming \union Undoing => run'[r].on \in TrimFiles

LEMMA QuietStep ==
  ASSUME TrimInv, Quiet, NEW r \in Runs, OnlyRun(r), StaysOnFile(r), automatic' \subseteq TrimFiles,
         run'[r].backup \in {0, run[r].backup}, ~spoilt => RunHolds(run[r])'
  PROVE  TrimInv'
<1>1. TrimTyped'
  BY DEF TrimInv, TrimTyped, Quiet, OnlyRun, StaysOnFile
<1>2. ASSUME ~spoilt PROVE KeptElsewhere'
  BY <1>2 DEF TrimInv, KeptElsewhere, Quiet, InMemory, TextsOf
<1>3. ASSUME ~spoilt PROVE RunsHold'
  <2>1. ASSUME NEW q \in Runs \ {r} PROVE RunHolds(run[q])'
    <3>1. run'[q] = run[q] /\ RunHolds(run[q])
      BY <1>3, <2>1 DEF OnlyRun, TrimInv, RunsHold
    <3>2. QED
      BY <3>1 DEF Quiet, RunHolds, SawAll, CopiedFirst, OwnBackup
  <2>2. QED
    BY <1>3, <2>1 DEF RunsHold
<1>4. ASSUME ~spoilt PROVE StampsFresh'
  <2>1. StampsFresh /\ \A q \in Runs : run'[q].backup \in {0, run[q].backup}
    BY <1>4 DEF TrimInv, OnlyRun
  <2>2. UNCHANGED <<backups, stamp>> /\ stamp \in Nat
    BY DEF Quiet, TrimInv, TrimTyped
  <2>3. \A q \in Runs : run'[q].backup <= stamp
    BY <2>1, <2>2 DEF StampsFresh
  <2>4. \A p, q \in Runs : run'[p].backup = run'[q].backup => p = q \/ run'[p].backup = 0
    BY <2>1 DEF StampsFresh
  <2>5. QED
    BY <2>1, <2>2, <2>3, <2>4 DEF StampsFresh
<1>5. QED
  BY <1>1, <1>2, <1>3, <1>4 DEF TrimInv, Quiet

SameFields(x, y) ==
  /\ y.dest = x.dest /\ y.on = x.on /\ y.text = x.text /\ y.stale = x.stale
  /\ y.key = x.key /\ y.saw = x.saw /\ y.backup = x.backup

LEMMA GotoStep ==
  ASSUME TrimTyped, NEW r \in Runs, NEW p \in Steps, Goto(r, p)
  PROVE  OnlyRun(r) /\ run'[r].pc = p /\ SameFields(run[r], run'[r])
<1>1. run[r] \in RunRecords /\ run' = [run EXCEPT ![r] = [run[r] EXCEPT !.pc = p]]
  BY DEF TrimTyped, Goto
<1>2. [run[r] EXCEPT !.pc = p] \in RunRecords
  BY <1>1 DEF RunRecords
<1>3. [run[r] EXCEPT !.pc = p].pc = p /\ SameFields(run[r], [run[r] EXCEPT !.pc = p])
  BY <1>1 DEF RunRecords, SameFields
<1>4. QED
  BY <1>1, <1>2, <1>3 DEF OnlyRun, TrimTyped

\* Runs that start, end or are killed.
LEMMA RunsComeAndGo ==
  ASSUME TrimInv, NEW r \in Runs,
         \/ \E due \in (SUBSET TrimFiles) \ {{}} : StartAutomatic(r, due)
         \/ \E due \in (SUBSET TrimFiles) \ {{}} : \E dest \in {Destination, {"sibling"}} :
              StartApply(r, due, dest)
         \/ Record(r) \/ Crash(r)
  PROVE  TrimInv'
<1> DEFINE Automatic(due) ==
             [Idle EXCEPT !.pc = "pick", !.by = "automatic", !.todo = due, !.dest = Destination]
           Applying(due, dest) == [Idle EXCEPT !.pc = "pick", !.todo = due, !.dest = dest]
<1>1. \A dest \in {Destination, {"sibling"}} : dest \subseteq {"memory", "sibling"}
  BY TrimConstants
<1>2. Quiet /\ automatic' \subseteq TrimFiles
  BY DEF TrimInv, TrimTyped, StartAutomatic, StartApply, Record, Crash, disk, past, Quiet
<1>3. PICK y : run' = [run EXCEPT ![r] = y] /\ y \in RunRecords /\ y.pc \in {"idle", "pick"} /\ y.backup = 0
  <2>1. ASSUME NEW due \in SUBSET TrimFiles
        PROVE  /\ Automatic(due) \in RunRecords /\ Automatic(due).pc = "pick"
               /\ Automatic(due).backup = 0
    BY <2>1, <1>1 DEF Idle, RunRecords, Steps, Nothing
  <2>2. ASSUME NEW due \in SUBSET TrimFiles, NEW dest \in {Destination, {"sibling"}}
        PROVE  /\ Applying(due, dest) \in RunRecords /\ Applying(due, dest).pc = "pick"
               /\ Applying(due, dest).backup = 0
    BY <2>2, <1>1 DEF Idle, RunRecords, Steps, Nothing
  <2>3. ASSUME NEW due \in (SUBSET TrimFiles) \ {{}}, StartAutomatic(r, due)
        PROVE  run' = [run EXCEPT ![r] = Automatic(due)]
    BY <2>3 DEF StartAutomatic
  <2>4. ASSUME NEW due \in (SUBSET TrimFiles) \ {{}}, NEW dest \in {Destination, {"sibling"}},
               StartApply(r, due, dest)
        PROVE  run' = [run EXCEPT ![r] = Applying(due, dest)]
    BY <2>4 DEF StartApply
  <2>5. ASSUME Record(r) \/ Crash(r) PROVE run' = [run EXCEPT ![r] = Idle]
    BY <2>5 DEF Record, Crash
  <2> HIDE DEF Automatic, Applying
  <2>6. QED
    BY <2>1, <2>2, <2>3, <2>4, <2>5, IdleRun
<1>4. OnlyRun(r) /\ run'[r] = y
  BY <1>3 DEF TrimInv, TrimTyped, OnlyRun
<1>5. StaysOnFile(r)
  BY <1>3, <1>4 DEF StaysOnFile, Trimming, Undoing
<1>6. RunHolds(run[r])'
  BY <1>3, <1>4, RestingHolds
<1>7. QED
  BY <1>2, <1>3, <1>4, <1>5, <1>6, QuietStep

\* A run that gives up keeps its backup.
LEMMA StopHolds ==
  ASSUME TrimTyped, NEW r \in Runs, StopRun(r), RunHolds(run[r]), run[r].pc \in Trimming,
         UNCHANGED <<file, backups>>
  PROVE  RunHolds(run[r])'
<1>1. run'[r].pc = "cleanup" /\ SameFields(run[r], run'[r])
  BY GotoStep DEF StopRun, Steps
<1>2. SawAll(run[r])' /\ CopiedFirst(run[r])'
  BY <1>1 DEF SawAll, CopiedFirst, Undoing
<1>3. OwnBackup(run[r])'
  BY <1>1 DEF RunHolds, OwnBackup, SameFields
<1>4. QED
  BY <1>2, <1>3 DEF RunHolds

\* The steps of a run between its writes.
LEMMA RunsGoOn ==
  ASSUME TrimInv, NEW r \in Runs, Choose(r) \/ Verify(r) \/ ReadSibling(r) \/ Compare(r)
  PROVE  TrimInv'
<1> DEFINE x == run[r]
           y == run'[r]
<1>1. TrimTyped /\ x \in RunRecords /\ x.pc \in Trimming /\ x.on \in TrimFiles
  BY DEF TrimInv, TrimTyped, Choose, Verify, ReadSibling, Compare, Trimming
<1>2. Quiet /\ automatic' \subseteq TrimFiles
  BY DEF TrimInv, TrimTyped, Choose, Verify, ReadSibling, Compare, disk, past, Quiet
<1>3. SUFFICES /\ OnlyRun(r) /\ y.on = x.on /\ y.backup = x.backup
               /\ ~spoilt => RunHolds(run[r])'
  <2>1. QED
    BY <1>1, <1>2, <1>3, QuietStep DEF StaysOnFile
<1>4. ASSUME StopRun(r) PROVE OnlyRun(r) /\ SameFields(x, y) /\ (~spoilt => RunHolds(run[r])')
  BY <1>1, <1>2, <1>4, GotoStep, StopHolds DEF StopRun, Steps, TrimInv, RunsHold, Quiet
<1>5. CASE StopRun(r)
  BY <1>4, <1>5 DEF SameFields
<1>6. ~spoilt => SawAll(x) /\ CopiedFirst(x) /\ OwnBackup(x)
  BY DEF TrimInv, RunsHold, RunHolds
<1>7. UNCHANGED <<file, sibling, memory, backups, owed>>
  BY <1>2 DEF Quiet
<1>8. CASE Choose(r) /\ ~StopRun(r)
  <2>1. PICK k \in Keys : run' = [run EXCEPT ![r].pc = "store", ![r].key = k]
    BY <1>8 DEF Choose
  <2>2. y = [x EXCEPT !.pc = "store", !.key = k]
    BY <1>1, <2>1 DEF TrimTyped
  <2>3. /\ y \in RunRecords /\ y.pc = "store" /\ y.key = k /\ y.dest = x.dest /\ y.on = x.on
        /\ y.text = x.text /\ y.stale = x.stale /\ y.backup = x.backup
    BY ZenonT(30), <1>1, <2>2 DEF RunRecords, Steps
  <2>4. OnlyRun(r)
    BY <2>1, <2>3 DEF OnlyRun, TrimInv, TrimTyped
  <2>5. x.pc = "choose"
    BY <1>8 DEF Choose
  <2>6. ~spoilt => SawAll(y) /\ CopiedFirst(y) /\ OwnBackup(y)
    BY <1>6, <2>3, <2>5 DEF SawAll, CopiedFirst, OwnBackup, Trimming, Undoing
  <2>7. QED
    BY <1>7, <2>3, <2>4, <2>6 DEF RunHolds, SawAll, CopiedFirst, OwnBackup
<1>9. CASE Verify(r) /\ ~StopRun(r)
  <2>1. PICK p \in {"sibling", "compare"} : Goto(r, p) /\ x.pc = "verify"
    BY <1>9 DEF Verify
  <2>2. OnlyRun(r) /\ y.pc = p /\ SameFields(x, y)
    BY <1>1, <2>1, GotoStep DEF Steps
  <2>3. ~spoilt => SawAll(run[r])' /\ OwnBackup(run[r])'
    BY <1>6, <1>7, <2>1, <2>2 DEF SawAll, OwnBackup, SameFields, Trimming, Undoing
  <2>4. ~spoilt => CopiedFirst(run[r])'
    BY <1>6, <1>7, <2>1, <2>2 DEF CopiedFirst, SameFields
  <2>5. QED
    BY <2>2, <2>3, <2>4 DEF RunHolds, SameFields
<1>10. CASE ReadSibling(r)
  <2>1. PICK v \in SUBSET Sections :
          x.pc = "sibling" /\ run' = [run EXCEPT ![r].pc = "append", ![r].saw = v]
    BY <1>1, <1>10 DEF ReadSibling, TrimTyped
  <2>2. y = [x EXCEPT !.pc = "append", !.saw = v]
    BY <1>1, <2>1 DEF TrimTyped
  <2>3. "append" \in Steps
    BY DEF Steps
  <2>4. /\ y.pc = "append" /\ y.key = x.key /\ y.dest = x.dest /\ y.on = x.on
        /\ y.text = x.text /\ y.stale = x.stale /\ y.backup = x.backup
    BY <1>1, <2>2 DEF RunRecords
  <2>5. y \in RunRecords
    BY <1>1, <2>2, <2>3 DEF RunRecords
  <2>6. OnlyRun(r)
    BY <2>1, <2>2, <2>5 DEF OnlyRun, TrimInv, TrimTyped
  <2>7. ~spoilt => SawAll(run[r])' /\ OwnBackup(run[r])'
    BY <1>6, <1>7, <2>1, <2>4 DEF SawAll, OwnBackup, Trimming, Undoing
  <2>8. ~spoilt => CopiedFirst(run[r])'
    BY <1>6, <1>7, <2>1, <2>4 DEF CopiedFirst
  <2>9. QED
    BY <2>4, <2>6, <2>7, <2>8 DEF RunHolds
<1>11. CASE Compare(r) /\ ~StopRun(r)
  <2>1. Goto(r, "rewrite") /\ ~x.stale /\ x.pc = "compare"
    BY <1>11 DEF Compare
  <2>2. OnlyRun(r) /\ y.pc = "rewrite" /\ SameFields(x, y)
    BY <1>1, <2>1, GotoStep DEF Steps
  <2>3. ~spoilt => file[x.on] = x.text
    BY <1>6, <2>1 DEF OwnBackup, Trimming
  <2>4. ~spoilt => SawAll(run[r])' /\ OwnBackup(run[r])'
    BY <1>6, <1>7, <2>1, <2>2, <2>3 DEF SawAll, OwnBackup, SameFields, Trimming, Undoing
  <2>5. ~spoilt => CopiedFirst(run[r])'
    BY <1>6, <1>7, <2>1, <2>2 DEF CopiedFirst, SameFields
  <2>6. QED
    BY <2>2, <2>4, <2>5 DEF RunHolds, SameFields
<1>12. QED
  BY <1>5, <1>8, <1>9, <1>10, <1>11

LEMMA NobodyRuns ==
  ASSUME TrimInv, Quiet, UNCHANGED run, automatic' \subseteq TrimFiles
  PROVE  TrimInv'
<1>1. TrimTyped'
  BY DEF TrimInv, TrimTyped, Quiet
<1>2. ASSUME ~spoilt PROVE KeptElsewhere' /\ RunsHold' /\ StampsFresh'
  BY SMTT(30), <1>2 DEF TrimInv, Quiet, KeptElsewhere, InMemory, TextsOf, RunsHold, RunHolds, SawAll,
              CopiedFirst, OwnBackup, StampsFresh
<1>3. QED
  BY <1>1, <1>2 DEF TrimInv, Quiet

LEMMA WaitingSteps ==
  ASSUME TrimInv, \/ LockAges \/ UNCHANGED trimVars
                  \/ \E f \in TrimFiles : Settle(f)
                  \/ \E named \in SUBSET TrimFiles : SetAutomatic(named)
  PROVE  TrimInv'
<1>1. Quiet /\ UNCHANGED run /\ automatic' \subseteq TrimFiles
  BY DEF TrimInv, TrimTyped, LockAges, Settle, SetAutomatic, disk, past, trimVars, Quiet
<1>2. QED
  BY <1>1, NobodyRuns

LEMMA UndoStarts ==
  ASSUME TrimInv, NEW r \in Runs, NEW f \in TrimFiles, StartUndo(r, f)
  PROVE  TrimInv'
<1> DEFINE y == run'[r]
<1>1. Quiet /\ automatic' \subseteq TrimFiles
  BY DEF TrimInv, TrimTyped, StartUndo, disk, past, Quiet
<1>2. PICK text \in SUBSET Sections, saw \in SUBSET Sections :
        /\ saw = file[f]
        /\ run' = [run EXCEPT ![r] = [Idle EXCEPT !.pc = "aside", !.on = f, !.text = text, !.saw = saw]]
  <2>1. PICK b \in Chosen(f) :
          run' = [run EXCEPT ![r] = [Idle EXCEPT !.pc = "aside", !.on = f, !.text = b.text,
                                                 !.saw = file[f]]]
    BY DEF StartUndo
  <2>2. b \in Copies /\ file[f] \in SUBSET Sections
    BY <2>1 DEF Chosen, TrimInv, TrimTyped
  <2>3. b.text \in SUBSET Sections
    BY <2>2 DEF Copies
  <2>4. QED
    BY <2>1, <2>2, <2>3
<1>3. y = [Idle EXCEPT !.pc = "aside", !.on = f, !.text = text, !.saw = saw]
  BY <1>2 DEF TrimInv, TrimTyped
<1>4. y.pc = "aside" /\ y.on = f /\ y.saw = saw /\ y.backup = 0
  BY <1>3 DEF Idle, Nothing
<1>5. y \in RunRecords
  <2> DEFINE z == [Idle EXCEPT !.pc = "aside", !.on = f, !.text = text]
  <2>1. "aside" \in Steps /\ f \in TrimFiles \union {Nobody}
    BY DEF Steps
  <2>2. z \in RunRecords
    BY <1>2, <2>1, IdleRun DEF RunRecords
  <2>3. y = [z EXCEPT !.saw = saw]
    BY <1>3 DEF Idle
  <2> HIDE DEF z
  <2>4. [z EXCEPT !.saw = saw] \in RunRecords
    BY <2>2 DEF RunRecords
  <2>5. QED
    BY <2>3, <2>4
<1>6. OnlyRun(r)
  BY <1>2, <1>3, <1>5 DEF TrimInv, TrimTyped, OnlyRun
<1>7. RunHolds(run[r])'
  BY <1>1, <1>2, <1>4 DEF Quiet, RunHolds, SawAll, CopiedFirst, OwnBackup, Trimming, Undoing
<1>8. QED
  BY <1>1, <1>4, <1>6, <1>7, QuietStep DEF StaysOnFile

\* What a step that writes has to show.
LEMMA WritingStep ==
  ASSUME TrimInv, TrimTyped', spoilt => spoilt', NEW r \in Runs,
         ~spoilt' => /\ NothingDropped /\ KeptElsewhere' /\ StampsFresh' /\ RunHolds(run[r])'
                     /\ \A q \in Runs \ {r} : Spared(q)
  PROVE  TrimInv'
<1>1. ASSUME ~spoilt' PROVE RunsHold'
  <2>1. ASSUME NEW q \in Runs \ {r} PROVE RunHolds(run[q])'
    BY <1>1, <2>1, SparedHolds DEF TrimInv, RunsHold
  <2>2. QED
    BY <1>1, <2>1 DEF RunsHold
<1>2. QED
  BY <1>1 DEF TrimInv

\* What is kept stays so when nothing but the file changes, and keeps what is owed.
LEMMA KeptOn ==
  ASSUME KeptElsewhere, NothingDropped,
         \A f \in TrimFiles : /\ owed'[f] \subseteq owed[f] /\ file[f] \intersect owed'[f] \subseteq file'[f]
                              /\ undone[f] \subseteq undone'[f] /\ backups[f] \subseteq backups'[f]
  PROVE  KeptElsewhere'
<1>1. InMemory \subseteq InMemory'
  BY DEF InMemory, NothingDropped
<1>2. ASSUME NEW f \in TrimFiles
      PROVE  owed'[f] \subseteq file'[f] \union sibling'[f] \union InMemory'
                                 \union (undone'[f] \intersect TextsOf(backups'[f]))
  <2>1. TextsOf(backups[f]) \subseteq TextsOf(backups'[f])
    BY DEF TextsOf
  <2>2. QED
    BY <1>1, <2>1 DEF KeptElsewhere, NothingDropped
<1>3. QED
  BY <1>2 DEF KeptElsewhere

LEMMA StampTaken ==
  ASSUME TrimTyped, StampsFresh, NEW f \in TrimFiles, NEW r \in Runs, NEW b,
         b.stamp = stamp + 1, stamp' = stamp + 1,
         backups' = [backups EXCEPT ![f] = @ \union {b}],
         OnlyRun(r), run'[r].backup \in {0, stamp'}
  PROVE  StampsFresh'
<1>1. stamp \in Nat /\ stamp' \in Nat /\ \A q \in Runs : run[q].backup \in Nat
  BY DEF TrimTyped, RunRecords
<1>2. ASSUME NEW g \in TrimFiles, NEW c \in backups'[g], NEW d \in backups'[g]
      PROVE  c.stamp \in 1..stamp' /\ (c.stamp = d.stamp => c = d)
  <2>1. \A e \in backups[g] : e.stamp \in 1..stamp
    BY DEF StampsFresh
  <2>2. (c \in backups[g] \/ c = b) /\ (d \in backups[g] \/ d = b)
    BY DEF TrimTyped
  <2>3. c.stamp \in 1..stamp'
    BY <1>1, <2>1, <2>2
  <2>4. c.stamp = d.stamp => c = d
    BY <1>1, <2>1, <2>2 DEF StampsFresh
  <2>5. QED
    BY <2>3, <2>4
<1>3. ASSUME NEW q \in Runs PROVE run'[q].backup <= stamp'
  BY <1>1 DEF StampsFresh, OnlyRun
<1>4. ASSUME NEW p \in Runs, NEW q \in Runs, run'[p].backup = run'[q].backup
      PROVE  p = q \/ run'[p].backup = 0
  <2>1. \A o \in Runs : run[o].backup <= stamp
    BY DEF StampsFresh
  <2>2. CASE p # r /\ q # r
    BY <1>4, <2>2 DEF OnlyRun, StampsFresh
  <2>3. CASE p # r /\ q = r
    BY <1>1, <1>4, <2>1, <2>3 DEF OnlyRun
  <2>4. CASE p = r /\ q # r
    BY <1>1, <1>4, <2>1, <2>4 DEF OnlyRun
  <2>5. QED
    BY <2>2, <2>3, <2>4
<1>5. QED
  BY <1>2, <1>3, <1>4 DEF StampsFresh

LEMMA PicksFile ==
  ASSUME TrimInv, NEW r \in Runs, NEW f \in TrimFiles, Pick(r, f)
  PROVE  TrimInv'
<1> DEFINE x == run[r]
           y == run'[r]
           due == run[r].todo \ {f}
<1>1. TrimTyped /\ x \in RunRecords /\ x.pc = "pick" /\ due \in SUBSET TrimFiles
  BY DEF TrimInv, TrimTyped, Pick, RunRecords
<1>2. UNCHANGED <<file, sibling, memory, owed, undone, spoilt, automatic>>
  BY DEF Pick, past
<1>3. CASE UNCHANGED <<stamp, backups>> /\ run' = [run EXCEPT ![r] = [x EXCEPT !.todo = due, !.tried = TRUE]]
  <2>1. y = [x EXCEPT !.todo = due, !.tried = TRUE]
    BY <1>1, <1>3 DEF TrimTyped
  <2>2. y \in RunRecords /\ y.pc = "pick" /\ y.backup = x.backup
    BY <1>1, <2>1 DEF RunRecords
  <2>3. OnlyRun(r)
    BY <1>1, <1>3, <2>1, <2>2 DEF OnlyRun, TrimTyped
  <2>4. QED
    BY <1>1, <1>2, <1>3, <2>2, <2>3, RestingHolds, QuietStep
       DEF Quiet, StaysOnFile, Trimming, Undoing, TrimTyped
<1>4. CASE ~(UNCHANGED <<stamp, backups>> /\ run' = [run EXCEPT ![r] = [x EXCEPT !.todo = due, !.tried = TRUE]])
  <2> DEFINE b == [stamp |-> stamp + 1, text |-> file[f], by |-> "trim"]
             p == NextStore(x.dest)
  <2>1. /\ stamp' = stamp + 1 /\ backups' = [backups EXCEPT ![f] = @ \union {b}]
        /\ run' = [run EXCEPT ![r] = [[x EXCEPT !.todo = due] EXCEPT !.pc = NextStore([x EXCEPT !.todo = due].dest),
                                              !.on = f, !.text = file[f], !.backup = stamp']]
    BY <1>4 DEF Pick, TakeBackup
  <2>2. /\ [x EXCEPT !.todo = due] \in RunRecords /\ [x EXCEPT !.todo = due].dest = x.dest
        /\ [x EXCEPT !.todo = due].stale = x.stale
    BY <1>1 DEF RunRecords
  <2>3. PICK z \in RunRecords : z = [x EXCEPT !.todo = due] /\ z.dest = x.dest
    BY <2>2
  <2>4. PICK t \in SUBSET Sections, n \in Nat : t = file[f] /\ n = stamp + 1
    BY <1>1 DEF TrimTyped
  <2>5. y = [z EXCEPT !.pc = p, !.on = f, !.text = t, !.backup = n]
    BY <1>1, <2>1, <2>3, <2>4 DEF TrimTyped
  <2>6. p \in Steps /\ p \in {"choose", "sibling"} /\ (p = "sibling" => "memory" \notin x.dest)
                    /\ (p = "choose" => "memory" \in x.dest)
    BY DEF NextStore, Steps
  <2> HIDE DEF p
  <2>7. /\ y.pc = p /\ y.on = f /\ y.text = t /\ y.backup = n /\ y.dest = x.dest
    BY <2>3, <2>5 DEF RunRecords
  <2>8. y \in RunRecords
    <3> DEFINE w == [z EXCEPT !.pc = p, !.on = f, !.text = t]
    <3>1. f \in TrimFiles \union {Nobody}
      OBVIOUS
    <3>2. w \in RunRecords
      BY <2>3, <2>4, <2>6, <3>1 DEF RunRecords
    <3>3. y = [w EXCEPT !.backup = n]
      BY <2>3, <2>5 DEF RunRecords
    <3> HIDE DEF w
    <3>4. QED
      BY <2>4, <3>2, <3>3 DEF RunRecords
  <2>9. OnlyRun(r)
    BY <1>1, <2>1, <2>8 DEF OnlyRun, TrimTyped
  <2>10. b \in Copies /\ b.stamp = stamp + 1
    BY <1>1 DEF TrimTyped, Copies
  <2>11. /\ backups' \in [TrimFiles -> SUBSET Copies]
         /\ \A g \in TrimFiles : backups[g] \subseteq backups'[g]
         /\ b \in backups'[f]
    BY <1>1, <2>1, <2>10 DEF TrimTyped
  <2>12. TrimTyped'
    BY <1>1, <1>2, <2>1, <2>7, <2>9, <2>11 DEF TrimTyped, OnlyRun
  <2>13. NothingDropped
    BY <1>2 DEF NothingDropped
  <2>14. ASSUME ~spoilt PROVE KeptElsewhere'
    BY <1>2, <2>11, <2>13, <2>14, KeptOn DEF TrimInv
  <2>15. ASSUME ~spoilt PROVE StampsFresh'
    BY <1>1, <2>1, <2>4, <2>7, <2>9, <2>10, <2>15, StampTaken DEF TrimInv
  <2>16. RunHolds(run[r])'
    <3>1. SawAll(run[r])' /\ CopiedFirst(run[r])'
      BY <2>6, <2>7 DEF SawAll, CopiedFirst, Undoing
    <3>2. OwnBackup(run[r])'
      BY <1>2, <2>4, <2>6, <2>7, <2>11 DEF OwnBackup
    <3>3. QED
      BY <3>1, <3>2 DEF RunHolds
  <2>17. ASSUME NEW q \in Runs \ {r} PROVE Spared(q)
    BY <1>1, <1>2, <2>9, <2>11 DEF Spared, SameButStale, OnlyRun, TrimTyped
  <2>18. QED
    BY <1>2, <2>12, <2>13, <2>14, <2>15, <2>16, <2>17, WritingStep
<1>5. QED
  BY <1>3, <1>4

\* The history is stored, in the memory or in the history file.
LEMMA StoresHistory ==
  ASSUME TrimInv, NEW r \in Runs, Store(r) \/ AppendStored(r)
  PROVE  TrimInv'
<1> DEFINE x == run[r]
           y == run'[r]
           f == run[r].on
<1>1. /\ TrimTyped /\ x \in RunRecords /\ x.pc \in {"store", "append"} /\ f \in TrimFiles
      /\ History(x.text) \subseteq Sections
  BY DEF TrimInv, TrimTyped, Store, AppendStored, Trimming, RunRecords, History
<1>2. UNCHANGED <<file, backups, stamp, owed, undone, automatic>>
  BY DEF Store, AppendStored
<1>3. ~spoilt => RunHolds(x)
  BY DEF TrimInv, RunsHold
<1>4. CASE StopRun(r) /\ UNCHANGED <<sibling, memory, spoilt>>
  <2>1. OnlyRun(r) /\ y.pc = "cleanup" /\ SameFields(x, y)
    BY <1>1, <1>4, GotoStep DEF StopRun, Steps
  <2>2. ~spoilt => RunHolds(run[r])'
    BY <1>1, <1>2, <1>3, <1>4, StopHolds DEF Trimming
  <2>3. QED
    BY <1>1, <1>2, <1>4, <2>1, <2>2, QuietStep DEF Quiet, StaysOnFile, SameFields, TrimTyped
<1>5. SUFFICES ASSUME NEW p \in {"verify", "compare"}, Goto(r, p), TrimTyped', spoilt => spoilt',
                      ~spoilt' => NothingDropped /\ CopiedFirst(run[r])'
               PROVE  TrimInv'
  <2>1. CASE ~(StopRun(r) /\ UNCHANGED <<sibling, memory, spoilt>>) /\ Store(r)
    <3> DEFINE k == x.key
               h == History(x.text)
    <3>1. /\ x.pc = "store" /\ memory' = [memory EXCEPT ![k] = h] /\ Goto(r, "verify")
          /\ spoilt' = (spoilt \/ memory[k] \notin {{}, h}) /\ UNCHANGED sibling
      BY <2>1 DEF Store
    <3>2. OnlyRun(r) /\ y.pc = "verify" /\ SameFields(x, y)
      BY <1>1, <3>1, GotoStep DEF Steps
    <3>3. memory' \in [Keys -> SUBSET Sections]
      BY <1>1, <3>1 DEF TrimTyped
    <3>4. TrimTyped'
      BY <1>1, <1>2, <3>1, <3>2, <3>3 DEF TrimTyped, OnlyRun, SameFields
    <3>5. ASSUME ~spoilt' PROVE NothingDropped /\ CopiedFirst(run[r])'
      <4>1. memory[k] \in {{}, h} /\ k \in Keys
        BY <1>3, <3>1, <3>5 DEF RunHolds, CopiedFirst
      <4>2. NothingDropped
        BY <1>1, <3>1, <4>1 DEF NothingDropped, TrimTyped
      <4>3. memory'[k] = h
        BY <1>1, <3>1, <4>1 DEF TrimTyped
      <4>4. "memory" \in x.dest
        BY <1>3, <3>1, <3>5 DEF RunHolds, CopiedFirst
      <4>5. CopiedFirst(run[r])'
        BY <3>2, <4>1, <4>3, <4>4 DEF CopiedFirst, SameFields, History
      <4>6. QED
        BY <4>2, <4>5
    <3>6. QED
      BY <1>5, <3>1, <3>4, <3>5
  <2>2. CASE ~(StopRun(r) /\ UNCHANGED <<sibling, memory, spoilt>>) /\ AppendStored(r)
    <3> DEFINE h == History(x.text)
    <3>1. /\ x.pc = "append" /\ sibling' = [sibling EXCEPT ![f] = x.saw \union h] /\ Goto(r, "compare")
          /\ spoilt' = (spoilt \/ ~(sibling[f] \subseteq sibling'[f])) /\ UNCHANGED memory
      BY <2>2 DEF AppendStored
    <3>2. OnlyRun(r) /\ y.pc = "compare" /\ SameFields(x, y)
      BY <1>1, <3>1, GotoStep DEF Steps
    <3>3. x.saw \in SUBSET Sections
      BY <1>1 DEF RunRecords
    <3>4. sibling' \in [TrimFiles -> SUBSET Sections]
      BY <1>1, <3>1, <3>3 DEF TrimTyped
    <3>5. TrimTyped'
      BY <1>1, <1>2, <3>1, <3>2, <3>4 DEF TrimTyped, OnlyRun, SameFields
    <3>6. ASSUME ~spoilt' PROVE NothingDropped /\ CopiedFirst(run[r])'
      <4>1. NothingDropped
        BY <1>1, <3>1, <3>6 DEF NothingDropped, TrimTyped
      <4>2. h \subseteq sibling'[f]
        BY <1>1, <3>1 DEF TrimTyped
      <4>3. CopiedFirst(run[r])'
        BY <1>3, <3>1, <3>2, <3>6, <4>2 DEF RunHolds, CopiedFirst, SameFields, History
      <4>4. QED
        BY <4>1, <4>3
    <3>7. QED
      BY <1>5, <3>1, <3>5, <3>6
  <2>3. QED
    BY <1>4, <2>1, <2>2
<1>6. OnlyRun(r) /\ y.pc = p /\ SameFields(x, y)
  BY <1>1, <1>5, GotoStep DEF Steps
<1>7. ASSUME ~spoilt' PROVE NothingDropped /\ KeptElsewhere' /\ StampsFresh' /\ RunHolds(run[r])'
  <2>1. NothingDropped /\ ~spoilt /\ CopiedFirst(run[r])'
    BY <1>5, <1>7
  <2>2. KeptElsewhere'
    BY <1>2, <2>1, KeptOn DEF TrimInv
  <2>3. StampsFresh'
    <3>1. StampsFresh /\ \A q \in Runs : run'[q].backup = run[q].backup
      BY <1>6, <2>1 DEF TrimInv, OnlyRun, SameFields
    <3>2. QED
      BY <1>2, <3>1 DEF StampsFresh
  <2>4. SawAll(run[r])'
    BY <1>6 DEF SawAll, Undoing
  <2>5. OwnBackup(run[r])'
    BY <1>1, <1>2, <1>3, <1>6, <2>1 DEF RunHolds, OwnBackup, SameFields, Trimming
  <2>6. QED
    BY <2>1, <2>2, <2>3, <2>4, <2>5 DEF RunHolds
<1>8. ASSUME NEW q \in Runs \ {r} PROVE Spared(q)
  BY <1>2, <1>6 DEF Spared, SameButStale, OnlyRun
<1>9. QED
  BY <1>5, <1>7, <1>8, WritingStep

LEMMA UndoPutsAside ==
  ASSUME TrimInv, NEW r \in Runs, Aside(r)
  PROVE  TrimInv'
<1> DEFINE x == run[r]
           y == run'[r]
           f == run[r].on
           b == [stamp |-> stamp + 1, text |-> run[r].saw, by |-> "undo"]
<1>1. TrimTyped /\ x \in RunRecords /\ x.pc = "aside" /\ f \in TrimFiles /\ x.saw \in SUBSET Sections
  BY DEF TrimInv, TrimTyped, Aside, Undoing, RunRecords
<1>2. /\ UNCHANGED <<file, sibling, memory, owed, undone, spoilt, automatic>>
      /\ stamp' = stamp + 1 /\ backups' = [backups EXCEPT ![f] = @ \union {b}]
  BY DEF Aside, past, TakeBackup
<1>3. PICK n \in Nat : n = stamp + 1 /\ run' = [run EXCEPT ![r].pc = "restore", ![r].backup = n]
  <2>1. stamp + 1 \in Nat /\ run' = [run EXCEPT ![r].pc = "restore", ![r].backup = stamp']
    BY <1>1 DEF Aside, TrimTyped
  <2>2. QED
    BY <1>2, <2>1
<1>4. y = [x EXCEPT !.pc = "restore", !.backup = n]
  BY <1>1, <1>3 DEF TrimTyped
<1>5. "restore" \in Steps
  BY DEF Steps
<1>6. /\ y \in RunRecords /\ y.pc = "restore" /\ y.backup = n /\ y.on = f /\ y.saw = x.saw
      /\ y.text = x.text
  BY <1>1, <1>4, <1>5 DEF RunRecords
<1>7. OnlyRun(r)
  BY <1>1, <1>3, <1>6 DEF OnlyRun, TrimTyped
<1>8. b \in Copies /\ b.stamp = stamp + 1
  BY <1>1 DEF TrimTyped, Copies
<1>9. /\ backups' \in [TrimFiles -> SUBSET Copies] /\ b \in backups'[f]
      /\ \A g \in TrimFiles : backups[g] \subseteq backups'[g]
  BY <1>1, <1>2, <1>8 DEF TrimTyped
<1>10. TrimTyped'
  BY <1>1, <1>2, <1>6, <1>7, <1>9 DEF TrimTyped, OnlyRun
<1>11. NothingDropped
  BY <1>2 DEF NothingDropped
<1>12. ASSUME ~spoilt PROVE KeptElsewhere' /\ StampsFresh'
  BY <1>1, <1>2, <1>3, <1>6, <1>7, <1>8, <1>9, <1>11, <1>12, KeptOn, StampTaken DEF TrimInv
<1>13. ASSUME ~spoilt PROVE RunHolds(run[r])'
  <2>1. owed[f] \intersect file[f] \subseteq x.saw
    BY <1>1, <1>13 DEF TrimInv, RunsHold, RunHolds, SawAll, Undoing
  <2>2. SawAll(run[r])' /\ CopiedFirst(run[r])'
    BY <1>2, <1>6, <2>1 DEF SawAll, CopiedFirst
  <2>3. OwnBackup(run[r])'
    BY <1>3, <1>6, <1>9 DEF OwnBackup, Trimming
  <2>4. QED
    BY <2>2, <2>3 DEF RunHolds
<1>14. ASSUME NEW q \in Runs \ {r} PROVE Spared(q)
  BY <1>1, <1>2, <1>7, <1>9 DEF Spared, SameButStale, OnlyRun, TrimTyped
<1>15. QED
  BY <1>2, <1>10, <1>11, <1>12, <1>13, <1>14, WritingStep

LEMMA StampsStay ==
  ASSUME TrimTyped, StampsFresh, stamp' = stamp, \A f \in TrimFiles : backups'[f] \subseteq backups[f],
         \A q \in Runs : run'[q].backup \in {0, run[q].backup}
  PROVE  StampsFresh'
<1>1. stamp \in Nat
  BY DEF TrimTyped
<1>2. \A f \in TrimFiles : \A b, c \in backups'[f] : b.stamp \in 1..stamp /\ (b.stamp = c.stamp => b = c)
  BY DEF StampsFresh
<1>3. \A q \in Runs : run'[q].backup <= stamp
  BY <1>1 DEF StampsFresh
<1>4. \A p, q \in Runs : run'[p].backup = run'[q].backup => p = q \/ run'[p].backup = 0
  BY DEF StampsFresh
<1>5. QED
  BY <1>2, <1>3, <1>4 DEF StampsFresh

LEMMA RunsSeeTheWrite ==
  ASSUME TrimTyped, NEW f \in TrimFiles, NEW text \in SUBSET Sections, NEW runs \in [Runs -> RunRecords],
         Rewritten(f, text, runs)
  PROVE  /\ file' \in [TrimFiles -> SUBSET Sections] /\ file'[f] = text
         /\ \A g \in TrimFiles \ {f} : file'[g] = file[g]
         /\ run' \in [Runs -> RunRecords]
         /\ \A q \in Runs : SameButStale(runs[q], run'[q]) /\ (runs[q].on = f => run'[q].stale)
<1>1. /\ file' \in [TrimFiles -> SUBSET Sections] /\ file'[f] = text
      /\ \A g \in TrimFiles \ {f} : file'[g] = file[g]
  BY DEF TrimTyped, Rewritten
<1>2. ASSUME NEW x \in RunRecords
      PROVE  /\ [x EXCEPT !.stale = TRUE] \in RunRecords /\ [x EXCEPT !.stale = TRUE].stale
             /\ SameButStale(x, [x EXCEPT !.stale = TRUE])
  BY DEF RunRecords, SameButStale
<1>3. ASSUME NEW x \in RunRecords PROVE SameButStale(x, x)
  BY DEF SameButStale
<1>4. /\ \A q \in Runs : run'[q] = IF runs[q].on = f THEN [runs[q] EXCEPT !.stale = TRUE] ELSE runs[q]
      /\ run' = [q \in Runs |-> run'[q]]
  BY DEF Rewritten
<1>5. ASSUME NEW q \in Runs
      PROVE  run'[q] \in RunRecords /\ SameButStale(runs[q], run'[q]) /\ (runs[q].on = f => run'[q].stale)
  <2>1. runs[q] \in RunRecords
    OBVIOUS
  <2>2. CASE runs[q].on = f
    BY <1>2, <1>4, <2>1, <2>2
  <2>3. CASE runs[q].on # f
    BY <1>3, <1>4, <2>1, <2>3
  <2>4. QED
    BY <2>2, <2>3
<1>6. QED
  BY <1>1, <1>4, <1>5

\* Pruning keeps what is owed, but for what an undo took out.
Pruned(r, f, text) ==
  /\ backups' \in [TrimFiles -> SUBSET Copies] /\ owed' \in [TrimFiles -> SUBSET Sections]
  /\ \A g \in TrimFiles : backups'[g] \subseteq backups[g] /\ owed'[g] \subseteq owed[g]
  /\ \A g \in TrimFiles \ {f} : backups'[g] = backups[g] /\ owed'[g] = owed[g]
  /\ owed'[f] \subseteq StillOwed(f, text, r)
  /\ spoilt' \in BOOLEAN /\ (spoilt => spoilt')
  /\ ~spoilt' => \A q \in Runs \ {r} : run[q].on = f =>
       \A b \in backups[f] : b.stamp = run[q].backup => b \in backups'[f]
  /\ \A s \in owed'[f] :
       s \in text \union sibling[f] \union InMemory \union (undone'[f] \intersect TextsOf(backups[f])) =>
         s \in text \union sibling[f] \union InMemory \union (undone'[f] \intersect TextsOf(backups'[f]))

LEMMA PruneKeeps ==
  ASSUME TrimTyped, NEW r \in Runs, NEW f \in TrimFiles, NEW text \in SUBSET Sections,
         Prune(r, f, text), undone' \in [TrimFiles -> SUBSET Sections]
  PROVE  Pruned(r, f, text)
<1> DEFINE left == Newest(backups[f])
           gone == backups[f] \ left
           given == undone'[f] \intersect UNION {b.text : b \in gone}
<1>1. left \subseteq backups[f]
  BY DEF Newest
<1>2. /\ backups' = [backups EXCEPT ![f] = left]
      /\ owed' = [owed EXCEPT ![f] = StillOwed(f, text, r) \ (given \ (text \union Texts(f, left)))]
      /\ spoilt' = (spoilt \/ \E q \in Runs \ {r}, b \in gone : run[q].on = f /\ run[q].backup = b.stamp)
  BY DEF Prune
<1> HIDE DEF left
<1>3. Texts(f, left) = sibling[f] \union InMemory \union (UNION {b.text : b \in left})
  BY DEF Texts
<1>4. StillOwed(f, text, r) \subseteq owed[f]
  BY DEF StillOwed
<1>5. /\ backups' \in [TrimFiles -> SUBSET Copies] /\ backups'[f] = left
      /\ \A g \in TrimFiles \ {f} : backups'[g] = backups[g]
  BY <1>1, <1>2 DEF TrimTyped
<1>6. /\ owed'[f] = StillOwed(f, text, r) \ (given \ (text \union Texts(f, left)))
      /\ \A g \in TrimFiles \ {f} : owed'[g] = owed[g]
  BY <1>2 DEF TrimTyped
<1>7. /\ owed' \in [TrimFiles -> SUBSET Sections]
      /\ \A g \in TrimFiles : owed'[g] \subseteq owed[g]
  <2>1. StillOwed(f, text, r) \ (given \ (text \union Texts(f, left))) \in SUBSET Sections
    BY <1>4 DEF TrimTyped
  <2>2. QED
    BY <1>2, <1>4, <1>6, <2>1 DEF TrimTyped
<1>8. ~spoilt' => \A q \in Runs \ {r} : run[q].on = f =>
        \A b \in backups[f] : b.stamp = run[q].backup => b \in backups'[f]
  BY <1>2, <1>5
<1>9. ASSUME NEW s \in owed'[f], s \in undone'[f] \intersect TextsOf(backups[f])
      PROVE  s \in text \union sibling[f] \union InMemory \union (undone'[f] \intersect TextsOf(backups'[f]))
  <2>1. PICK b \in backups[f] : s \in b.text
    BY <1>9 DEF TextsOf
  <2>2. TextsOf(backups'[f]) = UNION {c.text : c \in left}
    BY <1>5 DEF TextsOf
  <2>3. CASE b \in left
    BY <1>9, <2>1, <2>2, <2>3
  <2>4. CASE b \notin left
    <3>1. s \in given
      BY <1>9, <2>1, <2>4
    <3>2. s \in text \union Texts(f, left)
      BY <1>6, <1>9, <3>1
    <3>3. QED
      BY <1>3, <1>9, <2>2, <3>2
  <2>5. QED
    BY <2>3, <2>4
<1>10. QED
  BY <1>1, <1>2, <1>4, <1>5, <1>6, <1>7, <1>8, <1>9 DEF TrimTyped, Pruned

\* A text that replaces a file of a run about to write is not owed to that run.
LEMMA WindowsSpared ==
  ASSUME NEW r \in Runs, NEW q \in Runs \ {r}, NEW f \in TrimFiles, NEW text,
         run[q].on = f, run[q].pc \in {"rewrite", "aside", "restore"}
  PROVE  StillOwed(f, text, r) \intersect text \subseteq owed[f] \intersect file[f]
<1>1. InWindow(f, Runs \ {r})
  BY DEF InWindow
<1>2. QED
  BY <1>1 DEF StillOwed

LEMMA UndoRestores ==
  ASSUME TrimInv, NEW r \in Runs, Restore(r)
  PROVE  TrimInv'
<1> DEFINE x == run[r]
           f == run[r].on
           text == run[r].text
           runs == [run EXCEPT ![r] = Idle]
<1>1. /\ TrimTyped /\ x \in RunRecords /\ x.pc = "restore" /\ f \in TrimFiles
      /\ text \in SUBSET Sections /\ x.saw \in SUBSET Sections
  BY DEF TrimInv, TrimTyped, Restore, Undoing, RunRecords
<1>2. runs \in [Runs -> RunRecords] /\ runs[r] = Idle /\ \A q \in Runs \ {r} : runs[q] = run[q]
  BY <1>1, IdleRun DEF TrimTyped
<1>3. /\ Rewritten(f, text, runs) /\ Prune(r, f, text)
      /\ undone' = [undone EXCEPT ![f] = @ \union (file[f] \ text)]
      /\ UNCHANGED <<sibling, memory, stamp, automatic>>
  BY DEF Restore
<1> HIDE DEF runs
<1>4. /\ file' \in [TrimFiles -> SUBSET Sections] /\ file'[f] = text
      /\ \A g \in TrimFiles \ {f} : file'[g] = file[g]
      /\ run' \in [Runs -> RunRecords]
      /\ \A q \in Runs : SameButStale(runs[q], run'[q]) /\ (runs[q].on = f => run'[q].stale)
  BY <1>1, <1>2, <1>3, RunsSeeTheWrite
<1>5. run'[r].pc = "idle" /\ run'[r].backup = 0
  BY <1>2, <1>4, IdleRun DEF SameButStale
<1>6. undone' \in [TrimFiles -> SUBSET Sections]
  BY <1>1, <1>3 DEF TrimTyped
<1>7. undone'[f] = undone[f] \union (file[f] \ text) /\ \A g \in TrimFiles \ {f} : undone'[g] = undone[g]
  BY <1>1, <1>3 DEF TrimTyped
<1>8. Pruned(r, f, text)
  BY <1>1, <1>3, <1>6, PruneKeeps
<1>9. TrimTyped'
  <2>1. \A q \in Runs : run'[q].pc \in Trimming \union Undoing => run'[q].on \in TrimFiles
    BY <1>1, <1>2, <1>4, <1>5 DEF TrimTyped, SameButStale, Trimming, Undoing
  <2>2. QED
    BY <1>1, <1>3, <1>4, <1>6, <1>8, <2>1 DEF TrimTyped, Pruned
<1>10. NothingDropped
  BY <1>3 DEF NothingDropped
<1>11. ASSUME ~spoilt' PROVE KeptElsewhere'
  <2>1. KeptElsewhere /\ SawAll(x) /\ OwnBackup(x)
    BY <1>8, <1>11 DEF TrimInv, RunsHold, RunHolds, Pruned
  <2>2. owed[f] \intersect file[f] \subseteq x.saw /\ x.saw \subseteq TextsOf(backups[f])
    BY <1>1, <2>1 DEF SawAll, OwnBackup, Undoing, TextsOf
  <2>3. ASSUME NEW s \in owed'[f]
        PROVE  s \in text \union sibling[f] \union InMemory \union (undone'[f] \intersect TextsOf(backups[f]))
    <3>1. s \in owed[f]
      BY <1>1, <1>8 DEF Pruned
    <3>2. CASE s \in file[f] \ text
      BY <1>1, <1>7, <2>2, <3>1, <3>2
    <3>3. CASE s \notin file[f] \ text
      BY <1>1, <1>7, <2>1, <3>1, <3>3 DEF KeptElsewhere
    <3>4. QED
      BY <3>2, <3>3
  <2>4. ASSUME NEW g \in TrimFiles \ {f}
        PROVE  owed'[g] \subseteq file'[g] \union sibling[g] \union InMemory
                                  \union (undone'[g] \intersect TextsOf(backups'[g]))
    BY <1>4, <1>7, <1>8, <2>1 DEF KeptElsewhere, TextsOf, Pruned
  <2>5. InMemory' = InMemory
    BY <1>3 DEF InMemory
  <2>6. owed'[f] \subseteq file'[f] \union sibling[f] \union InMemory
                          \union (undone'[f] \intersect TextsOf(backups'[f]))
    BY <1>4, <1>8, <2>3 DEF Pruned
  <2>7. sibling' = sibling
    BY <1>3
  <2>8. ASSUME NEW g \in TrimFiles
        PROVE  owed'[g] \subseteq file'[g] \union sibling'[g] \union InMemory'
                                  \union (undone'[g] \intersect TextsOf(backups'[g]))
    <3>1. CASE g = f
      BY <2>5, <2>6, <2>7, <3>1
    <3>2. CASE g # f
      BY <2>4, <2>5, <2>7, <3>2
    <3>3. QED
      BY <3>1, <3>2
  <2>9. QED
    BY <2>8 DEF KeptElsewhere
<1>12. ASSUME ~spoilt' PROVE StampsFresh'
  <2>1. \A q \in Runs : run'[q].backup \in {0, run[q].backup}
    BY <1>2, <1>4, <1>5 DEF SameButStale
  <2>2. QED
    BY <1>1, <1>3, <1>8, <1>12, <2>1, StampsStay DEF TrimInv, Pruned
<1>13. RunHolds(run[r])'
  BY <1>5, RestingHolds
<1>14. ASSUME ~spoilt', NEW q \in Runs \ {r} PROVE Spared(q)
  <2>1. SameButStale(run[q], run'[q]) /\ (run[q].on = f => run'[q].stale)
    BY <1>2, <1>4
  <2>2. CASE run[q].on = f
    <3>1. \A b \in backups[f] : b.stamp = run[q].backup => b \in backups'[f]
      BY <1>8, <1>14, <2>2 DEF Pruned
    <3>2. run[q].pc \in {"rewrite", "aside", "restore"} =>
            owed'[f] \intersect file'[f] \subseteq owed[f] \intersect file[f]
      BY <1>1, <1>4, <1>8, <2>2, WindowsSpared DEF Pruned
    <3>3. QED
      BY <2>1, <2>2, <3>1, <3>2 DEF Spared
  <2>3. CASE run[q].on # f
    BY <1>1, <1>4, <1>8, <2>1, <2>3 DEF Spared, Pruned, TrimTyped, Trimming, Undoing
  <2>4. QED
    BY <2>2, <2>3
<1>15. QED
  BY <1>8, <1>9, <1>10, <1>11, <1>12, <1>13, <1>14, WritingStep DEF Pruned

LEMMA RewriteMoves ==
  ASSUME TrimInv, NEW r \in Runs, Rewrite(r)
  PROVE  TrimInv'
<1> DEFINE x == run[r]
           y == run'[r]
           f == run[r].on
           text == Current(run[r].text)
<1>1. /\ TrimTyped /\ x \in RunRecords /\ x.pc = "rewrite" /\ f \in TrimFiles
      /\ text \in SUBSET Sections
  BY DEF TrimInv, TrimTyped, Rewrite, Trimming, RunRecords, Current
<1>2. UNCHANGED <<sibling, memory, backups, stamp, automatic, undone, spoilt>>
  BY DEF Rewrite
<1>3. ~spoilt => RunHolds(x)
  BY DEF TrimInv, RunsHold
<1>4. CASE StopRun(r) /\ UNCHANGED <<file, recent, past>>
  <2>1. OnlyRun(r) /\ y.pc = "cleanup" /\ SameFields(x, y)
    BY <1>1, <1>4, GotoStep DEF StopRun, Steps
  <2>2. Quiet
    BY <1>2, <1>4 DEF Quiet, past
  <2>3. ~spoilt => RunHolds(run[r])'
    BY <1>1, <1>3, <1>4, <2>2, StopHolds DEF Trimming, Quiet
  <2>4. QED
    BY <1>1, <1>2, <2>1, <2>2, <2>3, QuietStep DEF StaysOnFile, SameFields, TrimTyped
<1>5. CASE ~(StopRun(r) /\ UNCHANGED <<file, recent, past>>)
  <2>1. PICK counts \in BOOLEAN :
          Rewritten(f, text, [run EXCEPT ![r].pc = "cleanup", ![r].applied = counts])
    BY <1>5 DEF Rewrite
  <2>2. owed' = [owed EXCEPT ![f] = StillOwed(f, text, r)]
    BY <1>5 DEF Rewrite
  <2> DEFINE runs == [run EXCEPT ![r].pc = "cleanup", ![r].applied = counts]
  <2>3. runs[r] = [x EXCEPT !.pc = "cleanup", !.applied = counts] /\ \A q \in Runs \ {r} : runs[q] = run[q]
    BY <1>1 DEF TrimTyped
  <2>4. "cleanup" \in Steps
    BY DEF Steps
  <2>5. runs[r] \in RunRecords /\ runs[r].pc = "cleanup" /\ SameFields(x, runs[r])
    <3> HIDE DEF runs
    <3>1. QED
      BY ZenonT(30), <1>1, <2>3, <2>4 DEF RunRecords, SameFields
  <2>6. runs \in [Runs -> RunRecords]
    BY <1>1, <2>5 DEF TrimTyped
  <2> HIDE DEF runs
  <2>7. Rewritten(f, text, runs)
    BY <2>1 DEF runs
  <2>8. /\ file' \in [TrimFiles -> SUBSET Sections] /\ file'[f] = text
        /\ \A g \in TrimFiles \ {f} : file'[g] = file[g]
        /\ run' \in [Runs -> RunRecords]
        /\ \A q \in Runs : SameButStale(runs[q], run'[q]) /\ (runs[q].on = f => run'[q].stale)
    BY <1>1, <2>6, <2>7, RunsSeeTheWrite
  <2>9. /\ y.pc = "cleanup" /\ y.on = f /\ y.text = x.text /\ y.backup = x.backup /\ y.stale
    BY <2>5, <2>8 DEF SameButStale, SameFields
  <2>10. /\ owed' \in [TrimFiles -> SUBSET Sections] /\ owed'[f] = StillOwed(f, text, r)
         /\ \A g \in TrimFiles : owed'[g] \subseteq owed[g]
         /\ \A g \in TrimFiles \ {f} : owed'[g] = owed[g]
    BY <1>1, <2>2 DEF TrimTyped, StillOwed
  <2>11. TrimTyped'
    <3>1. \A q \in Runs : run'[q].pc \in Trimming \union Undoing => run'[q].on \in TrimFiles
      BY <1>1, <2>3, <2>8, <2>9 DEF TrimTyped, SameButStale
    <3>2. QED
      BY <1>1, <1>2, <2>8, <2>10, <3>1 DEF TrimTyped
  <2>12. NothingDropped
    BY <1>2 DEF NothingDropped
  <2>13. ASSUME ~spoilt PROVE KeptElsewhere'
    <3>1. owed[f] \intersect file[f] \subseteq x.text
      BY <1>1, <1>3, <2>13 DEF RunHolds, SawAll
    <3>2. History(x.text) \subseteq sibling[f] \union InMemory
      BY <1>1, <1>3, <2>13 DEF RunHolds, CopiedFirst, InMemory
    <3>3. x.text \subseteq text \union History(x.text)
      BY DEF Current, History
    <3>4. KeptElsewhere
      BY <2>13 DEF TrimInv
    <3>5. ASSUME NEW g \in TrimFiles
          PROVE  owed'[g] \subseteq file'[g] \union sibling[g] \union InMemory
                                    \union (undone[g] \intersect TextsOf(backups[g]))
      <4>1. CASE g = f
        BY <1>1, <2>8, <2>10, <3>1, <3>2, <3>3, <3>4, <4>1 DEF KeptElsewhere
      <4>2. CASE g # f
        BY <2>8, <2>10, <3>4, <4>2 DEF KeptElsewhere
      <4>3. QED
        BY <4>1, <4>2
    <3>6. InMemory' = InMemory
      BY <1>2 DEF InMemory
    <3>7. QED
      BY <1>2, <3>5, <3>6 DEF KeptElsewhere
  <2>14. ASSUME ~spoilt PROVE StampsFresh'
    <3>1. \A q \in Runs : run'[q].backup = run[q].backup
      BY <2>3, <2>8, <2>9 DEF SameButStale
    <3>2. QED
      BY <1>1, <1>2, <2>14, <3>1, StampsStay DEF TrimInv
  <2>15. ASSUME ~spoilt PROVE RunHolds(run[r])'
    <3>1. OwnBackup(run[r])'
      BY <1>1, <1>2, <1>3, <2>9, <2>15 DEF RunHolds, OwnBackup, Trimming
    <3>2. SawAll(run[r])' /\ CopiedFirst(run[r])'
      BY <2>9 DEF SawAll, CopiedFirst, Undoing
    <3>3. QED
      BY <3>1, <3>2 DEF RunHolds
  <2>16. ASSUME NEW q \in Runs \ {r} PROVE Spared(q)
    <3>1. SameButStale(run[q], run'[q]) /\ (run[q].on = f => run'[q].stale)
      BY <2>3, <2>8
    <3>2. CASE run[q].on = f
      BY <1>1, <1>2, <2>8, <2>10, <3>1, <3>2, WindowsSpared DEF Spared
    <3>3. CASE run[q].on # f
      BY <1>1, <1>2, <2>8, <2>10, <3>1, <3>3 DEF Spared, TrimTyped, Trimming, Undoing
    <3>4. QED
      BY <3>2, <3>3
  <2>17. QED
    BY <1>2, <2>11, <2>12, <2>13, <2>14, <2>15, <2>16, WritingStep
<1>6. QED
  BY <1>4, <1>5

LEMMA CleanupKeeps ==
  ASSUME TrimInv, NEW r \in Runs, Cleanup(r)
  PROVE  TrimInv'
<1> DEFINE x == run[r]
           y == run'[r]
           f == run[r].on
           done == IF run[r].applied THEN run[r].done \union {[file |-> f, stamp |-> run[r].backup]}
                   ELSE run[r].done
<1>1. TrimTyped /\ x \in RunRecords /\ x.pc = "cleanup" /\ f \in TrimFiles
  BY DEF TrimInv, TrimTyped, Cleanup, Trimming
<1>2. UNCHANGED <<file, sibling, memory, stamp, automatic, undone>>
  BY DEF Cleanup, past
<1>3. OnlyRun(r) /\ y.pc = "pick" /\ y.backup = 0
  <2> DEFINE z == [Idle EXCEPT !.pc = "pick", !.by = x.by, !.dest = x.dest]
             w == [z EXCEPT !.todo = x.todo, !.tried = TRUE]
  <2>1. "pick" \in Steps /\ x.by \in {"apply", "automatic"} /\ x.dest \in SUBSET {"memory", "sibling"}
    BY <1>1 DEF RunRecords, Steps
  <2>2. z \in RunRecords /\ z.pc = "pick" /\ z.backup = 0
    BY <2>1, IdleRun DEF RunRecords
  <2>3. run' = [run EXCEPT ![r] = [w EXCEPT !.done = done]]
    BY DEF Cleanup
  <2> HIDE DEF z
  <2>4. w \in RunRecords /\ w.pc = "pick" /\ w.backup = 0
    BY <1>1, <2>2 DEF RunRecords
  <2>5. done \in SUBSET [file : TrimFiles, stamp : Nat]
    BY <1>1 DEF RunRecords
  <2> HIDE DEF w, done
  <2>6. [w EXCEPT !.done = done] \in RunRecords /\ [w EXCEPT !.done = done].pc = "pick"
        /\ [w EXCEPT !.done = done].backup = 0
    BY <2>4, <2>5 DEF RunRecords
  <2>7. QED
    BY <1>1, <2>3, <2>6 DEF OnlyRun, TrimTyped
<1>4. NothingDropped /\ RunHolds(run[r])'
  BY <1>2, <1>3, RestingHolds DEF NothingDropped
<1>5. \A q \in Runs : run'[q].backup \in {0, run[q].backup}
  BY <1>3 DEF OnlyRun
<1>6. InMemory' = InMemory
  BY <1>2 DEF InMemory
<1>7. CASE Discards(r)
  <2> DEFINE left == {b \in backups[f] : b.stamp # x.backup}
  <2>1. backups' = [backups EXCEPT ![f] = left] /\ UNCHANGED past
    BY <1>7 DEF Cleanup
  <2>2. /\ backups' \in [TrimFiles -> SUBSET Copies] /\ backups'[f] = left
        /\ \A g \in TrimFiles \ {f} : backups'[g] = backups[g]
    BY <1>1, <2>1 DEF TrimTyped
  <2>3. UNCHANGED <<owed, spoilt>>
    BY <2>1 DEF past
  <2>4. TrimTyped'
    BY <1>1, <1>2, <1>3, <2>2, <2>3 DEF TrimTyped, OnlyRun, Trimming, Undoing
  <2>5. ASSUME ~spoilt PROVE KeptElsewhere'
    <3>1. /\ KeptElsewhere /\ StampsFresh
          /\ [stamp |-> x.backup, text |-> x.text, by |-> "trim"] \in backups[f] /\ file[f] = x.text
      BY <1>1, <1>7, <2>5 DEF TrimInv, RunsHold, RunHolds, OwnBackup, Trimming, Discards
    <3>2. \A b \in backups[f] : b.stamp = x.backup => b.text = file[f]
      BY <1>1, <3>1 DEF StampsFresh
    <3>3. TextsOf(backups[f]) \subseteq TextsOf(backups'[f]) \union file[f]
      BY <2>2, <3>2 DEF TextsOf
    <3>4. ASSUME NEW g \in TrimFiles
          PROVE  owed[g] \subseteq file[g] \union sibling[g] \union InMemory
                                   \union (undone[g] \intersect TextsOf(backups'[g]))
      <4>1. CASE g = f
        BY <3>1, <3>3, <4>1 DEF KeptElsewhere
      <4>2. CASE g # f
        BY <2>2, <3>1, <4>2 DEF KeptElsewhere
      <4>3. QED
        BY <4>1, <4>2
    <3>5. QED
      BY <1>2, <1>6, <2>3, <3>4 DEF KeptElsewhere
  <2>6. ASSUME ~spoilt PROVE StampsFresh'
    BY <1>1, <1>2, <1>5, <2>2, <2>6, StampsStay DEF TrimInv
  <2>7. ASSUME ~spoilt, NEW q \in Runs \ {r} PROVE Spared(q)
    <3>1. run'[q] = run[q]
      BY <1>3 DEF OnlyRun
    <3>2. ASSUME run[q].pc \in Trimming \union Undoing, NEW b \in backups[run[q].on],
                 b.stamp = run[q].backup
          PROVE  b \in backups'[run[q].on]
      <4>1. run[q].on \in TrimFiles
        BY <1>1, <3>2 DEF TrimTyped
      <4>2. b.stamp # 0
        BY <2>7, <3>2, <4>1 DEF TrimInv, StampsFresh
      <4>3. run[q].backup # x.backup
        BY <2>7, <3>2, <4>2 DEF TrimInv, StampsFresh
      <4>4. QED
        BY <2>2, <3>2, <4>1, <4>3
    <3>3. QED
      BY <1>2, <2>3, <3>1, <3>2 DEF Spared, SameButStale
  <2>8. QED
    BY <1>4, <2>3, <2>4, <2>5, <2>6, <2>7, WritingStep
<1>8. CASE ~Discards(r)
  <2>1. Prune(r, f, file[f]) /\ undone' \in [TrimFiles -> SUBSET Sections] /\ file[f] \in SUBSET Sections
    BY <1>1, <1>2, <1>8 DEF Cleanup, TrimTyped
  <2>2. Pruned(r, f, file[f])
    BY <1>1, <2>1, PruneKeeps
  <2>3. TrimTyped'
    BY <1>1, <1>2, <1>3, <2>1, <2>2 DEF TrimTyped, OnlyRun, Trimming, Undoing, Pruned
  <2>4. ASSUME ~spoilt' PROVE KeptElsewhere'
    <3>1. KeptElsewhere
      BY <2>2, <2>4 DEF TrimInv, Pruned
    <3>2. ASSUME NEW g \in TrimFiles
          PROVE  owed'[g] \subseteq file[g] \union sibling[g] \union InMemory
                                    \union (undone'[g] \intersect TextsOf(backups'[g]))
      <4>1. CASE g = f
        <5>1. \A s \in owed'[f] : s \in file[f] \union sibling[f] \union InMemory
                                          \union (undone'[f] \intersect TextsOf(backups[f]))
          BY <1>1, <1>2, <2>2, <3>1 DEF KeptElsewhere, Pruned
        <5>2. QED
          BY <2>2, <4>1, <5>1 DEF Pruned
      <4>2. CASE g # f
        BY <1>2, <2>2, <3>1, <4>2 DEF KeptElsewhere, Pruned
      <4>3. QED
        BY <4>1, <4>2
    <3>3. QED
      BY <1>2, <1>6, <3>2 DEF KeptElsewhere
  <2>5. ASSUME ~spoilt' PROVE StampsFresh'
    BY <1>1, <1>2, <1>5, <2>2, <2>5, StampsStay DEF TrimInv, Pruned
  <2>6. ASSUME ~spoilt', NEW q \in Runs \ {r} PROVE Spared(q)
    <3>1. run'[q] = run[q]
      BY <1>3 DEF OnlyRun
    <3>2. CASE run[q].on = f
      BY <1>1, <1>2, <2>2, <2>6, <3>1, <3>2 DEF Spared, SameButStale, Pruned
    <3>3. CASE run[q].on # f
      BY <1>1, <1>2, <2>2, <3>1, <3>3 DEF Spared, SameButStale, Pruned, TrimTyped, Trimming, Undoing
    <3>4. QED
      BY <3>2, <3>3
  <2>7. QED
    BY <1>4, <2>2, <2>3, <2>4, <2>5, <2>6, WritingStep DEF Pruned
<1>9. QED
  BY <1>7, <1>8

\* A person adds a section, or removes one.
LEMMA EditsMove ==
  ASSUME TrimInv, NEW f \in TrimFiles, NEW s \in TextOf[f], AddSection(f, s) \/ RemoveSection(f, s)
  PROVE  TrimInv'
<1>1. TrimTyped /\ s \in Sections /\ run \in [Runs -> RunRecords]
  BY DEF TrimInv, TrimTyped, Sections
<1>2. PICK text \in SUBSET Sections :
        /\ Rewritten(f, text, run) /\ file[f] \ {s} \subseteq text /\ text \subseteq file[f] \union {s}
        /\ s \in text => AddSection(f, s)
        /\ s \notin text => RemoveSection(f, s)
  <2>1. file[f] \in SUBSET Sections
    BY <1>1 DEF TrimTyped
  <2>2. CASE AddSection(f, s)
    BY <1>1, <2>1, <2>2 DEF AddSection
  <2>3. CASE RemoveSection(f, s)
    BY <1>1, <2>1, <2>3 DEF RemoveSection
  <2>4. QED
    BY <2>2, <2>3
<1>3. /\ file' \in [TrimFiles -> SUBSET Sections] /\ file'[f] = text
      /\ \A g \in TrimFiles \ {f} : file'[g] = file[g]
      /\ run' \in [Runs -> RunRecords]
      /\ \A q \in Runs : SameButStale(run[q], run'[q]) /\ (run[q].on = f => run'[q].stale)
  <2>1. PICK runs \in [Runs -> RunRecords] : runs = run
    BY <1>1
  <2>2. TrimTyped /\ f \in TrimFiles /\ text \in SUBSET Sections /\ Rewritten(f, text, runs)
    BY <1>1, <1>2, <2>1 DEF Rewritten
  <2>3. /\ file' \in [TrimFiles -> SUBSET Sections] /\ file'[f] = text
        /\ \A g \in TrimFiles \ {f} : file'[g] = file[g]
        /\ run' \in [Runs -> RunRecords]
        /\ \A q \in Runs : SameButStale(runs[q], run'[q]) /\ (runs[q].on = f => run'[q].stale)
    <3>1. file' \in [TrimFiles -> SUBSET Sections] /\ file'[f] = text
      BY <2>2, RunsSeeTheWrite
    <3>2. \A g \in TrimFiles \ {f} : file'[g] = file[g]
      BY <2>2, RunsSeeTheWrite
    <3>3. run' \in [Runs -> RunRecords]
      BY <2>2, RunsSeeTheWrite
    <3>4. \A q \in Runs : SameButStale(runs[q], run'[q]) /\ (runs[q].on = f => run'[q].stale)
      BY <2>2, RunsSeeTheWrite
    <3>5. QED
      BY <3>1, <3>2, <3>3, <3>4
  <2>4. QED
    BY <2>1, <2>3 DEF SameButStale
<1>4. UNCHANGED <<sibling, memory, backups, stamp, automatic, spoilt>>
  BY DEF AddSection, RemoveSection
<1>5. /\ owed' \in [TrimFiles -> SUBSET Sections] /\ undone' \in [TrimFiles -> SUBSET Sections]
      /\ \A g \in TrimFiles \ {f} : owed'[g] = owed[g] /\ undone'[g] = undone[g]
      /\ owed'[f] \ {s} \subseteq owed[f] /\ undone[f] \ {s} \subseteq undone'[f]
      /\ s \in owed'[f] => s \in text /\ ~InWindow(f, Runs)
  <2>1. CASE s \in text
    <3>1. AddSection(f, s)
      BY <1>2, <2>1
    <3>2. CASE InWindow(f, Runs)
      BY <1>1, <3>1, <3>2 DEF AddSection, TrimTyped
    <3>3. CASE ~InWindow(f, Runs)
      BY <1>1, <2>1, <3>1, <3>3 DEF AddSection, TrimTyped
    <3>4. QED
      BY <3>2, <3>3
  <2>2. CASE s \notin text
    BY <1>1, <1>2, <2>2 DEF RemoveSection, TrimTyped
  <2>3. QED
    BY <2>1, <2>2
<1>6. TrimTyped'
  <2>1. \A q \in Runs : run'[q].pc \in Trimming \union Undoing => run'[q].on \in TrimFiles
    BY <1>1, <1>3 DEF TrimTyped, SameButStale
  <2>2. QED
    BY <1>1, <1>3, <1>4, <1>5, <2>1 DEF TrimTyped
<1>7. NothingDropped /\ InMemory' = InMemory
  BY <1>4 DEF NothingDropped, InMemory
<1>8. ASSUME ~spoilt PROVE KeptElsewhere'
  <2>1. KeptElsewhere
    BY <1>8 DEF TrimInv
  <2>2. ASSUME NEW g \in TrimFiles
        PROVE  owed'[g] \subseteq file'[g] \union sibling[g] \union InMemory
                                  \union (undone'[g] \intersect TextsOf(backups[g]))
    <3>1. CASE g = f
      BY <1>2, <1>3, <1>5, <2>1, <3>1 DEF KeptElsewhere
    <3>2. CASE g # f
      BY <1>3, <1>5, <2>1, <3>2 DEF KeptElsewhere
    <3>3. QED
      BY <3>1, <3>2
  <2>3. QED
    BY <1>4, <1>7, <2>2 DEF KeptElsewhere
<1>9. ASSUME ~spoilt PROVE StampsFresh'
  <2>1. \A q \in Runs : run'[q].backup = run[q].backup
    BY <1>3 DEF SameButStale
  <2>2. QED
    BY <1>1, <1>4, <1>9, <2>1, StampsStay DEF TrimInv
<1>10. ASSUME NEW q \in Runs PROVE Spared(q)
  <2>1. CASE run[q].on = f
    <3>1. run[q].pc \in {"rewrite", "aside", "restore"} => InWindow(f, Runs)
      BY <2>1 DEF InWindow
    <3>2. run[q].pc \in {"rewrite", "aside", "restore"} =>
            owed'[f] \intersect file'[f] \subseteq owed[f] \intersect file[f]
      BY <1>2, <1>3, <1>5, <3>1
    <3>3. QED
      BY <1>3, <1>4, <2>1, <3>2 DEF Spared
  <2>2. CASE run[q].on # f
    BY <1>1, <1>3, <1>4, <1>5, <2>2 DEF Spared, TrimTyped, Trimming, Undoing
  <2>3. QED
    BY <2>1, <2>2
<1>11. ASSUME ~spoilt PROVE RunsHold'
  BY <1>1, <1>7, <1>10, <1>11, SparedHolds DEF TrimInv, RunsHold
<1>12. QED
  BY <1>4, <1>6, <1>8, <1>9, <1>11 DEF TrimInv

LEMMA TrimStep == TrimInv /\ [TrimNext]_trimVars => TrimInv'
<1> SUFFICES ASSUME TrimInv, [TrimNext]_trimVars PROVE TrimInv'
  OBVIOUS
<1>1. ASSUME NEW r \in Runs, ApplyStep(r) PROVE TrimInv'
  BY <1>1, PicksFile, RunsGoOn, StoresHistory, RewriteMoves, CleanupKeeps, RunsComeAndGo DEF ApplyStep
<1>2. ASSUME NEW r \in Runs, NEW f \in TrimFiles, StartUndo(r, f) PROVE TrimInv'
  BY <1>2, UndoStarts
<1>3. ASSUME NEW r \in Runs, Aside(r) \/ Restore(r) PROVE TrimInv'
  BY <1>3, UndoPutsAside, UndoRestores
<1>4. ASSUME NEW f \in TrimFiles, NEW s \in TextOf[f], AddSection(f, s) \/ RemoveSection(f, s)
      PROVE  TrimInv'
  BY <1>4, EditsMove
<1>5. QED
  BY <1>1, <1>2, <1>3, <1>4, RunsComeAndGo, WaitingSteps DEF TrimNext

LEMMA TrimInvariant == TrimSpec => []TrimInv
BY TrimStart, TrimStep, PTL DEF TrimSpec

\* No section a person wrote and did not remove is lost, for any number of
\* files, sections, runs, undos, backups and edits, until one run takes away
\* what another relies on.
THEOREM NothingIsLost == TrimSpec => []NothingLost
<1>1. TrimInv => NothingLost
  BY DEF TrimInv, KeptElsewhere, NothingLost, Texts, TextsOf
<1>2. QED
  BY <1>1, TrimInvariant, PTL

\* The backup of a trim that rewrites a file holds every section it had.
THEOREM RewritesAreBackedUp == TrimSpec => RewriteBackedUp
<1>1. ASSUME TrimInv, [TrimNext]_trimVars, NEW r \in Runs, run[r].pc = "rewrite", ~spoilt
      PROVE  \E b \in backups[run[r].on] : file[run[r].on] \intersect owed[run[r].on] \subseteq b.text
  <2>1. SawAll(run[r]) /\ OwnBackup(run[r])
    BY <1>1 DEF TrimInv, RunsHold, RunHolds
  <2>2. QED
    BY <1>1, <2>1 DEF SawAll, OwnBackup, Trimming
<1>2. TrimInv /\ [TrimNext]_trimVars =>
        [\A r \in Runs :
           run[r].pc = "rewrite" /\ file' # file =>
             \/ spoilt
             \/ \E b \in backups[run[r].on] :
                  file[run[r].on] \intersect owed[run[r].on] \subseteq b.text]_trimVars
  BY <1>1
<1>3. QED
  BY <1>2, TrimInvariant, PTL DEF TrimSpec, RewriteBackedUp

=============================================================================
