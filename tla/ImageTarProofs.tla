--------------------------- MODULE ImageTarProofs ---------------------------
(***************************************************************************)
(* The images of containers, for any directories, any lengths of their     *)
(* files and of the buffer, and any bounds on faults and on changes.       *)
(***************************************************************************)
EXTENDS ImageTar, FiniteSetTheorems, TLAPS

Entries == [size : Nat, good : Nat]

\* The failures create drops, and the changes of the container.
Dropped == {"image", "header", "write", "read", "close", "tree"}

\* The paths of the directories that are done with.
Before == UNION {Trees[i] : i \in 1..dirs - 1}

\* Both archives are maps; create has an entry open, extract one in hand, and
\* extract does not begin before create has ended.
Shape ==
    /\ image \in [DOMAIN image -> Entries] /\ out \in [DOMAIN out -> Entries]
    /\ cpc = "data" => entry \in DOMAIN image
    /\ xpc = "entry" => xentry \in DOMAIN image
    /\ xpc # "idle" => cpc = "done"

\* Where create is in its directory.
Walk ==
    /\ cpc \in {"next", "header", "data"} => todo \subseteq Trees[dirs]
    /\ cpc \in {"header", "data"} => entry \in Trees[dirs] \ todo
    /\ cpc = "open" => todo = {} /\ dirs = 1 /\ image = Empty
    /\ cpc \notin {"close", "done"} => ret = 0
    /\ cpc \in {"close", "done"} /\ ret # -1 => todo \subseteq gone

\* What the history says of the state.
History ==
    /\ "tree" \notin log => len = Length /\ gone = {}
    /\ "write" \in log => broken
    /\ ret = 1 => "image" \in log
    /\ broken => log # {}
    /\ broken /\ {"write", "close"} \cap log = {} => cpc \in {"close", "done"} /\ ret = -1
    /\ log = {} => ret = 0
    /\ "close" \in log => cpc = "done"
    /\ log \cap {"disk", "next", "fatal"} # {} => ret = -1
    /\ ret = -1 => /\ cpc \in {"close", "done"}
                   /\ log \cap {"disk", "next", "fatal", "write", "tree"} # {}

\* The archive has every path named so far, unless a header was refused.
Domains ==
    ret # -1 /\ log \cap {"image", "header", "tree"} = {} =>
        /\ cpc \in {"open", "disk"} => DOMAIN image = Before
        /\ cpc \in {"next", "data"} => DOMAIN image = Before \cup (Trees[dirs] \ todo)
        /\ cpc = "header" => DOMAIN image = Before \cup (Trees[dirs] \ (todo \cup {entry}))
        /\ cpc \in {"close", "done"} => DOMAIN image = Paths

\* Every entry is complete but the one in hand, which is as far as its file was read.
Contents ==
    log \cap Dropped = {} =>
        /\ cpc = "header" => size = Length[entry]
        /\ \A p \in DOMAIN image :
              /\ image[p].size = Length[p]
              /\ \/ image[p].good = Length[p]
                 \/ cpc = "data" /\ p = entry /\ image[p].good = off /\ off <= Length[p]

\* extract has restored what it has seen; it fails only for a reason.
Extracted ==
    /\ xpc \in {"idle", "next", "entry"} => xret = 0
    /\ xpc = "idle" => out = Empty
    /\ xpc \in {"next", "entry"} =>
          DOMAIN image = DOMAIN out \cup xtodo \cup (IF xpc = "entry" THEN {xentry} ELSE {})
    /\ xpc = "done" /\ xret = 0 => broken \/ out = image
    /\ log = {} => xret = 0

IInv == TypeOK /\ Shape /\ Walk /\ History /\ Domains /\ Contents /\ Extracted

-----------------------------------------------------------------------------
LEMMA PutMap ==
    ASSUME NEW f, NEW p, NEW e, f \in [DOMAIN f -> Entries], e \in Entries
    PROVE  /\ DOMAIN Put(f, p, e) = DOMAIN f \cup {p}
           /\ Put(f, p, e) \in [DOMAIN Put(f, p, e) -> Entries]
BY DEF Put

LEMMA TreePaths ==
    ASSUME NEW d \in 1..Len(Trees)
    PROVE  Len(Trees) \in Nat /\ Trees[d] \subseteq Paths
BY TreesAssumption DEF Paths

LEMMA LogGrows == [Next]_vars => log \subseteq log'
BY DEF Next, CreateStep, ExtractStep, OpenImage, OpenDisk, NextHeader, WriteHeader, CopyFile,
       CloseImage, Disturb, StartExtract, ExtractNext, ExtractEntry, EntryFails, Goes, Fails, vars,
       budgets

\* The actions of create, and what none of them touches.
LEMMA CreateFrame ==
    ASSUME CreateStep PROVE UNCHANGED <<treeVars, extractVars, changes>> /\ cpc # "done"
BY DEF CreateStep, OpenImage, OpenDisk, NextHeader, WriteHeader, CopyFile, CloseImage

LEMMA ExtractFrame ==
    ASSUME StartExtract \/ ExtractStep PROVE UNCHANGED <<createVars, treeVars, changes>>
BY DEF StartExtract, ExtractStep, ExtractNext, ExtractEntry, budgets

\* The steps of extract.
LEMMA ExtractStepShape ==
    ASSUME TypeOK, Shape, ExtractEntry, out' = Put(out, xentry, image[xentry])
    PROVE  /\ DOMAIN out' = DOMAIN out \cup {xentry}
           /\ out' \in [DOMAIN out' -> Entries]
<1>1. image[xentry] \in Entries
  BY DEF ExtractEntry, Shape
<1> QED BY <1>1, PutMap DEF Shape

-----------------------------------------------------------------------------
LEMMA IInvInit == Init => IInv
<1> SUFFICES ASSUME Init PROVE IInv OBVIOUS
<1>1. Empty \in [DOMAIN Empty -> Entries] /\ DOMAIN Empty = {}
  BY DEF Empty
<1>2. TypeOK
  <2>1. dirs \in 1..Len(Trees)
    BY TreesAssumption DEF Init
  <2>2. len \in [Paths -> Nat] /\ 0 \in 0..MaxFaults /\ 0 \in 0..MaxChanges
    BY TreesAssumption, BoundAssumption DEF Init
  <2> QED BY <1>1, <2>1, <2>2 DEF Init, TypeOK
<1>3. Before = {}
  BY DEF Init, Before
<1>4. Shape /\ Walk /\ History /\ Extracted
  BY <1>1 DEF Init, Shape, Walk, History, Extracted
<1>5. Domains /\ Contents
  BY <1>1, <1>3 DEF Init, Domains, Contents
<1> QED BY <1>2, <1>4, <1>5 DEF IInv

\* What create does to the archive keeps it a map.
LEMMA ImageNext ==
    ASSUME TypeOK, Shape, [Next]_vars
    PROVE  /\ image' \in [DOMAIN image' -> Entries] /\ DOMAIN image' \subseteq Paths
           /\ DOMAIN image \subseteq DOMAIN image'
           /\ \A p \in DOMAIN image' : image'[p].good \in 0..image'[p].size
           /\ cpc = "done" => image' = image
<1>1. CASE UNCHANGED image
  BY <1>1 DEF TypeOK, Shape
<1>2. CASE WriteHeader
  <2>1. CASE image' = Put(image, entry, [size |-> size, good |-> 0])
    <3>1. [size |-> size, good |-> 0] \in Entries /\ entry \in Paths
      BY DEF TypeOK, Entries
    <3>2. /\ DOMAIN image' = DOMAIN image \cup {entry}
          /\ image' \in [DOMAIN image' -> Entries]
          /\ image'[entry] = [size |-> size, good |-> 0]
          /\ \A q \in DOMAIN image \ {entry} : image'[q] = image[q]
      <4>1. image \in [DOMAIN image -> Entries]
        BY DEF Shape
      <4>2. image' \in [DOMAIN image' -> Entries]
        BY <2>1, <3>1, <4>1, PutMap
      <4>3. /\ DOMAIN image' = DOMAIN image \cup {entry}
            /\ image'[entry] = [size |-> size, good |-> 0]
            /\ \A q \in DOMAIN image : q # entry => image'[q] = image[q]
        BY <2>1 DEF Put
      <4> QED BY <4>2, <4>3
    <3>3. image'[entry].good \in 0..image'[entry].size
      BY <3>2 DEF TypeOK
    <3>4. cpc # "done"
      BY <1>2 DEF WriteHeader
    <3>5. DOMAIN image' \subseteq Paths
      BY <3>1, <3>2 DEF TypeOK
    <3>6. ASSUME NEW p \in DOMAIN image' PROVE image'[p].good \in 0..image'[p].size
      <4>1. CASE p = entry
        BY <3>3, <4>1
      <4>2. CASE p # entry
        <5>1. p \in DOMAIN image /\ image'[p] = image[p]
          BY <3>2, <3>6, <4>2
        <5> QED BY <5>1 DEF TypeOK
      <4> QED BY <4>1, <4>2
    <3> QED BY <3>2, <3>4, <3>5, <3>6
  <2> QED BY <1>1, <1>2, <2>1 DEF WriteHeader
<1>3. CASE CopyFile
  <2>1. CASE Chunk > 0 /\ image' = [image EXCEPT ![entry].good = Taken(Chunk)]
    <3>1. entry \in DOMAIN image /\ image[entry] \in Entries /\ Chunk \in Int
      BY <1>3, BoundAssumption DEF CopyFile, Shape, TypeOK, Chunk, AtMost
    <3>2. Taken(Chunk) \in 0..image[entry].size
      BY <2>1, <3>1 DEF Taken, AtMost, Entries, TypeOK
    <3>3. /\ DOMAIN image' = DOMAIN image
          /\ image'[entry] = [image[entry] EXCEPT !.good = Taken(Chunk)]
          /\ \A p \in DOMAIN image \ {entry} : image'[p] = image[p]
      BY <2>1, <3>1 DEF Shape
    <3>4. image'[entry] \in Entries /\ image'[entry].good \in 0..image'[entry].size
      BY <3>1, <3>2, <3>3 DEF Entries
    <3>5. image' \in [DOMAIN image' -> Entries]
      BY <2>1, <3>1, <3>3, <3>4 DEF Shape
    <3> QED BY <1>3, <3>3, <3>4, <3>5 DEF CopyFile, TypeOK
  <2> QED BY <1>1, <1>3, <2>1 DEF CopyFile
<1> QED BY <1>1, <1>2, <1>3 DEF Next, CreateStep, ExtractStep, OpenImage, OpenDisk, NextHeader,
    CloseImage, Disturb, StartExtract, ExtractNext, ExtractEntry, vars, createVars

LEMMA TypesNext ==
    ASSUME TypeOK, Shape, Extracted, [Next]_vars PROVE TypeOK'
<1>1. /\ cpc' \in {"open", "disk", "next", "header", "data", "close", "done"}
      /\ ret' \in {-1, 0, 1} /\ broken' \in BOOLEAN
      /\ xpc' \in {"idle", "next", "entry", "done"} /\ xret' \in {-1, 0}
  <2>1. cpc' \in {"open", "disk", "next", "header", "data", "close", "done"}
    BY DEF Next, CreateStep, ExtractStep, OpenImage, OpenDisk, NextHeader, NextDirectory,
           WriteHeader, CopyFile, CloseImage, Disturb, StartExtract, ExtractNext, ExtractEntry, vars,
           createVars, extractVars, treeVars, TypeOK
  <2>2. ret' \in {-1, 0, 1} /\ broken' \in BOOLEAN
    BY DEF Next, CreateStep, ExtractStep, OpenImage, OpenDisk, NextHeader, NextDirectory,
           WriteHeader, CopyFile, CloseImage, Disturb, StartExtract, ExtractNext, ExtractEntry, vars,
           createVars, extractVars, treeVars, TypeOK
  <2>3. xpc' \in {"idle", "next", "entry", "done"} /\ xret' \in {-1, 0}
    BY DEF Next, CreateStep, ExtractStep, OpenImage, OpenDisk, NextHeader, NextDirectory,
           WriteHeader, CopyFile, CloseImage, Disturb, StartExtract, ExtractNext, ExtractEntry, vars,
           createVars, extractVars, treeVars, TypeOK
  <2> QED BY <2>1, <2>2, <2>3
<1>2. dirs' \in 1..Len(Trees)
  <2>1. dirs' = dirs \/ (dirs # Len(Trees) /\ dirs' = dirs + 1)
    BY DEF Next, CreateStep, ExtractStep, OpenImage, OpenDisk, NextHeader, NextDirectory, WriteHeader,
           CopyFile, CloseImage, Disturb, StartExtract, ExtractNext, ExtractEntry, vars, createVars
  <2> QED BY <2>1, TreePaths DEF TypeOK
<1>3. todo' \subseteq Paths /\ entry' \in Paths /\ size' \in Nat
  <2>1. CASE UNCHANGED <<todo, entry, size>>
    BY <2>1 DEF TypeOK
  <2>2. CASE OpenDisk
    BY <2>2, TreePaths DEF OpenDisk, TypeOK
  <2>3. CASE NextHeader
    BY <2>3 DEF NextHeader, TypeOK
  <2> QED BY <2>1, <2>2, <2>3 DEF Next, CreateStep, ExtractStep, OpenImage, WriteHeader, CopyFile,
      CloseImage, Disturb, StartExtract, ExtractNext, ExtractEntry, vars, createVars
<1>4. off' \in Nat
  <2>1. off' = off \/ off' = 0 \/ (Chunk > 0 /\ off' = off + Chunk)
    BY DEF Next, CreateStep, ExtractStep, OpenImage, OpenDisk, NextHeader, WriteHeader,
           CopyFile, CloseImage, Disturb, StartExtract, ExtractNext, ExtractEntry, vars, createVars
  <2>2. Chunk \in Int
    BY BoundAssumption DEF Chunk, AtMost, TypeOK
  <2> QED BY <2>1, <2>2 DEF TypeOK
<1>5. len' \in [Paths -> Nat] /\ gone' \subseteq Paths
  <2>1. CASE UNCHANGED treeVars
    BY <2>1 DEF treeVars, TypeOK
  <2>2. CASE Disturb
    BY <2>2 DEF Disturb, TypeOK
  <2> QED BY <2>1, <2>2, CreateFrame, ExtractFrame DEF Next, vars
<1>6. /\ DOMAIN image' \subseteq Paths
      /\ \A p \in DOMAIN image' : image'[p].size \in Nat /\ image'[p].good \in 0..image'[p].size
  BY ImageNext DEF Entries
<1>7. /\ xtodo' \subseteq DOMAIN image' /\ xentry' \in Paths
      /\ DOMAIN out' \subseteq DOMAIN image' /\ \A p \in DOMAIN out' : out'[p] = image'[p]
  <2>1. CASE CreateStep \/ Disturb
    <3>1. UNCHANGED extractVars /\ xpc = "idle"
      BY <2>1, CreateFrame DEF Disturb, Shape, TypeOK
    <3>2. out' = Empty /\ DOMAIN Empty = {}
      BY <3>1 DEF Extracted, extractVars, Empty
    <3> QED BY <3>1, <3>2, ImageNext DEF extractVars, TypeOK
  <2>2. CASE UNCHANGED <<extractVars, image>>
    BY <2>2 DEF extractVars, TypeOK
  <2>3. CASE StartExtract \/ ExtractNext
    <3>1. image' = image /\ out' = out
      BY <2>3, ExtractFrame DEF ExtractStep, createVars, StartExtract, ExtractNext
    <3>2. xtodo' \subseteq DOMAIN image /\ xentry' \in Paths
      BY <2>3 DEF StartExtract, ExtractNext, TypeOK
    <3> QED BY <3>1, <3>2 DEF TypeOK
  <2>4. CASE ExtractEntry
    <3>1. image' = image /\ xtodo' = xtodo /\ xentry' = xentry /\ xentry \in DOMAIN image
      BY <2>4 DEF ExtractEntry, createVars, Shape
    <3>2. CASE out' = out
      BY <3>1, <3>2 DEF TypeOK
    <3>3. CASE out' = Put(out, xentry, image[xentry])
      <4>1. image[xentry] \in Entries /\ out \in [DOMAIN out -> Entries]
        BY <3>1 DEF Shape
      <4>2. /\ DOMAIN out' = DOMAIN out \cup {xentry} /\ out'[xentry] = image[xentry]
            /\ \A q \in DOMAIN out : q # xentry => out'[q] = out[q]
        BY <3>3 DEF Put
      <4> QED BY <3>1, <4>2 DEF TypeOK
    <3> QED BY <2>4, <3>2, <3>3 DEF ExtractEntry
  <2> QED BY <2>1, <2>2, <2>3, <2>4 DEF Next, ExtractStep, vars, createVars
<1>8. log' \subseteq {"image", "disk", "next", "header", "fatal", "write", "read",
                      "close", "tree", "extract"}
  BY DEF Next, CreateStep, ExtractStep, OpenImage, OpenDisk, NextHeader, WriteHeader, CopyFile,
         CloseImage, Disturb, StartExtract, ExtractNext, ExtractEntry, EntryFails, Goes, Fails, vars,
         budgets, TypeOK
<1>9. faults' \in 0..MaxFaults /\ changes' \in 0..MaxChanges
  <2>1. faults' = faults \/ (faults < MaxFaults /\ faults' = faults + 1)
    BY DEF Next, CreateStep, ExtractStep, OpenImage, OpenDisk, NextHeader, WriteHeader, CopyFile,
           CloseImage, Disturb, StartExtract, ExtractNext, ExtractEntry, EntryFails, Goes, Fails, vars,
           budgets
  <2>2. changes' = changes \/ (changes < MaxChanges /\ changes' = changes + 1)
    BY CreateFrame, ExtractFrame DEF Next, Disturb, vars, budgets
  <2> QED BY <2>1, <2>2, BoundAssumption DEF TypeOK
<1> QED BY <1>1, <1>2, <1>3, <1>4, <1>5, <1>6, <1>7, <1>8, <1>9 DEF TypeOK

LEMMA ShapeNext ==
    ASSUME TypeOK, Shape, Walk, Extracted, [Next]_vars PROVE Shape'
<1>1. image' \in [DOMAIN image' -> Entries] /\ DOMAIN image \subseteq DOMAIN image'
  BY ImageNext
<1>2. out' \in [DOMAIN out' -> Entries]
  <2>1. CASE UNCHANGED out
    BY <2>1 DEF Shape
  <2>2. CASE ExtractEntry
    BY <2>1, <2>2, ExtractStepShape DEF ExtractEntry
  <2> QED BY <2>1, <2>2, CreateFrame DEF Next, ExtractStep, StartExtract, ExtractNext, Disturb,
             extractVars, vars
<1>3. cpc' = "data" => entry' \in DOMAIN image'
  <2>1. CASE UNCHANGED <<cpc, entry>>
    BY <1>1, <2>1 DEF Shape
  <2>2. CASE WriteHeader
    <3>1. CASE cpc' = "data"
      <4>1. image' = Put(image, entry, [size |-> size, good |-> 0]) /\ entry' = entry
        BY <2>2, <3>1 DEF WriteHeader
      <4>2. [size |-> size, good |-> 0] \in Entries /\ image \in [DOMAIN image -> Entries]
        BY DEF TypeOK, Entries, Shape
      <4>3. DOMAIN image' = DOMAIN image \cup {entry}
        BY <4>1, <4>2, PutMap
      <4> QED BY <4>1, <4>3
    <3> QED BY <3>1
  <2>3. CASE cpc' # "data"
    BY <2>3
  <2>4. CASE CopyFile
    BY <1>1, <2>4 DEF CopyFile, Shape
  <2> QED BY <2>1, <2>2, <2>3, <2>4, ExtractFrame DEF Next, CreateStep, OpenImage, OpenDisk,
             NextHeader, NextDirectory, CloseImage, Disturb, vars, createVars
<1>4. xpc' = "entry" => xentry' \in DOMAIN image'
  <2>1. CASE UNCHANGED extractVars
    BY <1>1, <2>1 DEF extractVars, Shape
  <2>2. CASE ExtractNext
    BY <1>1, <2>2 DEF ExtractNext, TypeOK
  <2>3. CASE xpc' # "entry"
    BY <2>3
  <2> QED BY <2>1, <2>2, <2>3, CreateFrame DEF Next, ExtractStep, StartExtract, ExtractEntry,
             Disturb, vars
<1>5. xpc' # "idle" => cpc' = "done"
  <2>1. CASE CreateStep
    BY <2>1, CreateFrame DEF extractVars, Shape
  <2> QED BY <2>1, ExtractFrame DEF Next, Disturb, createVars, extractVars, vars, StartExtract,
             ExtractStep, ExtractNext, ExtractEntry, Shape
<1> QED BY <1>1, <1>2, <1>3, <1>4, <1>5 DEF Shape

LEMMA WalkNext ==
    ASSUME TypeOK, Walk, [Next]_vars PROVE Walk'
<1>1. CASE CreateStep
  BY <1>1 DEF CreateStep, OpenImage, OpenDisk, NextHeader, NextDirectory, WriteHeader, CopyFile,
     CloseImage, treeVars, Walk
<1>2. CASE Disturb
  BY <1>2 DEF Disturb, createVars, Walk
<1>3. CASE UNCHANGED <<createVars, treeVars>>
  BY <1>3 DEF createVars, treeVars, Walk
<1> QED BY <1>1, <1>2, <1>3, ExtractFrame DEF Next, vars

LEMMA HistoryNext ==
    ASSUME TypeOK, Shape, Walk, History, [Next]_vars PROVE History'
<1>1. CASE OpenImage \/ OpenDisk \/ NextHeader
  BY <1>1 DEF OpenImage, OpenDisk, NextHeader, NextDirectory, Goes, Fails, treeVars, Walk, History
<1>2. CASE WriteHeader
  BY <1>2 DEF WriteHeader, Goes, Fails, treeVars, Walk, History
<1>3. CASE CopyFile
  BY <1>3 DEF CopyFile, Goes, Fails, treeVars, Walk, History
<1>4. CASE CloseImage
  BY <1>4 DEF CloseImage, Goes, Fails, treeVars, Walk, History
<1>5. CASE Disturb
  BY <1>5 DEF Disturb, createVars, Walk, History
<1>6. CASE StartExtract \/ ExtractStep
  BY <1>6, ExtractFrame DEF StartExtract, ExtractStep, ExtractNext, ExtractEntry, EntryFails,
     Goes, Fails, budgets, createVars, treeVars, History
<1>7. CASE UNCHANGED vars
  BY <1>7 DEF vars, createVars, treeVars, History
<1> QED BY <1>1, <1>2, <1>3, <1>4, <1>5, <1>6, <1>7 DEF Next, CreateStep

LEMMA ExtractedNext ==
    ASSUME TypeOK, Shape, Walk, History, Extracted, [Next]_vars PROVE Extracted'
<1>1. CASE CreateStep \/ Disturb
  <2>1. UNCHANGED extractVars /\ xpc = "idle" /\ xpc' = "idle"
    BY <1>1, CreateFrame DEF Disturb, extractVars, Shape, TypeOK
  <2> QED BY <2>1 DEF extractVars, Extracted
<1>2. CASE StartExtract
  <2>1. DOMAIN Empty = {}
    BY DEF Empty
  <2>2. /\ xpc = "idle" /\ out = Empty /\ image' = image /\ out' = out /\ log' = log
        /\ xret = 0 /\ (ret = 1 => "image" \in log)
    BY <1>2 DEF StartExtract, createVars, budgets, Extracted, History
  <2>3. CASE ret = 1
    <3>1. xpc' = "done" /\ xret' = -1 /\ log' # {}
      BY <1>2, <2>2, <2>3 DEF StartExtract
    <3> QED BY <3>1 DEF Extracted
  <2>4. CASE ret # 1
    <3>1. xpc' = "next" /\ xret' = 0 /\ xtodo' = DOMAIN image'
      BY <1>2, <2>2, <2>4 DEF StartExtract
    <3> QED BY <2>1, <2>2, <3>1 DEF Extracted
  <2> QED BY <2>3, <2>4
<1>3. CASE ExtractNext
  <2>1. CASE xpc' = "entry"
    BY <1>3, <2>1 DEF ExtractNext, createVars, Goes, Extracted
  <2>2. CASE xpc' = "done" /\ xret' = 0
    <3>1. out' = out /\ image' = image /\ broken' = broken /\ (xtodo = {} \/ broken) /\ xpc = "next"
      BY <1>3, <2>2 DEF ExtractNext, createVars
    <3>2. CASE xtodo = {}
      <4>1. DOMAIN image = DOMAIN out
        BY <3>1, <3>2 DEF Extracted
      <4>2. out = image
        BY <4>1 DEF Shape, TypeOK
      <4> QED BY <2>2, <3>1, <4>2 DEF Extracted
    <3> QED BY <2>2, <3>1, <3>2 DEF Extracted
  <2>3. CASE xpc' = "done" /\ xret' = -1 /\ ((broken /\ Goes) \/ Fails("extract"))
    <3>1. log' # {}
      BY <2>3 DEF Goes, Fails, History
    <3> QED BY <2>3, <3>1 DEF Extracted
  <2> QED BY <1>3, <2>1, <2>2, <2>3 DEF ExtractNext, Extracted
<1>4. CASE ExtractEntry
  <2>1. CASE Goes /\ out' = Put(out, xentry, image[xentry]) /\ xpc' = "next" /\ UNCHANGED xret
    BY <1>4, <2>1, ExtractStepShape DEF ExtractEntry, createVars, Goes, Extracted
  <2>2. CASE EntryFails /\ xpc' = "done" /\ xret' = -1
    <3>1. log' # {}
      BY <2>2 DEF EntryFails, Goes, Fails, History
    <3> QED BY <2>2, <3>1 DEF Extracted
  <2> QED BY <1>4, <2>1, <2>2 DEF ExtractEntry
<1>5. CASE UNCHANGED vars
  BY <1>5 DEF vars, createVars, extractVars, Extracted
<1> QED BY <1>1, <1>2, <1>3, <1>4, <1>5 DEF Next, ExtractStep

LEMMA DomainsNext ==
    ASSUME TypeOK, Shape, Walk, History, Domains, [Next]_vars PROVE Domains'
<1> SUFFICES ASSUME ret' # -1, log' \cap {"image", "header", "tree"} = {}
             PROVE  /\ cpc' \in {"open", "disk"} => DOMAIN image' = Before'
                    /\ cpc' \in {"next", "data"} =>
                          DOMAIN image' = Before' \cup (Trees[dirs'] \ todo')
                    /\ cpc' = "header" =>
                          DOMAIN image' = Before' \cup (Trees[dirs'] \ (todo' \cup {entry'}))
                    /\ cpc' \in {"close", "done"} => DOMAIN image' = Paths
  BY DEF Domains
<1>1. log \cap {"image", "header", "tree"} = {} /\ gone = {}
  BY LogGrows DEF History
<1>2. CASE OpenImage
  <2>1. cpc' = "disk" /\ UNCHANGED <<dirs, image>> /\ cpc = "open" /\ ret # -1
    BY <1>2 DEF OpenImage, Fails, Walk
  <2> QED BY <1>1, <2>1 DEF Domains, Before
<1>3. CASE OpenDisk
  <2>1. cpc' = "next" /\ UNCHANGED <<dirs, image>> /\ cpc = "disk" /\ ret # -1 /\ todo' = Trees[dirs]
    BY <1>3 DEF OpenDisk, Walk
  <2> QED BY <1>1, <2>1 DEF Domains, Before
<1>4. CASE NextHeader
  <2>1. cpc = "next" /\ image' = image /\ DOMAIN image = Before \cup (Trees[dirs] \ todo)
    BY <1>1, <1>4 DEF NextHeader, Walk, Domains
  <2>2. CASE cpc' = "header"
    <3>1. dirs' = dirs /\ entry' \in todo /\ todo' = todo \ {entry'}
      BY <1>4, <2>2 DEF NextHeader, NextDirectory
    <3> QED BY <2>1, <2>2, <3>1 DEF Before, Walk
  <2>3. CASE todo \subseteq gone /\ NextDirectory
    <3>1. DOMAIN image = UNION {Trees[i] : i \in 1..dirs}
      <4>1. dirs \in Nat \ {0} /\ 1..dirs = (1..dirs - 1) \cup {dirs}
        BY TreesAssumption DEF TypeOK
      <4> QED BY <1>1, <2>1, <2>3, <4>1 DEF Before
    <3>2. CASE dirs = Len(Trees)
      BY <2>1, <2>3, <3>1, <3>2 DEF NextDirectory, Paths
    <3>3. CASE dirs # Len(Trees)
      <4>1. cpc' = "disk" /\ dirs' - 1 = dirs
        BY <2>3, <3>3, TreesAssumption DEF NextDirectory, TypeOK
      <4> QED BY <2>1, <3>1, <4>1 DEF Before
    <3> QED BY <3>2, <3>3
  <2> QED BY <1>4, <2>2, <2>3 DEF NextHeader
<1>5. CASE WriteHeader
  <2>1. cpc = "header" /\ cpc' = "data" /\ image' = Put(image, entry, [size |-> size, good |-> 0])
        /\ UNCHANGED <<dirs, todo, entry>> /\ ret # -1
    BY <1>5 DEF WriteHeader, Fails, Walk
  <2>2. DOMAIN image' = DOMAIN image \cup {entry}
    BY <2>1 DEF Put
  <2> QED BY <1>1, <2>1, <2>2 DEF Domains, Before, Walk
<1>6. CASE CopyFile
  <2>1. cpc = "data" /\ cpc' \in {"next", "data"} /\ UNCHANGED <<ret, dirs, todo>>
        /\ DOMAIN image' = DOMAIN image
    BY <1>6 DEF CopyFile, Shape
  <2> QED BY <1>1, <2>1 DEF Domains, Before
<1>7. CASE CloseImage
  BY <1>1, <1>7 DEF CloseImage, Domains
<1>8. CASE UNCHANGED createVars
  BY <1>1, <1>8 DEF createVars, Domains, Before
<1> QED BY <1>2, <1>3, <1>4, <1>5, <1>6, <1>7, <1>8, ExtractFrame DEF Next, CreateStep, Disturb, vars

LEMMA ContentsNext ==
    ASSUME TypeOK, Shape, Walk, History, Contents, [Next]_vars PROVE Contents'
<1> SUFFICES ASSUME log' \cap Dropped = {}
             PROVE  /\ cpc' = "header" => size' = Length[entry']
                    /\ \A p \in DOMAIN image' :
                          /\ image'[p].size = Length[p]
                          /\ \/ image'[p].good = Length[p]
                             \/ cpc' = "data" /\ p = entry' /\ image'[p].good = off'
                                   /\ off' <= Length[p]
  BY DEF Contents
<1>1. log \cap Dropped = {} /\ gone = {} /\ len = Length
  BY LogGrows DEF History, Dropped
<1>2. /\ cpc = "header" => size = Length[entry]
      /\ \A p \in DOMAIN image :
            /\ image[p].size = Length[p]
            /\ \/ image[p].good = Length[p]
               \/ cpc = "data" /\ p = entry /\ image[p].good = off /\ off <= Length[p]
  BY <1>1 DEF Contents
<1>3. CASE NextHeader
  <2>1. image' = image /\ cpc = "next" /\ cpc' # "data" /\ (cpc' = "header" => size' = len[entry'])
    BY <1>3 DEF NextHeader, NextDirectory
  <2> QED BY <1>1, <1>2, <2>1
<1>4. CASE WriteHeader
  <2>1. CASE cpc' = "data"
    <3>1. image' = Put(image, entry, [size |-> size, good |-> 0]) /\ off' = 0 /\ entry' = entry
          /\ cpc = "header"
      BY <1>4, <2>1 DEF WriteHeader
    <3>2. Length[entry] \in Nat /\ size = Length[entry]
      BY <1>2, <3>1, TreesAssumption DEF TypeOK
    <3> QED BY <1>2, <2>1, <3>1, <3>2 DEF Put
  <2>2. CASE cpc' # "data"
    BY <1>2, <1>4, <2>2 DEF WriteHeader
  <2> QED BY <2>1, <2>2
<1>5. CASE CopyFile
  <2>1. cpc = "data" /\ cpc' \in {"next", "data"} /\ entry' = entry /\ entry \in DOMAIN image
        /\ entry \in Paths /\ off \in Nat /\ ~broken
    BY <1>1, <1>5 DEF CopyFile, Shape, TypeOK, History, Dropped
  <2>2. Length[entry] \in Nat
    BY <2>1, TreesAssumption
  <2>3. Chunk \in Int /\ off + Chunk <= Length[entry] /\ (Chunk <= 0 => off >= Length[entry])
    BY <1>1, <2>1, <2>2, BoundAssumption DEF Chunk, AtMost
  <2>4. CASE Chunk <= 0 /\ cpc' = "next" /\ image' = image
    BY <1>2, <2>1, <2>2, <2>3, <2>4
  <2>5. CASE /\ Chunk > 0 /\ off' = off + Chunk /\ cpc' = cpc
             /\ image' = [image EXCEPT ![entry].good = Taken(Chunk)]
    <3>1. /\ DOMAIN image' = DOMAIN image /\ image'[entry].size = image[entry].size
          /\ image'[entry].good = Taken(Chunk)
          /\ \A p \in DOMAIN image : p # entry => image'[p] = image[p]
      <4>1. image \in [DOMAIN image -> Entries] /\ image[entry] \in Entries
        BY <2>1 DEF Shape
      <4> QED BY <2>1, <2>5, <4>1 DEF Entries
    <3>2. image[entry].good \in Nat /\ image[entry].size = Length[entry]
      BY <1>2, <2>1 DEF TypeOK
    <3>3. Taken(Chunk) = Length[entry] \/ (Taken(Chunk) = off' /\ off' <= Length[entry])
      BY <1>2, <2>1, <2>2, <2>3, <2>5, <3>2 DEF Taken, AtMost
    <3> QED BY <1>2, <2>1, <2>5, <3>1, <3>2, <3>3
  <2> QED BY <1>1, <1>5, <2>1, <2>4, <2>5 DEF CopyFile, Fails, Dropped
<1>6. CASE UNCHANGED image /\ cpc # "data" /\ cpc' \notin {"header", "data"}
  BY <1>2, <1>6
<1>7. CASE UNCHANGED createVars
  BY <1>2, <1>7 DEF createVars
<1> QED BY <1>3, <1>4, <1>5, <1>6, <1>7, ExtractFrame
  DEF Next, CreateStep, OpenImage, OpenDisk, CloseImage, Disturb, vars

LEMMA IInvNext == IInv /\ [Next]_vars => IInv'
BY TypesNext, ShapeNext, WalkNext, HistoryNext, DomainsNext, ContentsNext, ExtractedNext DEF IInv

LEMMA Invariance == Spec => []IInv
BY IInvInit, IInvNext, PTL DEF Spec

-----------------------------------------------------------------------------
\* Types; an entry never has more good bytes than its header says, and extract
\* restores what the image has (create, extract and copy_data of tar.cpp).
THEOREM TypeCorrect == Spec => []TypeOK
BY Invariance, PTL DEF IInv

\* commitContainer reports an incomplete image as made only after a failure whose
\* result create drops, or after the container changed its files meanwhile.
THEOREM LossHasCause == Spec => []LossOnlyByDroppedResult
<1>1. IInv => LossOnlyByDroppedResult
  <2> SUFFICES ASSUME IInv, Committed, log \cap Dropped = {} PROVE Whole
    BY DEF LossOnlyByDroppedResult, Dropped
  <2>1. len = Length /\ ~broken /\ cpc = "done" /\ ret # -1
    BY DEF IInv, History, Dropped, Committed
  <2>2. DOMAIN image = Paths
    BY <2>1 DEF IInv, Domains, Dropped
  <2> QED BY <2>1, <2>2 DEF IInv, Contents, Whole
<1> QED BY <1>1, Invariance, PTL

\* A walk that failed or a header refused with ARCHIVE_FATAL (tar.cpp:64 and 83) is
\* always what create reports; what it does not look at, or only logs, never is.
THEOREM FailuresReported == Spec => []ReportedFailures
<1>1. IInv => ReportedFailures
  BY DEF IInv, History, ReportedFailures
<1> QED BY <1>1, Invariance, PTL

\* extract's success means that all of the image was restored, or that the image
\* had lost a part; without a failure it is a success.
THEOREM ExtractHonest == Spec => []ExtractIsHonest
<1>1. IInv => ExtractIsHonest
  BY DEF IInv, Extracted, ExtractIsHonest
<1> QED BY <1>1, Invariance, PTL

\* What extract restores are the paths that were packed, each with the bytes it had
\* when create began.
Restored ==
    xpc = "done" /\ log = {} => out = [p \in Paths |-> [size |-> Length[p], good |-> Length[p]]]

\* From end to end: with nothing gone wrong, create (tar.cpp) and extract restore
\* every path with its bytes.
THEOREM RestoresAll == Spec => []Restored
<1>1. IInv => Restored
  <2> SUFFICES ASSUME IInv, xpc = "done", log = {}
               PROVE  out = [p \in Paths |-> [size |-> Length[p], good |-> Length[p]]]
    BY DEF Restored
  <2>1. cpc = "done" /\ ret = 0 /\ ~broken /\ out = image
    BY DEF IInv, Shape, History, Extracted
  <2>2. DOMAIN image = Paths
    BY <2>1 DEF IInv, Domains
  <2>3. \A p \in Paths : image[p].size = Length[p] /\ image[p].good = Length[p]
    BY <2>1, <2>2 DEF IInv, Contents
  <2>4. image \in [Paths -> Entries]
    BY <2>2 DEF IInv, Shape
  <2> QED BY <2>1, <2>3, <2>4 DEF Entries
<1> QED BY <1>1, Invariance, PTL

-----------------------------------------------------------------------------
(***************************************************************************)
(* That create and extract end, on a tree with finitely many paths.        *)
(***************************************************************************)
Later(d) == UNION {Trees[i] : i \in d..Len(Trees)}

\* The paths create may still be given, and what it has left to do.
Pending ==
    IF cpc \in {"open", "disk"} THEN Later(dirs)
    ELSE IF cpc \in {"next", "header", "data"} THEN todo \cup Later(dirs + 1) ELSE {}

Place ==
    IF cpc \in {"open", "header"} THEN 5 ELSE IF cpc \in {"disk", "data"} THEN 4
    ELSE IF cpc = "next" THEN 3 ELSE IF cpc = "close" THEN 1 ELSE 0

CreateLeft == 3 * Cardinality(Pending) + 2 * (Len(Trees) - dirs) + Place

\* A block is read and the file not left.
ReadsOn == cpc = "data" /\ cpc' = "data" /\ off < off' /\ off' <= len[entry]

LEMMA LaterFacts ==
    ASSUME NEW d \in 1..Len(Trees)
    PROVE  /\ Len(Trees) \in Nat
           /\ Later(d) = Trees[d] \cup Later(d + 1)
           /\ Later(d) \subseteq Paths /\ Trees[d] \cap Later(d + 1) = {}
<1>1. Len(Trees) \in Nat /\ \A i \in 1..Len(Trees) : Trees[i] \subseteq Paths
  BY TreesAssumption, TreePaths
<1>2. d..Len(Trees) = {d} \cup (d + 1)..Len(Trees)
  BY <1>1
<1>3. Later(d) = Trees[d] \cup Later(d + 1)
  BY <1>2 DEF Later
<1>4. \A i \in d..Len(Trees) : i \in 1..Len(Trees)
  BY <1>1
<1>5. Later(d) \subseteq Paths
  BY <1>1, <1>4 DEF Later
<1>6. \A i \in (d + 1)..Len(Trees) : i \in 1..Len(Trees) /\ i # d
  BY <1>1
<1>7. Trees[d] \cap Later(d + 1) = {}
  BY <1>6, TreesAssumption DEF Later
<1> QED BY <1>1, <1>3, <1>5, <1>7

PendingInPaths == Pending \subseteq Paths

LEMMA PendingPaths == TypeOK => PendingInPaths
<1> SUFFICES ASSUME TypeOK PROVE Pending \subseteq Paths BY DEF PendingInPaths
<1>1. dirs \in 1..Len(Trees) /\ todo \subseteq Paths
  BY DEF TypeOK
<1>2. Later(dirs) \subseteq Paths /\ Later(dirs + 1) \subseteq Later(dirs)
  BY <1>1, LaterFacts
<1> QED BY <1>1, <1>2 DEF Pending

LEMMA PendingPathsNext == TypeOK' => PendingInPaths'
BY PendingPaths, PTL

\* How a step of create moves on.
LEMMA CreateMoves ==
    ASSUME IInv, CreateStep
    PROVE  \/ /\ Pending' \subseteq Pending /\ dirs' = dirs /\ Place' < Place
           \/ /\ Pending' \subseteq Pending /\ cpc = "next" /\ cpc' = "disk" /\ dirs' = dirs + 1
              /\ dirs' <= Len(Trees)
           \/ /\ \E p \in Pending : Pending' \subseteq Pending \ {p}
              /\ cpc = "next" /\ cpc' = "header" /\ dirs' = dirs
           \/ ReadsOn /\ Pending' = Pending /\ dirs' = dirs /\ cpc' = cpc
<1>1. dirs \in 1..Len(Trees) /\ dirs \in Nat /\ Len(Trees) \in Nat
  BY LaterFacts DEF IInv, TypeOK
<1>2. Later(dirs) = Trees[dirs] \cup Later(dirs + 1) /\ Trees[dirs] \cap Later(dirs + 1) = {}
  BY <1>1, LaterFacts
<1>3. CASE OpenImage
  <2>1. cpc = "open" /\ cpc' \in {"disk", "done"} /\ UNCHANGED <<todo, dirs>> /\ todo = {}
    BY <1>3 DEF OpenImage, IInv, Walk
  <2> QED BY <1>2, <2>1 DEF Pending, Place
<1>4. CASE OpenDisk
  <2>1. /\ cpc = "disk" /\ dirs' = dirs
        /\ \/ cpc' = "next" /\ todo' = Trees[dirs]
           \/ cpc' = "close" /\ todo' = todo
    BY <1>4 DEF OpenDisk
  <2> QED BY <1>2, <2>1 DEF Pending, Place
<1>5. CASE NextHeader
  <2>1. cpc = "next" /\ Pending = todo \cup Later(dirs + 1) /\ todo \subseteq Trees[dirs]
    BY <1>5 DEF NextHeader, Pending, IInv, Walk
  <2>2. CASE cpc' = "header" /\ dirs' = dirs /\ \E p \in todo : todo' = todo \ {p}
    <3>1. PICK p \in todo : todo' = todo \ {p}
      BY <2>2
    <3>2. Pending' \subseteq Pending \ {p} /\ p \in Pending
      BY <1>2, <2>1, <2>2, <3>1 DEF Pending
    <3> QED BY <2>1, <2>2, <3>2
  <2>3. CASE cpc' = "close" /\ dirs' = dirs /\ todo' = todo
    BY <2>1, <2>3 DEF Pending, Place
  <2>4. CASE cpc' = "disk" /\ dirs # Len(Trees) /\ dirs' = dirs + 1 /\ todo' = todo
    <3>1. Pending' \subseteq Pending
      BY <2>1, <2>4 DEF Pending
    <3> QED BY <1>1, <2>1, <2>4, <3>1
  <2> QED BY <1>5, <2>2, <2>3, <2>4 DEF NextHeader, NextDirectory
<1>6. CASE WriteHeader
  <2>1. cpc = "header" /\ cpc' \in {"data", "next", "close"} /\ UNCHANGED <<todo, dirs>>
    BY <1>6 DEF WriteHeader
  <2> QED BY <2>1 DEF Pending, Place
<1>7. CASE CopyFile
  <2>1. /\ cpc = "data" /\ UNCHANGED <<todo, dirs>>
        /\ cpc' = "next" \/ (Chunk > 0 /\ off' = off + Chunk /\ cpc' = cpc)
    BY <1>7 DEF CopyFile
  <2>2. CASE cpc' = "next"
    BY <2>1, <2>2 DEF Pending, Place
  <2>3. CASE Chunk > 0 /\ off' = off + Chunk /\ cpc' = cpc
    <3>1. len[entry] \in Nat /\ off \in Nat /\ BlockSize \in Nat
      BY BoundAssumption DEF IInv, TypeOK
    <3>2. Chunk \in Int /\ Chunk <= len[entry] - off
      BY <3>1 DEF Chunk, AtMost
    <3>3. ReadsOn
      BY <2>1, <2>3, <3>1, <3>2 DEF ReadsOn
    <3>4. Pending' = Pending
      BY <2>1, <2>3 DEF Pending
    <3> QED BY <2>1, <2>3, <3>3, <3>4
  <2> QED BY <2>1, <2>2, <2>3
<1>8. CASE CloseImage
  <2>1. cpc = "close" /\ cpc' = "done" /\ UNCHANGED <<todo, dirs>>
    BY <1>8 DEF CloseImage
  <2> QED BY <2>1 DEF Pending, Place
<1> QED BY <1>3, <1>4, <1>5, <1>6, <1>7, <1>8 DEF CreateStep

\* create ends, whatever the container does to a tree of finitely many paths: each
\* of its steps gets on with the tree, in natural numbers, or with the file in hand,
\* never past its end; nothing else adds to what is left.  (A file that grows for
\* ever is what ImageEnds excludes by its bound, and leaves to fairness.)
THEOREM CreateShrinks ==
    ASSUME IsFiniteSet(Paths)
    PROVE  Spec => [][/\ CreateLeft \in Nat /\ CreateLeft' \in Nat /\ CreateLeft' <= CreateLeft
                      /\ CreateStep => CreateLeft' < CreateLeft \/ ReadsOn]_vars
<1>1. ASSUME IInv, IInv', Next
      PROVE  /\ CreateLeft \in Nat /\ CreateLeft' \in Nat /\ CreateLeft' <= CreateLeft
             /\ CreateStep => CreateLeft' < CreateLeft \/ ReadsOn
  <2>1. Pending \subseteq Paths /\ Pending' \subseteq Paths
    BY <1>1, PendingPaths, PendingPathsNext DEF IInv, PendingInPaths
  <2>2. PICK n \in Nat, m \in Nat : n = Cardinality(Pending) /\ m = Cardinality(Pending')
    BY <2>1, FS_Subset, FS_CardinalityType
  <2>3. PICK k \in Nat, d \in Nat, e \in Nat, r \in Nat, q \in Nat :
           /\ k = Len(Trees) /\ d = dirs /\ e = dirs' /\ r = Place /\ q = Place'
           /\ d <= k /\ e <= k
    <3>1. dirs \in 1..Len(Trees) /\ dirs' \in 1..Len(Trees) /\ Len(Trees) \in Nat
      BY <1>1, TreesAssumption DEF IInv, TypeOK
    <3>2. Place \in Nat /\ Place' \in Nat
      BY DEF Place
    <3> QED BY <3>1, <3>2
  <2>4. CreateLeft = 3 * n + 2 * (k - d) + r /\ CreateLeft' = 3 * m + 2 * (k - e) + q
    BY <2>2, <2>3 DEF CreateLeft
  <2>5. d <= k /\ e <= k
    BY <2>3
  <2>6. CreateLeft \in Nat /\ CreateLeft' \in Nat
    BY <2>4, <2>5
  <2>7. Pending' \subseteq Pending => m <= n
    BY <2>1, <2>2, FS_Subset
  <2>8. CASE CreateStep
    <3>1. CASE Pending' \subseteq Pending /\ dirs' = dirs /\ Place' < Place
      <4>1. m <= n /\ e = d /\ q < r
        BY <2>3, <2>7, <3>1
      <4> QED BY <2>4, <2>5, <2>6, <4>1
    <3>2. CASE /\ Pending' \subseteq Pending /\ cpc = "next" /\ cpc' = "disk" /\ dirs' = dirs + 1
      <4>1. m <= n /\ e = d + 1 /\ r = 3 /\ q = 4
        BY <2>3, <2>7, <3>2 DEF Place
      <4> QED BY <2>4, <2>5, <2>6, <4>1
    <3>3. CASE /\ \E p \in Pending : Pending' \subseteq Pending \ {p}
               /\ cpc = "next" /\ cpc' = "header" /\ dirs' = dirs
      <4>1. PICK p \in Pending : Pending' \subseteq Pending \ {p}
        BY <3>3
      <4>2. m <= n - 1
        <5>1. IsFiniteSet(Pending)
          BY <2>1, FS_Subset
        <5>2. IsFiniteSet(Pending \ {p}) /\ Cardinality(Pending \ {p}) = n - 1
          BY <2>2, <4>1, <5>1, FS_RemoveElement
        <5> QED BY <2>2, <4>1, <5>2, FS_Subset
      <4>3. e = d /\ r = 3 /\ q = 5
        BY <2>3, <3>3 DEF Place
      <4> QED BY <2>4, <2>5, <2>6, <4>2, <4>3
    <3>4. CASE ReadsOn /\ Pending' = Pending /\ dirs' = dirs /\ cpc' = cpc
      <4>1. CreateLeft' = CreateLeft
        BY <3>4 DEF CreateLeft, Place
      <4> QED BY <2>6, <3>4, <4>1
    <3> QED BY <1>1, <2>8, <3>1, <3>2, <3>3, <3>4, CreateMoves
  <2>9. CASE ~CreateStep
    <3>1. UNCHANGED createVars
      BY <1>1, <2>9, ExtractFrame DEF Next, Disturb
    <3>2. CreateLeft' = CreateLeft
      BY <3>1 DEF createVars, CreateLeft, Pending, Place
    <3> QED BY <2>6, <2>9, <3>2
  <2> QED BY <2>8, <2>9
<1>2. IInv /\ IInv' /\ [Next]_vars =>
        [/\ CreateLeft \in Nat /\ CreateLeft' \in Nat /\ CreateLeft' <= CreateLeft
         /\ CreateStep => CreateLeft' < CreateLeft \/ ReadsOn]_vars
  BY <1>1
<1> QED BY <1>2, Invariance, PTL DEF Spec

\* What extract has left to do.
ExtractLeft ==
    2 * Cardinality(xtodo) + (IF xpc = "entry" THEN 2 ELSE IF xpc = "next" THEN 1 ELSE 0)

\* extract ends, on whatever image create has left behind of finitely many paths: each
\* of its steps leaves it less to do, in natural numbers.
THEOREM ExtractShrinks ==
    ASSUME IsFiniteSet(Paths)
    PROVE  Spec => [][ExtractStep => /\ ExtractLeft \in Nat /\ ExtractLeft' \in Nat
                                     /\ ExtractLeft' < ExtractLeft]_vars
<1>1. ASSUME IInv, ExtractStep
      PROVE  ExtractLeft \in Nat /\ ExtractLeft' \in Nat /\ ExtractLeft' < ExtractLeft
  <2>1. IsFiniteSet(xtodo)
    BY <1>1, FS_Subset DEF IInv, TypeOK
  <2>2. PICK n \in Nat : n = Cardinality(xtodo)
    BY <2>1, FS_CardinalityType
  <2>3. CASE xtodo' = xtodo /\ (\/ xpc = "next" /\ xpc' = "done"
                                \/ xpc = "entry" /\ xpc' \in {"next", "done"})
    BY <2>2, <2>3 DEF ExtractLeft
  <2>4. CASE \E p \in xtodo : xtodo' = xtodo \ {p} /\ xpc = "next" /\ xpc' = "entry"
    <3>1. PICK p \in xtodo : xtodo' = xtodo \ {p}
      BY <2>4
    <3>2. Cardinality(xtodo') = n - 1 /\ n - 1 \in Nat
      <4>1. IsFiniteSet(xtodo \ {p}) /\ Cardinality(xtodo \ {p}) = n - 1
        BY <2>1, <2>2, <3>1, FS_RemoveElement
      <4>2. Cardinality(xtodo \ {p}) \in Nat
        BY <4>1, FS_CardinalityType
      <4> QED BY <3>1, <4>1, <4>2
    <3>3. ExtractLeft = 2 * n + 1 /\ ExtractLeft' = 2 * (n - 1) + 2
      BY <2>2, <2>4, <3>2 DEF ExtractLeft
    <3> QED BY <3>2, <3>3
  <2> QED BY <1>1, <2>3, <2>4 DEF ExtractStep, ExtractNext, ExtractEntry
<1>2. IInv /\ [Next]_vars =>
        [ExtractStep => /\ ExtractLeft \in Nat /\ ExtractLeft' \in Nat
                        /\ ExtractLeft' < ExtractLeft]_vars
  BY <1>1
<1> QED BY <1>2, Invariance, PTL DEF Spec
=============================================================================
