----------------------------- MODULE PackProofs -----------------------------
(***************************************************************************)
(* The archiver, for any tree, any lengths of its files and of the buffer, *)
(* any older archive and target, and any bounds on what goes wrong.        *)
(***************************************************************************)
EXTENDS Pack, SequenceTheorems, WellFoundedInduction, TLAPS

\* Where the records of an archive begin, and those of them that are a path's.
Records(q) == {i \in 1..Len(q) : /\ i + 2 <= Len(q) /\ q[i].unit = "num"
                                 /\ q[i + 1].unit = "path" /\ q[i + 2].unit = "flag"}
Live(q)    == {i \in Records(q) : q[i + 2].value # 1}
Written(q) == {q[i + 1].path : i \in Live(q)}

\* The end of the data a record announces.
DataEnd(q, i) == i + 2 + q[i].size

\* What costs the archive its framing.
Bad == {"record", "pack", "killed", "tree"}

\* The bytes of cur that are still to be written.
Pending == CASE ppc = "read"  -> len[cur] - woff
             [] ppc = "write" -> len[cur] - woff + wleft
             [] OTHER         -> 0

(***************************************************************************)
(* The two programs                                                        *)
(***************************************************************************)
History ==
    /\ "tree" \notin log => len = FileLen /\ gone = {}
    /\ interrupted => log \cap {"pack", "record", "readdir"} # {}
    /\ ppc = "killed" => "killed" \in log
    /\ rpc # "idle" => ppc \in {"done", "killed"}
    /\ rpc = "idle" => pos = 0 /\ made = {} /\ ~used /\ \A p \in Files : out[p] = <<>>

\* The walk: what is on the stack, and whose turn it is.
Walk ==
    /\ \A k \in 1..Len(stack) : stack[k].todo \subseteq Entries(stack[k].dir)
    /\ ppc = "readdir" => stack # <<>>
    /\ ppc = "opendir" => cur \in Dirs
    /\ ppc \in {"stat", "read", "write"} => cur \in Files /\ stack # <<>>
    /\ ppc = "write" => wleft >= 1

(***************************************************************************)
(* The archive                                                             *)
(***************************************************************************)
Names(type, p) == p \in Paths /\ type \in {"dir", "file"}

\* Records of paths name paths; the finish record is pack's last.
Known ==
    /\ \A i \in Live(pkg) : Names(pkg[i].type, pkg[i + 1].path)
    /\ \A i \in Records(pkg) \ Live(pkg) : ppc = "done" /\ \A j \in Records(pkg) : j <= i

\* A directory's record comes before those of its entries.
ParentsFirst ==
    "record" \notin log => \A i \in Live(pkg) :
        \/ pkg[i + 1].path = Root
        \/ \E j \in Live(pkg) : j < i /\ pkg[j + 1].path = Parent[pkg[i + 1].path]

\* Whoever is on the stack has been written.
OnStack ==
    "record" \notin log =>
        /\ \A k \in 1..Len(stack) : stack[k].dir \in Written(pkg)
        /\ ppc \in {"opendir", "stat"} => cur = Root \/ Parent[cur] \in Written(pkg)

\* What has not been written yet is pending, or below something pending.
Complete ==
    log \cap {"record", "pack", "readdir", "tree"} = {} /\ ppc # "killed" =>
        /\ Root \in Written(pkg) \/ (ppc = "opendir" /\ cur = Root)
        /\ \A p \in Paths \ {Root} : Parent[p] \in Written(pkg) =>
              \/ p \in Written(pkg)
              \/ ppc \in {"opendir", "stat"} /\ p = cur
              \/ \E k \in 1..Len(stack) : p \in stack[k].todo
        /\ ppc \in {"finish", "done"} => stack = <<>>

\* A number stands at the beginning of a whole record.
NumbersBegin ==
    log \cap {"record", "killed"} = {} =>
        \A i \in 1..Len(pkg) : pkg[i].unit = "num" => i \in Records(pkg)

\* What a record says of its path.
Fits(type, size, p) ==
    /\ type = "dir" => size = 0 /\ p \in Dirs
    /\ type = "file" => size = len[p] /\ p \in Files

\* Behind the data of a record comes the next one, or more data.
Closed(i) == DataEnd(pkg, i) < Len(pkg) /\ pkg[DataEnd(pkg, i) + 1].unit = "num"
Open(i)   == /\ ppc # "done" /\ DataEnd(pkg, i) = Len(pkg) + Pending
             /\ ppc \in {"read", "write"} => pkg[i + 1].path = cur

\* Behind a record are as many bytes as it announces.
Framed ==
    log \cap Bad = {} =>
        /\ Len(pkg) > 0 => pkg[1].unit = "num"
        /\ ppc = "done" => Len(pkg) > 0
        /\ ppc \in {"read", "write"} => woff <= len[cur]
        /\ \A i \in Live(pkg) :
              /\ Fits(pkg[i].type, pkg[i].size, pkg[i + 1].path)
              /\ \A k \in i + 3..DataEnd(pkg, i) : k <= Len(pkg) => pkg[k].unit = "byte"
              /\ Closed(i) \/ Open(i)

\* The buffer holds what copy_file has read last, the archive what it has written.
Buffered ==
    log \subseteq {"unpack"} /\ ppc = "write" =>
        /\ wleft = Len(wbuf) /\ wleft <= woff
        /\ \A k \in 1..Len(wbuf) : wbuf[k] = Byte(cur, woff - wleft + k)
Contents ==
    log \subseteq {"unpack"} =>
        \A i \in Live(pkg) : \A k \in 1..pkg[i].size :
            i + 2 + k <= Len(pkg) => pkg[i + 2 + k] = Byte(pkg[i + 1].path, k)

(***************************************************************************)
(* unpack                                                                  *)
(***************************************************************************)
\* unpack has made what it has read, and is done at the finish record.
Read ==
    /\ rpc # "orphan" => \A i \in Live(pkg) : i + 2 <= pos => pkg[i + 1].path \in made
    /\ rpc = "ok" => \E i \in Records(pkg) \ Live(pkg) : i < pos
    /\ rpc = "data" => rcur \in Files /\ roff <= Len(out[rcur])

\* unpack is at a record, or in data it knows the end of.
AtRecord ==
    log \cap Bad = {} =>
        /\ rpc = "record" => pos < Len(pkg) /\ pkg[pos + 1].unit = "num"
        /\ rpc = "data" =>
              /\ pos + rleft < Len(pkg) /\ pkg[pos + rleft + 1].unit = "num"
              /\ \A k \in 1..rleft : pkg[pos + k].unit = "byte"
              /\ log \subseteq {"unpack"} =>
                    \A k \in 1..rleft : pkg[pos + k] = Byte(rcur, roff + k)

\* What went wrong shows in how unpack ends.
Blamed ==
    /\ rpc = "misread" => log \cap Bad # {}
    /\ rpc = "spin" => log \cap {"record", "killed"} # {}
    /\ rpc = "orphan" => "record" \in log
    /\ rpc = "fail" => "unpack" \in log \/ log \cap Bad # {}

\* What has been written of a file, up to n.
Restored(p, n) ==
    /\ n <= Len(out[p])
    /\ log \subseteq {"unpack"} => \A i \in 1..n : out[p][i] = Byte(p, i)

\* A file is what was packed, then what the target had behind it.
Target ==
    log \cap Bad = {} =>
        /\ \A p \in Files :
              /\ Len(Older(p)) <= Len(out[p])
              /\ Len(out[p]) <= len[p] \/ Len(out[p]) = Len(Older(p))
              /\ \A i \in len[p] + 1..Len(out[p]) : out[p][i] = Byte("older", i)
              /\ rpc \in {"record", "ok"} \/ (rpc = "data" /\ rcur # p) =>
                    (p \in made => Restored(p, len[p]))
        /\ rpc = "data" => roff + rleft = len[rcur] /\ Restored(rcur, roff)

PackInv   == /\ Known /\ ParentsFirst /\ OnStack /\ Complete
             /\ NumbersBegin /\ Framed /\ Buffered /\ Contents
UnpackInv == Read /\ AtRecord /\ Blamed /\ Target
IInv == TypeOK /\ History /\ Walk /\ PackInv /\ UnpackInv

\* A piece of a record, or none: it holds no record and completes none.
Broken(e) ==
    /\ e \in Seq(AnyUnit) /\ Len(e) <= 3
    /\ Len(e) > 0 => e[1].unit \in {"num", "torn"}
    /\ Len(e) > 2 => e[1].unit = "torn" \/ e[3].unit = "torn"

\* A run of data.
IsData(e) == e \in Seq(DataBytes)

-----------------------------------------------------------------------------
(***************************************************************************)
(* Units and archives                                                      *)
(***************************************************************************)
LEMMA ByteIsUnit ==
    ASSUME NEW b \in DataBytes PROVE b \in AnyUnit /\ b.unit = "byte"
BY DEF DataBytes, AnyUnit

\* The kinds of units do not mix.
LEMMA UnitKinds ==
    ASSUME NEW u \in AnyUnit
    PROVE  (u.unit = "num" => u.size \in Nat) /\ (u.unit = "byte" => u \in DataBytes)
<1>1. CASE u \in [unit : {"num"}, type : {"dir", "file", "none"}, size : Nat]
  BY <1>1
<1>2. CASE u \in [unit : {"path"}, path : Paths \cup {""}]
  BY <1>2
<1>3. CASE u \in [unit : {"flag"}, value : {0, 1}]
  BY <1>3
<1>4. CASE u \in DataBytes
  BY <1>4 DEF DataBytes
<1>5. CASE u = Torn
  BY <1>5 DEF Torn
<1> QED BY <1>1, <1>2, <1>3, <1>4, <1>5 DEF AnyUnit

\* Data is made of units.
LEMMA DataIsUnits ==
    ASSUME NEW e, IsData(e)
    PROVE  e \in Seq(AnyUnit) /\ \A i \in 1..Len(e) : e[i].unit = "byte"
<1>1. DataBytes \subseteq AnyUnit
  BY ByteIsUnit
<1>2. e \in Seq(AnyUnit)
  BY <1>1 DEF IsData
<1>3. ASSUME NEW i \in 1..Len(e) PROVE e[i].unit = "byte"
  <2>1. e[i] \in DataBytes
    BY <1>3 DEF IsData
  <2> QED BY <2>1, ByteIsUnit
<1> QED BY <1>2, <1>3

\* A whole record, that of the path p, and the finish record.
Framing(r)  == /\ r \in Seq(AnyUnit) /\ Len(r) <= 3 /\ 3 <= Len(r)
               /\ r[1].unit = "num" /\ r[2].unit = "path" /\ r[3].unit = "flag"
Whole(r, p) == Framing(r) /\ r[2].path = p /\ r[3].value = 0
Last(r)     == Framing(r) /\ r[3].value = 1

\* What write_file_info writes is made of units.
LEMMA UnitTypes ==
    ASSUME NEW t \in {"dir", "file", "none"}, NEW s \in Nat, NEW p \in Paths \cup {""},
           NEW v \in {0, 1}
    PROVE  Num(t, s) \in AnyUnit /\ PathUnit(p) \in AnyUnit /\ Flag(v) \in AnyUnit
BY DEF AnyUnit, Num, PathUnit, Flag

\* A record has its numbers, path and flag where they belong.
LEMMA RecordFrames ==
    ASSUME NEW t, NEW s, NEW p, NEW v, NEW r, r = Record(t, s, p, v),
           Num(t, s) \in AnyUnit, PathUnit(p) \in AnyUnit, Flag(v) \in AnyUnit
    PROVE  Framing(r) /\ r[1].type = t /\ r[1].size = s /\ r[2].path = p /\ r[3].value = v
<1>1. r = <<Num(t, s), PathUnit(p), Flag(v)>>
  BY DEF Record
<1>2. r \in Seq(AnyUnit) /\ Len(r) <= 3 /\ 3 <= Len(r)
  BY <1>1
<1>3. r[1] = Num(t, s) /\ r[2] = PathUnit(p) /\ r[3] = Flag(v)
  BY <1>1
<1> QED BY <1>2, <1>3 DEF Framing, Num, PathUnit, Flag

\* The record of a path.
LEMMA RecordIsWhole ==
    ASSUME NEW t \in {"dir", "file"}, NEW s \in Nat, NEW p \in Paths, NEW r, r = Record(t, s, p, 0)
    PROVE  Whole(r, p) /\ r[1].type = t /\ r[1].size = s
<1>1. Num(t, s) \in AnyUnit /\ PathUnit(p) \in AnyUnit /\ Flag(0) \in AnyUnit
  BY UnitTypes
<1> QED BY <1>1, RecordFrames DEF Whole

\* The finish record has its flag set.
LEMMA FinishIsLast == Last(Finish)
<1>1. Num("none", 0) \in AnyUnit /\ PathUnit("") \in AnyUnit /\ Flag(1) \in AnyUnit
  BY UnitTypes
<1>2. PICK t, s, p, v : t = "none" /\ s = 0 /\ p = "" /\ v = 1
  OBVIOUS
<1>3. Num(t, s) \in AnyUnit /\ PathUnit(p) \in AnyUnit /\ Flag(v) \in AnyUnit
  BY <1>1, <1>2
<1>4. Finish = Record(t, s, p, v)
  BY <1>2 DEF Finish
<1>5. Framing(Finish) /\ Finish[3].value = v
  BY <1>3, <1>4, RecordFrames
<1> QED BY <1>2, <1>5 DEF Last

\* A part of a unit is a unit of its own kind.
LEMMA TornUnit == Torn \in AnyUnit /\ Torn.unit = "torn" /\ <<Torn>> \in Seq(AnyUnit)
<1>1. Torn \in AnyUnit /\ Torn.unit = "torn"
  BY DEF Torn, AnyUnit
<1> QED BY <1>1

\* What is left of a record when one of write_file_info's writes fails.
LEMMA BrokenPieces ==
    ASSUME NEW r, Framing(r)
    PROVE  /\ Broken(SubSeq(r, 1, 2))
           /\ \A k \in 0..2 : Broken(SubSeq(r, 1, k) \o <<>>) /\ Broken(SubSeq(r, 1, k) \o <<Torn>>)
           /\ Broken(<<Torn>> \o SubSeq(r, 2, 2)) /\ Broken(<<Torn>> \o SubSeq(r, 2, 3))
<1>1. r \in Seq(AnyUnit) /\ Len(r) <= 3 /\ 3 <= Len(r) /\ r[1].unit = "num"
  BY DEF Framing
<1>2. ASSUME NEW k \in 0..2
      PROVE  /\ SubSeq(r, 1, k) \in Seq(AnyUnit) /\ Len(SubSeq(r, 1, k)) = k
             /\ k > 0 => SubSeq(r, 1, k)[1] = r[1]
  BY <1>1
<1>3. ASSUME NEW k \in 0..2 PROVE Broken(SubSeq(r, 1, k))
  BY <1>1, <1>2 DEF Broken
<1>4. ASSUME NEW k \in 0..2 PROVE Broken(SubSeq(r, 1, k) \o <<>>)
  <2>1. SubSeq(r, 1, k) \o <<>> = SubSeq(r, 1, k)
    BY <1>2
  <2> QED BY <1>3, <2>1
<1>5. ASSUME NEW k \in 0..2 PROVE Broken(SubSeq(r, 1, k) \o <<Torn>>)
  <2> DEFINE e == SubSeq(r, 1, k) \o <<Torn>>
  <2>1. e \in Seq(AnyUnit) /\ Len(e) = k + 1
    BY <1>2, TornUnit
  <2>2. e[k + 1] = Torn /\ (k > 0 => e[1] = r[1])
    BY <1>2, TornUnit
  <2> QED BY <1>1, <2>1, <2>2, TornUnit DEF Broken
<1>6. ASSUME NEW k \in 2..3 PROVE Broken(<<Torn>> \o SubSeq(r, 2, k))
  <2> DEFINE e == <<Torn>> \o SubSeq(r, 2, k)
  <2>1. SubSeq(r, 2, k) \in Seq(AnyUnit) /\ Len(SubSeq(r, 2, k)) = k - 1
    BY <1>1
  <2>2. e \in Seq(AnyUnit) /\ Len(e) = k
    BY <2>1, TornUnit
  <2>3. e[1] = Torn
    BY <2>1, TornUnit
  <2> QED BY <2>2, <2>3, TornUnit DEF Broken
<1> QED BY <1>3, <1>4, <1>5, <1>6

\* So is what an older archive leaves.
LEMMA BrokenTails == \A tail \in Tails : Broken(tail)
<1>1. Broken(<<>>)
  BY DEF Broken
<1>2. Broken(<<Torn>>)
  BY TornUnit DEF Broken
<1> QED BY <1>1, <1>2 DEF Tails

\* c is the archive q with the units e behind it.
Joined(c, q, e) == q \in Seq(AnyUnit) /\ e \in Seq(AnyUnit) /\ c = q \o e

\* The length of an archive that has grown, ...
LEMMA JoinedLength ==
    ASSUME NEW c, NEW q, NEW e, Joined(c, q, e)
    PROVE  /\ c \in Seq(AnyUnit) /\ Len(c) = Len(q) + Len(e)
           /\ Len(q) \in Nat /\ Len(e) \in Nat /\ Len(c) \in Nat
BY DEF Joined

\* ... its units from before, ...
LEMMA JoinedLeft ==
    ASSUME NEW c, NEW q, NEW e, Joined(c, q, e), NEW i \in Int, 1 <= i, i <= Len(q)
    PROVE  c[i] = q[i]
BY DEF Joined

\* ... and the new ones.
LEMMA JoinedRight ==
    ASSUME NEW c, NEW q, NEW e, Joined(c, q, e), NEW i \in Int, Len(q) < i, i <= Len(q) + Len(e)
    PROVE  c[i] = e[i - Len(q)]
BY DEF Joined

\* A record lies in its archive.
LEMMA RecordBounds ==
    ASSUME NEW q, q \in Seq(AnyUnit), NEW i \in Records(q)
    PROVE  i \in Nat /\ 1 <= i /\ i + 2 <= Len(q) /\ Len(q) \in Nat
BY DEF Records

\* Live records are records.
LEMMA LiveRecords == \A q : Live(q) \subseteq Records(q)
BY DEF Live

\* What stands at a record, before and after.
LEMMA AtRecords ==
    ASSUME NEW c, NEW q, NEW e, Joined(c, q, e)
    PROVE  /\ Records(q) \subseteq Records(c)
           /\ \A i \in Records(q) :
                 /\ i \in Nat /\ 1 <= i /\ i + 2 <= Len(q)
                 /\ c[i] = q[i] /\ c[i + 1] = q[i + 1] /\ c[i + 2] = q[i + 2]
<1>1. Len(c) = Len(q) + Len(e) /\ Len(q) \in Nat /\ Len(e) \in Nat
  BY JoinedLength
<1>2. ASSUME NEW i \in Records(q)
      PROVE  /\ i \in Records(c) /\ i \in Nat /\ 1 <= i /\ i + 2 <= Len(q)
             /\ c[i] = q[i] /\ c[i + 1] = q[i + 1] /\ c[i + 2] = q[i + 2]
  <2>1. i \in Nat /\ 1 <= i /\ i + 2 <= Len(q)
    BY <1>1, <1>2 DEF Records
  <2>2. c[i] = q[i] /\ c[i + 1] = q[i + 1] /\ c[i + 2] = q[i + 2]
    BY <1>1, <2>1, JoinedLeft
  <2> QED BY <1>1, <1>2, <2>1, <2>2 DEF Records
<1> QED BY <1>2

\* A broken piece or data: the records stay what they are.
LEMMA RecordsKept ==
    ASSUME NEW c, NEW q, NEW e, Joined(c, q, e), Broken(e) \/ IsData(e)
    PROVE  Records(c) = Records(q) /\ Live(c) = Live(q) /\ Written(c) = Written(q)
<1>1. Len(c) = Len(q) + Len(e) /\ Len(q) \in Nat /\ Len(e) \in Nat
  BY JoinedLength
<1>2. \A i \in Records(q) :
         i \in Records(c) /\ c[i + 1] = q[i + 1] /\ c[i + 2] = q[i + 2]
  BY AtRecords
<1>3. ASSUME NEW i \in Records(c) PROVE i \in Records(q)
  <2>1. i \in Nat /\ 1 <= i /\ i + 2 <= Len(c)
    BY <1>1, <1>3 DEF Records
  <2>2. c[i].unit = "num" /\ c[i + 1].unit = "path" /\ c[i + 2].unit = "flag"
    BY <1>3 DEF Records
  <2>3. CASE i + 2 <= Len(q)
    <3>1. c[i] = q[i] /\ c[i + 1] = q[i + 1] /\ c[i + 2] = q[i + 2]
      BY <1>1, <2>1, <2>3, JoinedLeft
    <3> QED BY <1>1, <2>1, <2>2, <2>3, <3>1 DEF Records
  <2>4. CASE i + 2 > Len(q)
    <3>1. CASE Broken(e)
      <4>1. Len(e) <= 3 /\ (Len(e) > 0 => e[1].unit \in {"num", "torn"})
            /\ (Len(e) > 2 => e[1].unit = "torn" \/ e[3].unit = "torn")
        BY <3>1 DEF Broken
      <4>2. CASE i = Len(q) + 1
        <5>1. Len(e) > 2
          BY <1>1, <2>1, <4>2
        <5>2. c[i] = e[1]
          <6>1. c[i] = e[i - Len(q)]
            BY <1>1, <2>1, <4>2, <5>1, JoinedRight
          <6> QED BY <1>1, <4>2, <6>1
        <5>3. c[i + 2] = e[3]
          <6>1. c[i + 2] = e[i + 2 - Len(q)]
            BY <1>1, <2>1, <4>2, <5>1, JoinedRight
          <6> QED BY <1>1, <4>2, <6>1
        <5> QED BY <2>2, <4>1, <5>1, <5>2, <5>3
      <4>3. CASE i = Len(q)
        <5>1. c[i + 1] = e[i + 1 - Len(q)] /\ i + 1 - Len(q) = 1 /\ Len(e) > 0
          BY <1>1, <2>1, <4>3, JoinedRight
        <5> QED BY <2>2, <4>1, <5>1
      <4>4. CASE i = Len(q) - 1
        <5>1. c[i + 2] = e[i + 2 - Len(q)] /\ i + 2 - Len(q) = 1 /\ Len(e) > 0
          BY <1>1, <2>1, <4>4, JoinedRight
        <5> QED BY <2>2, <4>1, <5>1
      <4> QED BY <1>1, <2>1, <2>4, <4>1, <4>2, <4>3, <4>4
    <3>2. CASE IsData(e)
      <4>1. c[i + 2] = e[i + 2 - Len(q)] /\ i + 2 - Len(q) \in 1..Len(e)
        BY <1>1, <2>1, <2>4, JoinedRight
      <4> QED BY <2>2, <3>2, <4>1, DataIsUnits
    <3> QED BY <3>1, <3>2
  <2> QED BY <1>1, <2>1, <2>3, <2>4
<1>5. Records(c) = Records(q)
  BY <1>2, <1>3
<1>6. Live(c) = Live(q)
  BY <1>2, <1>5 DEF Live
<1>7. \A i \in Live(q) : c[i + 1] = q[i + 1]
  BY <1>2 DEF Live
<1> QED BY <1>5, <1>6, <1>7 DEF Written

\* One more record.
LEMMA NewUnits ==
    ASSUME NEW c, NEW q, NEW r, Joined(c, q, r), Framing(r)
    PROVE  /\ Len(q) \in Nat /\ Len(c) = Len(q) + 3
           /\ c[Len(q) + 1] = r[1] /\ c[Len(q) + 2] = r[2] /\ c[Len(q) + 3] = r[3]
           /\ c[Len(q) + 1 + 1] = r[2] /\ c[Len(q) + 1 + 2] = r[3]
<1>1. r \in Seq(AnyUnit) /\ Len(r) <= 3 /\ 3 <= Len(r)
  BY DEF Framing
<1>2. Len(c) = Len(q) + Len(r) /\ Len(q) \in Nat /\ Len(r) \in Nat
  BY JoinedLength
<1>3. Len(c) = Len(q) + 3
  BY <1>1, <1>2
<1>4. ASSUME NEW k \in 1..3 PROVE c[Len(q) + k] = r[k]
  <2>1. c[Len(q) + k] = r[Len(q) + k - Len(q)]
    BY <1>1, <1>2, <1>4, JoinedRight
  <2>2. Len(q) + k - Len(q) = k
    BY <1>2, <1>4
  <2> QED BY <2>1, <2>2
<1>5. Len(q) + 1 + 1 = Len(q) + 2 /\ Len(q) + 1 + 2 = Len(q) + 3
  BY <1>2
<1> QED BY <1>2, <1>3, <1>4, <1>5

\* A new record adds its place to the records, ...
LEMMA RecordAdded ==
    ASSUME NEW c, NEW q, NEW r, Joined(c, q, r), Framing(r)
    PROVE  Records(c) = Records(q) \cup {Len(q) + 1}
<1>1. r[1].unit = "num" /\ r[2].unit = "path" /\ r[3].unit = "flag"
  BY DEF Framing
<1>2. /\ Len(c) = Len(q) + 3 /\ Len(q) \in Nat
      /\ c[Len(q) + 1] = r[1] /\ c[Len(q) + 2] = r[2] /\ c[Len(q) + 3] = r[3]
      /\ c[Len(q) + 1 + 1] = r[2] /\ c[Len(q) + 1 + 2] = r[3]
  BY NewUnits
<1>3. Len(c) = Len(q) + Len(r)
  BY JoinedLength
<1>4. ASSUME NEW i \in Records(c) PROVE i \in Records(q) \cup {Len(q) + 1}
  <2>1. i \in Nat /\ 1 <= i /\ i + 2 <= Len(c)
    BY <1>2, <1>4 DEF Records
  <2>2. c[i].unit = "num" /\ c[i + 1].unit = "path" /\ c[i + 2].unit = "flag"
    BY <1>4 DEF Records
  <2>3. CASE i + 2 <= Len(q)
    <3>1. \A k \in i..i + 2 : c[k] = q[k]
      <4>1. ASSUME NEW k \in i..i + 2 PROVE c[k] = q[k]
        <5>1. k \in Int /\ 1 <= k /\ k <= Len(q)
          BY <1>2, <2>1, <2>3, <4>1
        <5> QED BY <5>1, JoinedLeft
      <4> QED BY <4>1
    <3>2. i \in i..i + 2 /\ i + 1 \in i..i + 2 /\ i + 2 \in i..i + 2
      BY <2>1
    <3>3. c[i] = q[i] /\ c[i + 1] = q[i + 1] /\ c[i + 2] = q[i + 2]
      BY <3>1, <3>2
    <3> QED BY <1>2, <2>1, <2>2, <2>3, <3>3 DEF Records
  <2>4. CASE i = Len(q)
    BY <1>1, <1>2, <2>2, <2>4
  <2>5. CASE i = Len(q) - 1
    <3>1. i + 2 = Len(q) + 1
      BY <1>2, <2>5
    <3> QED BY <1>1, <1>2, <2>2, <3>1
  <2> QED BY <1>2, <2>1, <2>3, <2>4, <2>5
<1>5. Records(q) \subseteq Records(c)
  BY AtRecords
<1>6. Len(q) + 1 \in Records(c)
  BY <1>1, <1>2 DEF Records
<1> QED BY <1>4, <1>5, <1>6

\* ... that of a path also to the live ones, ...
LEMMA PathAdded ==
    ASSUME NEW c, NEW q, NEW r, NEW p, Joined(c, q, r), Whole(r, p)
    PROVE  Live(c) = Live(q) \cup {Len(q) + 1} /\ Written(c) = Written(q) \cup {p}
<1> DEFINE n == Len(q) + 1
<1>1. r[2].path = p /\ r[3].value # 1 /\ Framing(r)
  BY DEF Whole
<1>2. c[n + 1] = r[2] /\ c[n + 2] = r[3]
  BY <1>1, NewUnits
<1>3. Records(c) = Records(q) \cup {n}
  BY <1>1, RecordAdded
<1>4. \A i \in Records(q) : c[i + 1] = q[i + 1] /\ c[i + 2] = q[i + 2]
  BY AtRecords
<1> HIDE DEF n
<1>5. Live(c) = Live(q) \cup {n}
  <2>1. ASSUME NEW i \in Live(c) PROVE i \in Live(q) \cup {n}
    <3>1. i \in Records(c) /\ c[i + 2].value # 1
      BY <2>1 DEF Live
    <3> QED BY <1>3, <1>4, <3>1 DEF Live
  <2>2. ASSUME NEW i \in Live(q) PROVE i \in Live(c)
    BY <1>3, <1>4, <2>2 DEF Live
  <2>3. n \in Live(c)
    BY <1>1, <1>2, <1>3 DEF Live
  <2> QED BY <2>1, <2>2, <2>3
<1>6. Written(c) = Written(q) \cup {p}
  <2>1. \A i \in Live(q) : c[i + 1] = q[i + 1]
    BY <1>4 DEF Live
  <2>2. c[n + 1].path = p
    BY <1>1, <1>2
  <2> QED BY <1>5, <2>1, <2>2 DEF Written
<1> QED BY <1>5, <1>6 DEF n

\* ... the finish record does not.
LEMMA LastAdded ==
    ASSUME NEW c, NEW q, NEW r, Joined(c, q, r), Last(r)
    PROVE  Live(c) = Live(q) /\ Written(c) = Written(q) /\ Len(q) + 1 \notin Live(q)
<1> DEFINE n == Len(q) + 1
<1>1. r[3].value = 1 /\ Framing(r)
  BY DEF Last
<1>2. c[n + 2] = r[3]
  BY <1>1, NewUnits
<1>3. Records(c) = Records(q) \cup {n}
  BY <1>1, RecordAdded
<1>4. \A i \in Records(q) : c[i + 1] = q[i + 1] /\ c[i + 2] = q[i + 2]
  BY AtRecords
<1> HIDE DEF n
<1>5. Live(c) = Live(q) /\ n \notin Live(q)
  <2>1. ASSUME NEW i \in Live(c) PROVE i \in Live(q)
    <3>1. i \in Records(c) /\ c[i + 2].value # 1
      BY <2>1 DEF Live
    <3> QED BY <1>1, <1>2, <1>3, <1>4, <3>1 DEF Live
  <2>2. ASSUME NEW i \in Live(q) PROVE i \in Live(c) /\ i # n
    BY <1>1, <1>2, <1>3, <1>4, <2>2 DEF Live
  <2> QED BY <2>1, <2>2
<1>6. \A i \in Live(q) : c[i + 1] = q[i + 1]
  BY <1>4 DEF Live
<1> QED BY <1>5, <1>6 DEF Written, n

-----------------------------------------------------------------------------
(***************************************************************************)
(* What a longer archive keeps                                             *)
(***************************************************************************)
LEMMA Unchanged ==
    ASSUME TypeOK, UNCHANGED pkg PROVE Joined(pkg', pkg, <<>>) /\ Broken(<<>>) /\ IsData(<<>>)
BY BrokenTails DEF Tails, IsData, Joined, TypeOK

\* The size in a record is a number.
LEMMA RecordSize ==
    ASSUME NEW q, q \in Seq(AnyUnit), NEW i \in Records(q)
    PROVE  q[i].size \in Nat /\ DataEnd(q, i) = i + 2 + q[i].size /\ DataEnd(q, i) \in Nat
<1>1. i \in Nat /\ 1 <= i /\ i + 2 <= Len(q) /\ Len(q) \in Nat
  BY RecordBounds
<1>2. q[i] \in AnyUnit /\ q[i].unit = "num"
  BY <1>1 DEF Records
<1>3. q[i].size \in Nat
  BY <1>2, UnitKinds
<1> QED BY <1>1, <1>3 DEF DataEnd

\* Known: no new record, ...
LEMMA KnownKept ==
    ASSUME Known, NEW e, Joined(pkg', pkg, e), Broken(e) \/ IsData(e), ppc = "done" => ppc' = "done"
    PROVE  Known'
<1>1. Records(pkg') = Records(pkg) /\ Live(pkg') = Live(pkg)
  BY RecordsKept
<1>2. \A i \in Records(pkg) : pkg'[i] = pkg[i] /\ pkg'[i + 1] = pkg[i + 1]
  BY AtRecords
<1>3. \A i \in Live(pkg) : pkg'[i] = pkg[i] /\ pkg'[i + 1] = pkg[i + 1]
  BY <1>2 DEF Live
<1> QED BY <1>1, <1>3 DEF Known

\* ... the record of a path, ...
LEMMA KnownAdded ==
    ASSUME Known, ppc # "done", NEW r, NEW p, Joined(pkg', pkg, r), Whole(r, p), Names(r[1].type, p)
    PROVE  Known'
<1>1. Framing(r) /\ r[2].path = p
  BY DEF Whole
<1>2. Records(pkg') = Records(pkg) \cup {Len(pkg) + 1} /\ Live(pkg') = Live(pkg) \cup {Len(pkg) + 1}
  BY <1>1, RecordAdded, PathAdded
<1>3. \A i \in Live(pkg) : pkg'[i] = pkg[i] /\ pkg'[i + 1] = pkg[i + 1]
  BY AtRecords, LiveRecords
<1>4. pkg'[Len(pkg) + 1] = r[1] /\ pkg'[Len(pkg) + 1 + 1] = r[2]
  BY <1>1, NewUnits
<1>5. Records(pkg) \ Live(pkg) = {}
  BY DEF Known
<1>6. Records(pkg') \ Live(pkg') = {}
  BY <1>2, <1>5
<1>7. \A i \in Live(pkg') : Names(pkg'[i].type, pkg'[i + 1].path)
  BY <1>1, <1>2, <1>3, <1>4 DEF Known
<1> QED BY <1>6, <1>7 DEF Known

\* ... and the finish record.
LEMMA KnownFinished ==
    ASSUME Known, ppc # "done", ppc' = "done", NEW r, Joined(pkg', pkg, r), Last(r)
    PROVE  Known'
<1>1. Framing(r)
  BY DEF Last
<1>2. Records(pkg') = Records(pkg) \cup {Len(pkg) + 1} /\ Live(pkg') = Live(pkg)
  BY <1>1, RecordAdded, LastAdded
<1>3. \A i \in Live(pkg) : pkg'[i] = pkg[i] /\ pkg'[i + 1] = pkg[i + 1]
  BY AtRecords, LiveRecords
<1>4. Records(pkg) = Live(pkg)
  BY LiveRecords DEF Known
<1>5. Len(pkg) \in Nat
  BY JoinedLength
<1>6. \A j \in Records(pkg) : j \in Nat /\ j + 2 <= Len(pkg)
  BY AtRecords
<1>7. \A j \in Records(pkg') : j <= Len(pkg) + 1
  BY <1>2, <1>5, <1>6
<1>8. \A i \in Records(pkg') \ Live(pkg') : i = Len(pkg) + 1
  BY <1>2, <1>4
<1>9. \A i \in Live(pkg') : Names(pkg'[i].type, pkg'[i + 1].path)
  BY <1>2, <1>3 DEF Known
<1> QED BY <1>7, <1>8, <1>9 DEF Known

\* ParentsFirst: no new record, ...
LEMMA ParentsKept ==
    ASSUME ParentsFirst, log \subseteq log', NEW e, Joined(pkg', pkg, e), Live(pkg') = Live(pkg)
    PROVE  ParentsFirst'
<1>1. \A i \in Live(pkg) : pkg'[i + 1] = pkg[i + 1]
  BY AtRecords, LiveRecords
<1> QED BY <1>1 DEF ParentsFirst

\* ... and one of a path whose directory has been written.
LEMMA ParentsAdded ==
    ASSUME ParentsFirst, log \subseteq log', NEW r, NEW p, Joined(pkg', pkg, r), Whole(r, p),
           "record" \notin log => p = Root \/ Parent[p] \in Written(pkg)
    PROVE  ParentsFirst'
<1> SUFFICES ASSUME "record" \notin log', NEW i \in Live(pkg')
             PROVE  \/ pkg'[i + 1].path = Root
                    \/ \E j \in Live(pkg') : j < i /\ pkg'[j + 1].path = Parent[pkg'[i + 1].path]
  BY DEF ParentsFirst
<1>1. Framing(r) /\ r[2].path = p
  BY DEF Whole
<1>2. Live(pkg') = Live(pkg) \cup {Len(pkg) + 1}
  BY PathAdded
<1>3. \A j \in Live(pkg) : j \in Nat /\ j + 2 <= Len(pkg) /\ pkg'[j + 1] = pkg[j + 1]
  BY AtRecords, LiveRecords
<1>4. pkg'[Len(pkg) + 1 + 1].path = p
  BY <1>1, NewUnits
<1>5. Len(pkg) \in Nat
  BY JoinedLength
<1>6. CASE i \in Live(pkg)
  BY <1>2, <1>3, <1>6 DEF ParentsFirst
<1>7. CASE i = Len(pkg) + 1 /\ p # Root
  <2>1. PICK j \in Live(pkg) : pkg[j + 1].path = Parent[p]
    BY <1>7 DEF Written
  <2>2. j < i /\ pkg'[j + 1].path = Parent[p]
    BY <1>3, <1>5, <1>7, <2>1
  <2> QED BY <1>2, <1>4, <1>7, <2>1, <2>2
<1>8. CASE i = Len(pkg) + 1 /\ p = Root
  BY <1>4, <1>8
<1> QED BY <1>2, <1>6, <1>7, <1>8

\* NumbersBegin: units without numbers, ...
LEMMA NumbersKept ==
    ASSUME NumbersBegin, log \subseteq log', NEW e, Joined(pkg', pkg, e), Broken(e) \/ IsData(e),
           \A k \in 1..Len(e) : e[k].unit # "num"
    PROVE  NumbersBegin'
<1> SUFFICES ASSUME log' \cap {"record", "killed"} = {},
                    NEW i \in 1..Len(pkg'), pkg'[i].unit = "num"
             PROVE  i \in Records(pkg')
  BY DEF NumbersBegin
<1>1. Len(pkg') = Len(pkg) + Len(e) /\ Len(pkg) \in Nat /\ Len(e) \in Nat
  BY JoinedLength
<1>2. CASE i <= Len(pkg)
  <2>1. pkg'[i] = pkg[i]
    BY <1>1, <1>2, JoinedLeft
  <2> QED BY <1>1, <1>2, <2>1, RecordsKept DEF NumbersBegin
<1>3. CASE i > Len(pkg)
  <2>1. pkg'[i] = e[i - Len(pkg)] /\ i - Len(pkg) \in 1..Len(e)
    BY <1>1, <1>3, JoinedRight
  <2> QED BY <2>1
<1> QED BY <1>1, <1>2, <1>3

\* ... and a whole record.
LEMMA NumbersAdded ==
    ASSUME NumbersBegin, log \subseteq log', NEW r, Joined(pkg', pkg, r), Framing(r)
    PROVE  NumbersBegin'
<1> SUFFICES ASSUME log' \cap {"record", "killed"} = {},
                    NEW i \in 1..Len(pkg'), pkg'[i].unit = "num"
             PROVE  i \in Records(pkg')
  BY DEF NumbersBegin
<1>1. Len(pkg') = Len(pkg) + 3 /\ Len(pkg) \in Nat
  BY NewUnits
<1>2. Records(pkg') = Records(pkg) \cup {Len(pkg) + 1}
  BY RecordAdded
<1>3. CASE i <= Len(pkg)
  <2>1. pkg'[i] = pkg[i]
    BY <1>1, <1>3, JoinedLeft
  <2> QED BY <1>1, <1>2, <1>3, <2>1 DEF NumbersBegin
<1>4. pkg'[Len(pkg) + 2].unit # "num" /\ pkg'[Len(pkg) + 3].unit # "num"
  BY NewUnits DEF Framing
<1>5. i <= Len(pkg) \/ i = Len(pkg) + 1 \/ i = Len(pkg) + 2 \/ i = Len(pkg) + 3
  BY <1>1
<1> QED BY <1>2, <1>3, <1>4, <1>5

\* A step that writes data, or nothing.
LEMMA FramedData ==
    ASSUME Framed, log \subseteq log', UNCHANGED len, NEW e, Joined(pkg', pkg, e), IsData(e),
           ppc # "done", ppc' # "done", log \cap Bad = {} /\ Len(e) > 0 => Len(pkg) > 0,
           ppc' \in {"read", "write"} =>
              ppc \in {"read", "write"} /\ cur' = cur /\ (log \cap Bad = {} => woff' <= len[cur]),
           log' \cap Bad = {} => Pending' = Pending - Len(e) /\ Pending \in Int
    PROVE  Framed'
<1> SUFFICES ASSUME log' \cap Bad = {}
             PROVE  /\ Len(pkg') > 0 => pkg'[1].unit = "num"
                    /\ ppc' \in {"read", "write"} => woff' <= len'[cur']
                    /\ \A i \in Live(pkg') :
                          /\ Fits(pkg[i].type, pkg[i].size, pkg[i + 1].path)'
                          /\ \A k \in i + 3..DataEnd(pkg', i) : k <= Len(pkg') => pkg'[k].unit = "byte"
                          /\ Closed(i)' \/ Open(i)'
  BY DEF Framed
<1>1. Len(pkg') = Len(pkg) + Len(e) /\ Len(pkg) \in Nat /\ Len(e) \in Nat
  BY JoinedLength
<1>2. log \cap Bad = {}
  OBVIOUS
<1>3. Len(pkg') > 0 => pkg'[1].unit = "num"
  <2>1. ASSUME Len(pkg') > 0 PROVE Len(pkg) > 0 /\ pkg'[1] = pkg[1]
    <3>1. Len(pkg) > 0
      BY <1>1, <1>2, <2>1
    <3> QED BY <1>1, <3>1, JoinedLeft
  <2> QED BY <1>2, <2>1 DEF Framed
<1>4. ppc' \in {"read", "write"} => woff' <= len'[cur']
  BY <1>2
<1>5. ASSUME NEW i \in Live(pkg')
      PROVE  /\ Fits(pkg[i].type, pkg[i].size, pkg[i + 1].path)'
             /\ \A k \in i + 3..DataEnd(pkg', i) : k <= Len(pkg') => pkg'[k].unit = "byte"
             /\ Closed(i)' \/ Open(i)'
  <2>1. i \in Live(pkg)
    BY <1>5, RecordsKept
  <2>2. /\ i \in Nat /\ 1 <= i /\ i + 2 <= Len(pkg)
        /\ pkg'[i] = pkg[i] /\ pkg'[i + 1] = pkg[i + 1]
    BY <2>1, AtRecords, LiveRecords
  <2>3. DataEnd(pkg', i) = DataEnd(pkg, i) /\ DataEnd(pkg, i) \in Nat
    <3>1. pkg \in Seq(AnyUnit) /\ i \in Records(pkg)
      BY <2>1, LiveRecords DEF Joined
    <3> QED BY <2>2, <3>1, RecordSize DEF DataEnd
  <2>4. /\ Fits(pkg[i].type, pkg[i].size, pkg[i + 1].path)
        /\ \A k \in i + 3..DataEnd(pkg, i) : k <= Len(pkg) => pkg[k].unit = "byte"
        /\ Closed(i) \/ Open(i)
    BY <1>2, <2>1 DEF Framed
  <2>5. Fits(pkg[i].type, pkg[i].size, pkg[i + 1].path)'
    BY <2>2, <2>4 DEF Fits
  <2>6. ASSUME NEW k \in i + 3..DataEnd(pkg', i), k <= Len(pkg') PROVE pkg'[k].unit = "byte"
    <3>0. k \in Int /\ i + 3 <= k /\ k <= DataEnd(pkg, i) /\ k <= Len(pkg')
      BY <2>2, <2>3, <2>6
    <3>1. CASE k <= Len(pkg)
      <4>1. pkg'[k] = pkg[k]
        BY <1>1, <2>2, <3>0, <3>1, JoinedLeft
      <4> QED BY <2>2, <2>3, <2>4, <3>0, <3>1, <4>1
    <3>2. CASE k > Len(pkg)
      <4>1. pkg'[k] = e[k - Len(pkg)] /\ k - Len(pkg) \in 1..Len(e)
        BY <1>1, <3>0, <3>2, JoinedRight
      <4> QED BY <4>1, DataIsUnits
    <3> QED BY <1>1, <3>0, <3>1, <3>2
  <2>7. Closed(i)' \/ Open(i)'
    <3>1. CASE Closed(i)
      <4>1. DataEnd(pkg, i) < Len(pkg) /\ pkg[DataEnd(pkg, i) + 1].unit = "num"
        BY <3>1 DEF Closed
      <4>2. pkg'[DataEnd(pkg, i) + 1] = pkg[DataEnd(pkg, i) + 1]
        BY <1>1, <2>3, <4>1, JoinedLeft
      <4>3. DataEnd(pkg, i) < Len(pkg')
        BY <1>1, <2>3, <4>1
      <4> QED BY <2>3, <4>1, <4>2, <4>3 DEF Closed
    <3>2. CASE Open(i)
      <4>1. DataEnd(pkg, i) = Len(pkg) + Pending
        BY <3>2 DEF Open
      <4>2. DataEnd(pkg, i) = Len(pkg') + Pending'
        BY <1>1, <4>1
      <4>3. ppc' \in {"read", "write"} => pkg'[i + 1].path = cur'
        BY <2>2, <3>2 DEF Open
      <4> QED BY <2>3, <4>2, <4>3 DEF Open
    <3> QED BY <2>4, <3>1, <3>2
  <2> QED BY <2>5, <2>6, <2>7
<1> QED BY <1>3, <1>4, <1>5

\* All the data of what has been written is there.
LEMMA FramedOld ==
    ASSUME Framed, log \cap Bad = {}, UNCHANGED len, NEW e, Joined(pkg', pkg, e), NEW i \in Live(pkg),
           Closed(i) \/ (DataEnd(pkg, i) = Len(pkg) /\ Framing(e))
    PROVE  /\ Fits(pkg[i].type, pkg[i].size, pkg[i + 1].path)'
           /\ \A k \in i + 3..DataEnd(pkg', i) : k <= Len(pkg') => pkg'[k].unit = "byte"
           /\ Closed(i)'
<1>1. Len(pkg') = Len(pkg) + Len(e) /\ Len(pkg) \in Nat /\ Len(e) \in Nat
  BY JoinedLength
<1>2. /\ i \in Nat /\ 1 <= i /\ i + 2 <= Len(pkg)
      /\ pkg'[i] = pkg[i] /\ pkg'[i + 1] = pkg[i + 1]
  BY AtRecords, LiveRecords
<1>3. DataEnd(pkg', i) = DataEnd(pkg, i) /\ DataEnd(pkg, i) \in Nat
  <2>1. pkg \in Seq(AnyUnit) /\ i \in Records(pkg)
    BY LiveRecords DEF Joined
  <2> QED BY <1>2, <2>1, RecordSize DEF DataEnd
<1>4. /\ Fits(pkg[i].type, pkg[i].size, pkg[i + 1].path)
      /\ \A k \in i + 3..DataEnd(pkg, i) : k <= Len(pkg) => pkg[k].unit = "byte"
  BY DEF Framed
<1>5. DataEnd(pkg, i) <= Len(pkg)
  BY <1>1, <1>3 DEF Closed
<1>6. ASSUME NEW k \in i + 3..DataEnd(pkg', i) PROVE pkg'[k].unit = "byte"
  <2>1. k \in Int /\ i + 3 <= k /\ k <= DataEnd(pkg, i) /\ k <= Len(pkg)
    BY <1>1, <1>2, <1>3, <1>5, <1>6
  <2>2. pkg'[k] = pkg[k]
    BY <1>2, <2>1, JoinedLeft
  <2> QED BY <1>2, <1>3, <1>4, <2>1, <2>2
<1>7. Closed(i)'
  <2>1. CASE Closed(i)
    <3>1. DataEnd(pkg, i) < Len(pkg) /\ pkg[DataEnd(pkg, i) + 1].unit = "num"
      BY <2>1 DEF Closed
    <3>2. pkg'[DataEnd(pkg, i) + 1] = pkg[DataEnd(pkg, i) + 1] /\ DataEnd(pkg, i) < Len(pkg')
      BY <1>1, <1>3, <3>1, JoinedLeft
    <3> QED BY <1>3, <3>1, <3>2 DEF Closed
  <2>2. CASE DataEnd(pkg, i) = Len(pkg) /\ Framing(e)
    <3>1. Len(pkg') = Len(pkg) + 3 /\ pkg'[Len(pkg) + 1].unit = "num"
      BY <2>2, NewUnits DEF Framing
    <3> QED BY <1>1, <1>3, <2>2, <3>1 DEF Closed
  <2> QED BY <2>1, <2>2
<1> QED BY <1>2, <1>4, <1>6, <1>7 DEF Fits

\* The archive still begins with a number.
LEMMA BeginKept ==
    ASSUME Framed, log \cap Bad = {}, NEW e, Joined(pkg', pkg, e), Len(pkg) > 0 \/ Framing(e)
    PROVE  Len(pkg') > 0 /\ pkg'[1].unit = "num"
<1>1. Len(pkg') = Len(pkg) + Len(e) /\ Len(pkg) \in Nat /\ Len(e) \in Nat
  BY JoinedLength
<1>2. CASE Len(pkg) > 0
  <2>1. pkg'[1] = pkg[1]
    BY <1>1, <1>2, JoinedLeft
  <2> QED BY <1>1, <1>2, <2>1 DEF Framed
<1>3. CASE Framing(e) /\ ~(Len(pkg) > 0)
  <2>1. Len(pkg') = Len(pkg) + 3 /\ pkg'[Len(pkg) + 1].unit = "num"
    BY <1>3, NewUnits DEF Framing
  <2>2. Len(pkg) + 1 = 1
    BY <1>1, <1>3
  <2> QED BY <1>1, <2>1, <2>2
<1> QED BY <1>2, <1>3

\* Framed after a whole record of a path, ...
LEMMA FramedAdded ==
    ASSUME Framed, log \subseteq log', UNCHANGED len, NEW r, NEW p, Joined(pkg', pkg, r), Whole(r, p),
           ppc # "done", ppc' # "done", Pending = 0,
           log' \cap Bad = {} =>
              /\ Fits(r[1].type, r[1].size, p) /\ Pending' = r[1].size
              /\ ppc' \in {"read", "write"} => cur' = p /\ woff' <= len[p]
    PROVE  Framed'
<1> SUFFICES ASSUME log' \cap Bad = {}
             PROVE  /\ Len(pkg') > 0 => pkg'[1].unit = "num"
                    /\ ppc' \in {"read", "write"} => woff' <= len'[cur']
                    /\ \A i \in Live(pkg') :
                          /\ Fits(pkg[i].type, pkg[i].size, pkg[i + 1].path)'
                          /\ \A k \in i + 3..DataEnd(pkg', i) : k <= Len(pkg') => pkg'[k].unit = "byte"
                          /\ Closed(i)' \/ Open(i)'
  BY DEF Framed
<1>1. Framing(r) /\ log \cap Bad = {}
  BY DEF Whole
<1>2. Len(pkg') > 0 /\ pkg'[1].unit = "num"
  BY <1>1, BeginKept
<1>3. Live(pkg') = Live(pkg) \cup {Len(pkg) + 1}
  BY PathAdded
<1>4. ASSUME NEW i \in Live(pkg) PROVE Closed(i) \/ DataEnd(pkg, i) = Len(pkg)
  <2>1. Closed(i) \/ Open(i)
    BY <1>1, <1>4 DEF Framed
  <2>2. Len(pkg) \in Nat
    BY JoinedLength
  <2> QED BY <2>1, <2>2 DEF Open
<1>5. ASSUME NEW i \in Live(pkg)
      PROVE  /\ Fits(pkg[i].type, pkg[i].size, pkg[i + 1].path)'
             /\ \A k \in i + 3..DataEnd(pkg', i) : k <= Len(pkg') => pkg'[k].unit = "byte"
             /\ Closed(i)'
  BY <1>1, <1>4, <1>5, FramedOld
<1>6. Len(pkg') = Len(pkg) + 3 /\ Len(pkg) \in Nat
  BY <1>1, NewUnits
<1>7. PICK n \in Nat : n = Len(pkg) + 1
  BY <1>6
<1>8. /\ n \in Nat /\ Len(pkg') = n + 2
      /\ pkg'[n] = r[1] /\ pkg'[n + 1] = r[2] /\ r[2].path = p
  BY <1>1, <1>6, <1>7, NewUnits DEF Whole
<1>9. r[1].size \in Nat /\ DataEnd(pkg', n) = n + 2 + r[1].size
  <2>1. n \in Records(pkg') /\ pkg' \in Seq(AnyUnit)
    BY <1>3, <1>7, LiveRecords, JoinedLength
  <2> QED BY <1>8, <2>1, RecordSize
<1>10. Fits(pkg[n].type, pkg[n].size, pkg[n + 1].path)'
  BY <1>8 DEF Fits
<1>11. Open(n)'
  <2>1. DataEnd(pkg', n) = Len(pkg') + Pending'
    BY <1>8, <1>9
  <2>2. ppc' \in {"read", "write"} => pkg'[n + 1].path = cur'
    BY <1>8
  <2> QED BY <2>1, <2>2 DEF Open
<1>12. \A k \in n + 3..DataEnd(pkg', n) : ~(k <= Len(pkg'))
  BY <1>8, <1>9
<1>13. ppc' \in {"read", "write"} => woff' <= len'[cur']
  OBVIOUS
<1> QED BY <1>2, <1>3, <1>5, <1>7, <1>10, <1>11, <1>12, <1>13

\* ... after the finish record, ...
LEMMA FramedFinished ==
    ASSUME Framed, log \subseteq log', UNCHANGED len, NEW r, Joined(pkg', pkg, r), Last(r),
           ppc # "done", ppc' = "done", Pending = 0
    PROVE  Framed'
<1> SUFFICES ASSUME log' \cap Bad = {}
             PROVE  /\ Len(pkg') > 0 /\ pkg'[1].unit = "num"
                    /\ \A i \in Live(pkg') :
                          /\ Fits(pkg[i].type, pkg[i].size, pkg[i + 1].path)'
                          /\ \A k \in i + 3..DataEnd(pkg', i) : k <= Len(pkg') => pkg'[k].unit = "byte"
                          /\ Closed(i)'
  BY DEF Framed
<1>1. Framing(r) /\ log \cap Bad = {}
  BY DEF Last
<1>2. Len(pkg') > 0 /\ pkg'[1].unit = "num"
  BY <1>1, BeginKept
<1>3. Live(pkg') = Live(pkg)
  BY LastAdded
<1>4. ASSUME NEW i \in Live(pkg) PROVE Closed(i) \/ DataEnd(pkg, i) = Len(pkg)
  <2>1. Closed(i) \/ Open(i)
    BY <1>1, <1>4 DEF Framed
  <2>2. Len(pkg) \in Nat
    BY JoinedLength
  <2> QED BY <2>1, <2>2 DEF Open
<1>5. ASSUME NEW i \in Live(pkg)
      PROVE  /\ Fits(pkg[i].type, pkg[i].size, pkg[i + 1].path)'
             /\ \A k \in i + 3..DataEnd(pkg', i) : k <= Len(pkg') => pkg'[k].unit = "byte"
             /\ Closed(i)'
  BY <1>1, <1>4, <1>5, FramedOld
<1> QED BY <1>2, <1>3, <1>5

\* ... and over the tail of an older archive.
LEMMA FramedTail ==
    ASSUME Framed, UNCHANGED <<log, len>>, NEW e, Joined(pkg', pkg, e), Broken(e),
           log \cap Bad = {} => ppc = "done" /\ ppc' = "done"
    PROVE  Framed'
<1> SUFFICES ASSUME log \cap Bad = {}
             PROVE  /\ Len(pkg') > 0 /\ pkg'[1].unit = "num"
                    /\ \A i \in Live(pkg') :
                          /\ Fits(pkg[i].type, pkg[i].size, pkg[i + 1].path)'
                          /\ \A k \in i + 3..DataEnd(pkg', i) : k <= Len(pkg') => pkg'[k].unit = "byte"
                          /\ Closed(i)'
  BY DEF Framed
<1>1. Len(pkg') > 0 /\ pkg'[1].unit = "num"
  BY BeginKept DEF Framed
<1>2. Live(pkg') = Live(pkg)
  BY RecordsKept
<1>3. \A i \in Live(pkg) : Closed(i)
  BY DEF Framed, Open
<1>4. ASSUME NEW i \in Live(pkg)
      PROVE  /\ Fits(pkg[i].type, pkg[i].size, pkg[i + 1].path)'
             /\ \A k \in i + 3..DataEnd(pkg', i) : k <= Len(pkg') => pkg'[k].unit = "byte"
             /\ Closed(i)'
  BY <1>3, <1>4, FramedOld
<1> QED BY <1>1, <1>2, <1>4

\* The units e continue the data of the record i behind its first m bytes.
Continues(i, m, e) == /\ pkg[i + 1].path = cur /\ i + 2 = Len(pkg) - m
                      /\ \A k \in 1..Len(e) : e[k] = Byte(cur, m + k)

\* The bytes: those there stay, new ones continue the record in hand.
LEMMA ContentsOld ==
    ASSUME Contents, log \subseteq {"unpack"}, NEW m \in Int, NEW e, Joined(pkg', pkg, e), NEW i \in Live(pkg),
           DataEnd(pkg, i) <= Len(pkg) \/ Continues(i, m, e),
           NEW k \in 1..pkg'[i].size, i + 2 + k <= Len(pkg')
    PROVE  pkg'[i + 2 + k] = Byte(pkg'[i + 1].path, k)
<1>1. Len(pkg') = Len(pkg) + Len(e) /\ Len(pkg) \in Nat /\ Len(e) \in Nat
  BY JoinedLength
<1>2. /\ i \in Nat /\ 1 <= i /\ i + 2 <= Len(pkg)
      /\ pkg'[i] = pkg[i] /\ pkg'[i + 1] = pkg[i + 1]
  BY AtRecords, LiveRecords
<1>3. DataEnd(pkg, i) = i + 2 + pkg[i].size /\ pkg[i].size \in Nat
  <2>1. pkg \in Seq(AnyUnit) /\ i \in Records(pkg)
    BY LiveRecords DEF Joined
  <2> QED BY <2>1, RecordSize
<1>4. k \in Nat /\ 1 <= k /\ k <= pkg[i].size
  BY <1>2, <1>3
<1>5. CASE i + 2 + k <= Len(pkg)
  <2>1. pkg'[i + 2 + k] = pkg[i + 2 + k]
    BY <1>2, <1>4, <1>5, JoinedLeft
  <2>2. pkg[i + 2 + k] = Byte(pkg[i + 1].path, k)
    BY <1>3, <1>4, <1>5 DEF Contents
  <2> QED BY <1>2, <2>1, <2>2
<1>6. CASE i + 2 + k > Len(pkg)
  <2>1. ~(DataEnd(pkg, i) <= Len(pkg))
    BY <1>1, <1>2, <1>3, <1>4, <1>6
  <2>2. pkg[i + 1].path = cur /\ i + 2 = Len(pkg) - m
    BY <2>1 DEF Continues
  <2>7. \A l \in 1..Len(e) : e[l] = Byte(cur, m + l)
    BY <2>1 DEF Continues
  <2>3. pkg'[i + 2 + k] = e[i + 2 + k - Len(pkg)]
    BY <1>1, <1>2, <1>4, <1>6, JoinedRight
  <2>4. PICK l \in Int : l = i + 2 + k - Len(pkg)
    BY <1>1, <1>2, <1>4
  <2>5. l \in 1..Len(e) /\ m + l = k
    BY <1>1, <1>2, <1>4, <1>6, <2>2, <2>4
  <2>6. e[l] = Byte(cur, k)
    <3>1. e[l] = Byte(cur, m + l)
      BY <2>5, <2>7
    <3> QED BY <1>4, <2>4, <2>5, <3>1
  <2> QED BY <1>2, <2>2, <2>3, <2>4, <2>6
<1> QED BY <1>1, <1>2, <1>4, <1>5, <1>6

\* All the data announced so far is in the archive.
AllThere == \A i \in Live(pkg) : DataEnd(pkg, i) <= Len(pkg)

\* Contents: nothing of a record's data is still to come, ...
LEMMA ContentsKept ==
    ASSUME Contents, log \subseteq log', NEW e, Joined(pkg', pkg, e),
           Live(pkg') = Live(pkg), log' \subseteq {"unpack"} => AllThere
    PROVE  Contents'
<1> SUFFICES ASSUME log' \subseteq {"unpack"}, NEW i \in Live(pkg'), NEW k \in 1..pkg'[i].size,
                    i + 2 + k <= Len(pkg')
             PROVE  pkg'[i + 2 + k] = Byte(pkg'[i + 1].path, k)
  BY DEF Contents
<1>1. i \in Live(pkg) /\ DataEnd(pkg, i) <= Len(pkg) /\ log \subseteq {"unpack"} /\ 0 \in Int
  BY DEF AllThere
<1> QED BY <1>1, ContentsOld

\* ... or a new record has none yet.
LEMMA ContentsAdded ==
    ASSUME Contents, log \subseteq log', NEW r, NEW p, Joined(pkg', pkg, r), Whole(r, p),
           log' \subseteq {"unpack"} => AllThere
    PROVE  Contents'
<1> SUFFICES ASSUME log' \subseteq {"unpack"}, NEW i \in Live(pkg'), NEW k \in 1..pkg'[i].size,
                    i + 2 + k <= Len(pkg')
             PROVE  pkg'[i + 2 + k] = Byte(pkg'[i + 1].path, k)
  BY DEF Contents
<1>1. Live(pkg') = Live(pkg) \cup {Len(pkg) + 1} /\ Framing(r)
  BY PathAdded DEF Whole
<1>2. CASE i \in Live(pkg)
  <2>1. DataEnd(pkg, i) <= Len(pkg) /\ log \subseteq {"unpack"} /\ 0 \in Int
    BY <1>2 DEF AllThere
  <2> QED BY <1>2, <2>1, ContentsOld
<1>3. CASE i = Len(pkg) + 1
  <2>1. Len(pkg) \in Nat /\ Len(pkg') = Len(pkg) + 3
    BY <1>1, NewUnits
  <2>2. i + 2 = Len(pkg') /\ i \in Nat
    BY <1>3, <2>1
  <2>3. k >= 1 /\ k \in Int
    <3>1. pkg'[i].size \in Nat
      <4>1. i \in Records(pkg') /\ pkg' \in Seq(AnyUnit)
        BY LiveRecords, JoinedLength
      <4> QED BY <4>1, RecordSize
    <3> QED BY <3>1
  <2> QED BY <2>1, <2>2, <2>3
<1> QED BY <1>1, <1>2, <1>3

-----------------------------------------------------------------------------
(***************************************************************************)
(* The steps of pack                                                       *)
(***************************************************************************)
LEMMA FaultType ==
    ASSUME TypeOK, Fault PROVE faults' \in 0..MaxFaults
BY BoundAssumption DEF TypeOK, Fault

\* Joined from its definition.
LEMMA JoinIs ==
    ASSUME TypeOK, NEW e, e \in Seq(AnyUnit), pkg' = pkg \o e PROVE Joined(pkg', pkg, e)
BY DEF TypeOK, Joined

\* c is the archive q with two pieces behind it, which are one piece.
JoinedTwice(c, q, a, b) == {q, a, b} \subseteq Seq(AnyUnit) /\ c = (q \o a) \o b

\* Two pieces are one.
LEMMA JoinedAtOnce ==
    ASSUME NEW c, NEW q, NEW a, NEW b, JoinedTwice(c, q, a, b) PROVE Joined(c, q, a \o b)
<1>1. q \in Seq(AnyUnit) /\ a \in Seq(AnyUnit) /\ b \in Seq(AnyUnit)
  BY DEF JoinedTwice
<1>2. (q \o a) \o b = q \o (a \o b) /\ a \o b \in Seq(AnyUnit)
  BY <1>1, ConcatAssociative
<1> QED BY <1>1, <1>2 DEF Joined, JoinedTwice

\* The pieces of a record are made of units.
LEMMA Pieces ==
    ASSUME NEW r, Framing(r)
    PROVE  /\ \A k \in 0..2 : SubSeq(r, 1, k) \in Seq(AnyUnit)
           /\ \A k \in 2..3 : SubSeq(r, 2, k) \in Seq(AnyUnit)
<1>1. r \in Seq(AnyUnit) /\ 3 <= Len(r)
  BY DEF Framing
<1> QED BY <1>1

\* A write that fails in a record leaves a broken piece.
LEMMA PieceWritten ==
    ASSUME TypeOK, NEW r, Framing(r),
           \E k \in 0..2, rest \in {<<>>, <<Torn>>} : pkg' = pkg \o SubSeq(r, 1, k) \o rest
    PROVE  \E e : Joined(pkg', pkg, e) /\ Broken(e)
<1>1. PICK k \in 0..2, rest \in {<<>>, <<Torn>>} : pkg' = pkg \o SubSeq(r, 1, k) \o rest
  OBVIOUS
<1>2. Broken(SubSeq(r, 1, k) \o rest)
  BY BrokenPieces
<1>3. rest \in Tails
  BY <1>1 DEF Tails
<1>4. rest \in Seq(AnyUnit)
  BY <1>3, BrokenTails DEF Broken
<1>5. SubSeq(r, 1, k) \in Seq(AnyUnit) /\ pkg \in Seq(AnyUnit)
  BY Pieces DEF TypeOK
<1>6. JoinedTwice(pkg', pkg, SubSeq(r, 1, k), rest)
  BY <1>1, <1>4, <1>5 DEF JoinedTwice
<1> QED BY <1>2, <1>6, JoinedAtOnce

\* write_file_info writes the record, or its failure is noted.
LEMMA WriteRecordCases ==
    ASSUME TypeOK, NEW r, Framing(r), WriteRecord(r)
    PROVE  /\ \/ Joined(pkg', pkg, r) /\ UNCHANGED <<log, interrupted>>
              \/ log' = log \cup {"record"} /\ \E e : Joined(pkg', pkg, e) /\ Broken(e)
           /\ interrupted' \in BOOLEAN /\ faults' \in 0..MaxFaults
<1>1. CASE ~interrupted /\ pkg' = pkg \o r /\ UNCHANGED <<interrupted, log, faults>>
  BY <1>1, JoinIs DEF Framing, TypeOK
<1>2. CASE /\ interrupted /\ pkg' = pkg \o SubSeq(r, 1, 2)
           /\ Note("record") /\ UNCHANGED <<interrupted, faults>>
  <2>1. Broken(SubSeq(r, 1, 2)) /\ SubSeq(r, 1, 2) \in Seq(AnyUnit)
    BY BrokenPieces DEF Broken
  <2>2. Joined(pkg', pkg, SubSeq(r, 1, 2))
    BY <1>2, <2>1, JoinIs
  <2> QED BY <1>2, <2>1, <2>2 DEF Note, TypeOK
<1>3. CASE /\ \E k \in 0..2, rest \in {<<>>, <<Torn>>} : pkg' = pkg \o SubSeq(r, 1, k) \o rest
           /\ Note("record") /\ PackFault
  <2>1. \E e : Joined(pkg', pkg, e) /\ Broken(e)
    BY <1>3, PieceWritten
  <2> QED BY <1>3, <2>1, FaultType DEF Note, PackFault
<1>4. CASE /\ pkg' = pkg \o <<Torn>> \o SubSeq(r, 2, IF interrupted THEN 2 ELSE 3)
           /\ Note("record") /\ Fault /\ UNCHANGED interrupted
  <2>1. PICK k \in 2..3 : k = IF interrupted THEN 2 ELSE 3
    OBVIOUS
  <2>2. Broken(<<Torn>> \o SubSeq(r, 2, k))
    BY BrokenPieces
  <2>3. SubSeq(r, 2, k) \in Seq(AnyUnit) /\ <<Torn>> \in Seq(AnyUnit) /\ pkg \in Seq(AnyUnit)
    BY TornUnit, Pieces DEF TypeOK
  <2>4. JoinedTwice(pkg', pkg, <<Torn>>, SubSeq(r, 2, k))
    BY <1>4, <2>1, <2>3 DEF JoinedTwice
  <2>5. Joined(pkg', pkg, <<Torn>> \o SubSeq(r, 2, k))
    BY <2>4, JoinedAtOnce
  <2> QED BY <1>4, <2>2, <2>5, FaultType DEF Note, TypeOK
<1> QED BY <1>1, <1>2, <1>3, <1>4 DEF WriteRecord

\* A record that is not written whole spoils what is said of the archive.
LEMMA RecordLost ==
    ASSUME PackInv, ppc # "done", "record" \in log', log \subseteq log',
           NEW e, Joined(pkg', pkg, e), Broken(e)
    PROVE  PackInv'
<1>1. Known'
  BY KnownKept DEF PackInv
<1> QED BY <1>1 DEF PackInv, ParentsFirst, OnStack, Complete, NumbersBegin, Framed, Bad, Buffered,
                     Contents

\* So does a whole one that is not from what stat found.
LEMMA RecordMistaken ==
    ASSUME PackInv, ppc # "done", "record" \in log', log \subseteq log',
           NEW r, NEW p, Joined(pkg', pkg, r), Whole(r, p), Names(r[1].type, p)
    PROVE  PackInv'
<1>1. Known'
  BY KnownAdded DEF PackInv
<1> QED BY <1>1 DEF PackInv, ParentsFirst, OnStack, Complete, NumbersBegin, Framed, Bad, Buffered,
                     Contents

\* pack gives up.
LEMMA PackFailed ==
    ASSUME TypeOK, PackInv, ppc # "done", ppc' = "finish", UNCHANGED <<pkg, stack>>,
           "pack" \in log', log \subseteq log'
    PROVE  PackInv'
<1>1. Joined(pkg', pkg, <<>>) /\ Broken(<<>>) /\ \A k \in 1..Len(<<>>) : <<>>[k].unit # "num"
  BY Unchanged
<1>2. Known' /\ ParentsFirst' /\ NumbersBegin'
  BY <1>1, KnownKept, ParentsKept, NumbersKept DEF PackInv
<1>3. OnStack'
  BY DEF PackInv, OnStack
<1> QED BY <1>2, <1>3 DEF PackInv, Complete, Framed, Bad, Buffered, Contents

\* The stack after a push, after an entry is taken, and after a pop.
Levels == [dir : Dirs, todo : SUBSET Paths]

\* The stack of the walk: a directory is entered, ...
LEMMA Pushed ==
    ASSUME TypeOK, NEW d \in Levels, stack' = Append(stack, d)
    PROVE  /\ stack' \in Seq(Levels) /\ Len(stack') = Len(stack) + 1 /\ Len(stack) \in Nat
           /\ \A k \in 1..Len(stack) : stack'[k] = stack[k]
           /\ stack'[Len(stack) + 1] = d
BY DEF TypeOK, Levels

\* The entry m of the stack s is t now.
Replaced(c, s, m, t) ==
    s \in Seq(Levels) /\ m \in 1..Len(s) /\ t \in Levels /\ c = [s EXCEPT ![m] = t]

\* ... its level is replaced, ...
LEMMA ReplacedLevel ==
    ASSUME NEW c, NEW s, NEW m, NEW t, Replaced(c, s, m, t)
    PROVE  /\ c \in Seq(Levels) /\ Len(c) = Len(s)
           /\ \A k \in 1..Len(s) : c[k] = IF k = m THEN t ELSE s[k]
<1>1. s \in Seq(Levels) /\ m \in 1..Len(s) /\ t \in Levels /\ c = [s EXCEPT ![m] = t]
  BY DEF Replaced
<1> QED BY <1>1, ExceptSeq

\* The entry p of the topmost directory of s has been taken.
TakenFrom(c, s, p) ==
    s \in Seq(Levels) /\ Len(s) > 0 /\ c = [s EXCEPT ![Len(s)].todo = @ \ {p}]

\* ... an entry is taken off it, ...
LEMMA Taken ==
    ASSUME NEW c, NEW s, NEW p, TakenFrom(c, s, p)
    PROVE  /\ c \in Seq(Levels) /\ Len(c) = Len(s) /\ Len(s) \in Nat
           /\ \A k \in 1..Len(s) : /\ c[k].dir = s[k].dir
                                   /\ s[k].todo \ {p} \subseteq c[k].todo
                                   /\ c[k].todo \subseteq s[k].todo
<1>1. PICK m, t :
         m \in 1..Len(s) /\ s \in Seq(Levels) /\ t = [s[m] EXCEPT !.todo = @ \ {p}] /\ c = [s EXCEPT ![m] = t]
  <2>1. Len(s) \in 1..Len(s) /\ s \in Seq(Levels)
    BY DEF TakenFrom
  <2>2. c = [s EXCEPT ![Len(s)] = [s[Len(s)] EXCEPT !.todo = @ \ {p}]]
    BY DEF TakenFrom
  <2> WITNESS Len(s), [s[Len(s)] EXCEPT !.todo = @ \ {p}]
  <2> QED BY <2>1, <2>2
<1>2. t \in Levels /\ t.dir = s[m].dir /\ t.todo = s[m].todo \ {p}
  <2>1. s[m] \in Levels
    BY <1>1
  <2> QED BY <1>1, <2>1 DEF Levels
<1>3. Replaced(c, s, m, t)
  BY <1>1, <1>2 DEF Replaced
<1>4. c \in Seq(Levels) /\ Len(c) = Len(s) /\ \A k \in 1..Len(s) : c[k] = IF k = m THEN t ELSE s[k]
  BY <1>3, ReplacedLevel
<1>5. Len(s) \in Nat
  BY <1>1
<1> QED BY <1>2, <1>4, <1>5

\* ... and a directory is left.
LEMMA Popped ==
    ASSUME TypeOK, Len(stack) > 0, stack' = SubSeq(stack, 1, Len(stack) - 1)
    PROVE  /\ stack' \in Seq(Levels) /\ Len(stack') + 1 = Len(stack) /\ Len(stack) \in Nat
           /\ \A k \in 1..Len(stack') : stack'[k] = stack[k]
<1>1. stack \in Seq(Levels) /\ Len(stack) \in Nat
  BY DEF TypeOK, Levels
<1>2. PICK m \in Nat : m + 1 = Len(stack)
  BY <1>1
<1>3. stack' = SubSeq(stack, 1, m)
  BY <1>2
<1> QED BY <1>1, <1>2, <1>3

-----------------------------------------------------------------------------
\* While pack runs, unpack has not been started.
LEMMA PackRuns ==
    ASSUME IInv, ppc \notin {"done", "killed"} PROVE rpc = "idle" /\ pos = 0
BY DEF IInv, History

\* As long as unpack is not started its part of the invariant holds.
LEMMA Waits ==
    ASSUME rpc' = "idle", TypeOK', History' PROVE UnpackInv'
<1>1. pos' = 0 /\ ~used' /\ \A p \in Files : out'[p] = <<>>
  BY DEF History
<1>2. ASSUME NEW i \in Live(pkg') PROVE ~(i + 2 <= pos')
  <2>1. i \in Records(pkg') /\ pkg' \in Seq(AnyUnit)
    BY <1>2, LiveRecords DEF TypeOK
  <2>2. i \in Nat /\ 1 <= i
    BY <2>1, RecordBounds
  <2> QED BY <1>1, <2>2
<1>3. Read'
  BY <1>2 DEF Read
<1>4. Target'
  <2>1. ASSUME NEW p \in Files
        PROVE  /\ Len(Older(p)') <= Len(out'[p])
               /\ Len(out'[p]) = Len(Older(p)')
               /\ \A i \in len'[p] + 1..Len(out'[p]) : out'[p][i] = Byte("older", i)
    <3>1. out'[p] = <<>> /\ Older(p)' = <<>>
      BY <1>1, <2>1 DEF Older
    <3>2. len'[p] \in Nat
      BY <2>1 DEF TypeOK
    <3>3. Len(<<>>) = 0
      OBVIOUS
    <3> QED BY <3>1, <3>2, <3>3
  <2> QED BY <2>1 DEF Target
<1> QED BY <1>3, <1>4 DEF UnpackInv, AtRecord, Blamed

\* Nothing is pending: all data announced has been written.
LEMMA DataWritten ==
    ASSUME TypeOK, Framed, log \subseteq {"unpack"}, Pending = 0 PROVE AllThere
<1> SUFFICES ASSUME NEW i \in Live(pkg) PROVE DataEnd(pkg, i) <= Len(pkg)
  BY DEF AllThere
<1>1. Closed(i) \/ Open(i)
  BY DEF Framed, Bad
<1>2. Len(pkg) \in Nat /\ DataEnd(pkg, i) \in Nat
  <2>1. pkg \in Seq(AnyUnit) /\ i \in Records(pkg)
    BY LiveRecords DEF TypeOK
  <2> QED BY <2>1, RecordSize
<1> QED BY <1>1, <1>2 DEF Closed, Open

\* The records of directories and files are whole.
LEMMA PathRecords ==
    ASSUME NEW p \in Paths
    PROVE  /\ Whole(Record("dir", 0, p, 0), p) /\ Framing(Record("dir", 0, p, 0))
           /\ Record("dir", 0, p, 0)[1].type = "dir" /\ Record("dir", 0, p, 0)[1].size = 0
           /\ \A n \in Nat : /\ Whole(Record("file", n, p, 0), p) /\ Framing(Record("file", n, p, 0))
                             /\ Record("file", n, p, 0)[1].type = "file"
                             /\ Record("file", n, p, 0)[1].size = n
<1>1. ASSUME NEW t \in {"dir", "file"}, NEW n \in Nat
      PROVE  /\ Whole(Record(t, n, p, 0), p) /\ Framing(Record(t, n, p, 0))
             /\ Record(t, n, p, 0)[1].type = t /\ Record(t, n, p, 0)[1].size = n
  BY <1>1, RecordIsWhole DEF Whole
<1> QED BY <1>1

\* A step that leaves the archive alone.
LEMMA ArchiveKept ==
    ASSUME PackInv, UNCHANGED pkg, log \subseteq log', ppc = "done" => ppc' = "done"
    PROVE  Known' /\ ParentsFirst' /\ NumbersBegin' /\ Contents'
<1>1. Known'
  BY DEF PackInv, Known
<1>2. ParentsFirst'
  BY DEF PackInv, ParentsFirst
<1>3. NumbersBegin'
  BY DEF PackInv, NumbersBegin
<1>4. Contents'
  BY DEF PackInv, Contents
<1> QED BY <1>1, <1>2, <1>3, <1>4

\* pack() opens a directory and writes its record, fails, or loses it.
LEMMA OpenDirKeeps ==
    ASSUME IInv, OpenDir PROVE TypeOK' /\ History' /\ Walk' /\ PackInv'
<1> USE DEF IInv
<1>1. /\ ppc = "opendir" /\ cur \in Dirs /\ cur \in Paths /\ rpc = "idle" /\ pos = 0
      /\ UNCHANGED <<cur, woff, wbuf, wleft, len, gone, rpc, pos, rcur, rleft, roff, used, made, out,
                     shorts, changes, kills>>
  BY PackRuns DEF OpenDir, Walk, TypeOK, treeVars, unpackVars
<1>2. Pending = 0
  BY <1>1 DEF Pending
<1>3. CASE /\ WriteRecord(Record("dir", 0, cur, 0))
           /\ stack' = Append(stack, [dir |-> cur, todo |-> Entries(cur)])
           /\ ppc' = "readdir"
  <2>1. PICK r : r = Record("dir", 0, cur, 0)
    OBVIOUS
  <2>2. Whole(r, cur) /\ Framing(r) /\ r[1].type = "dir" /\ r[1].size = 0
    BY <1>1, <2>1, PathRecords
  <2>3. [dir |-> cur, todo |-> Entries(cur)] \in Levels
    BY <1>1 DEF Levels, Entries
  <2>4. /\ stack' \in Seq(Levels) /\ Len(stack') = Len(stack) + 1 /\ Len(stack) \in Nat
        /\ \A k \in 1..Len(stack) : stack'[k] = stack[k]
        /\ stack'[Len(stack) + 1] = [dir |-> cur, todo |-> Entries(cur)]
    BY <1>3, <2>3, Pushed
  <2>5. /\ \/ Joined(pkg', pkg, r) /\ UNCHANGED <<log, interrupted>>
           \/ log' = log \cup {"record"} /\ \E e : Joined(pkg', pkg, e) /\ Broken(e)
        /\ interrupted' \in BOOLEAN /\ faults' \in 0..MaxFaults
    BY <1>3, <2>1, <2>2, WriteRecordCases
  <2>6. pkg' \in Seq(AnyUnit) /\ Len(pkg') \in Nat
    BY <2>5, JoinedLength
  <2>7. TypeOK'
    <3>1. log' \subseteq {"record", "pack", "readdir", "short", "killed", "tree", "unpack"}
      BY <2>5 DEF TypeOK
    <3>2. pos' \in 0..Len(pkg')
      BY <1>1, <2>6
    <3> QED BY <1>1, <1>3, <2>4, <2>5, <2>6, <3>1, <3>2 DEF TypeOK, Levels
  <2>8. History'
    <3>1. History /\ ppc' = "readdir" /\ log \subseteq log'
      BY <1>3, <2>5
    <3> QED BY <1>1, <2>5, <3>1 DEF History
  <2>9. Walk'
    BY <1>1, <1>3, <2>4 DEF Walk
  <2>10. CASE Joined(pkg', pkg, r) /\ UNCHANGED <<log, interrupted>>
    <3>1. Written(pkg') = Written(pkg) \cup {cur}
      BY <2>2, <2>10, PathAdded
    <3>2. Known'
      BY <1>1, <2>2, <2>10, KnownAdded DEF PackInv, Names
    <3>3. ParentsFirst'
      BY <1>1, <2>2, <2>10, ParentsAdded DEF PackInv, OnStack
    <3>4. OnStack'
      BY <1>1, <1>3, <2>4, <2>10, <3>1 DEF PackInv, OnStack
    <3>5. Complete'
      <4> SUFFICES ASSUME log \cap {"record", "pack", "readdir", "tree"} = {}
                   PROVE  /\ Root \in Written(pkg')
                          /\ \A p \in Paths \ {Root} : Parent[p] \in Written(pkg') =>
                                p \in Written(pkg') \/ \E k \in 1..Len(stack') : p \in stack'[k].todo
        BY <1>3, <2>10 DEF Complete
      <4>1. Root \in Written(pkg')
        BY <1>1, <3>1 DEF PackInv, Complete
      <4>2. ASSUME NEW p \in Paths \ {Root}, Parent[p] \in Written(pkg'), p \notin Written(pkg')
            PROVE  \E k \in 1..Len(stack') : p \in stack'[k].todo
        <5>1. CASE Parent[p] = cur
          <6>1. p \in Entries(cur) /\ Len(stack) + 1 \in 1..Len(stack')
            BY <2>4, <4>2, <5>1 DEF Entries
          <6> QED BY <2>4, <6>1
        <5>2. CASE Parent[p] \in Written(pkg)
          <6>1. PICK k \in 1..Len(stack) : p \in stack[k].todo
            BY <1>1, <3>1, <4>2, <5>2 DEF PackInv, Complete
          <6> QED BY <2>4, <6>1
        <5> QED BY <3>1, <4>2, <5>1, <5>2
      <4> QED BY <4>1, <4>2
    <3>6. NumbersBegin'
      BY <2>2, <2>10, NumbersAdded DEF PackInv
    <3>7. Framed'
      <4>1. Fits(r[1].type, r[1].size, cur)
        BY <1>1, <2>2 DEF Fits
      <4>2. Pending' = r[1].size
        BY <1>3, <2>2 DEF Pending
      <4> QED BY <1>1, <1>2, <1>3, <2>2, <2>10, <4>1, <4>2, FramedAdded DEF PackInv
    <3>8. Contents'
      <4>1. log' \subseteq {"unpack"} => AllThere
        BY <1>2, <2>10, DataWritten DEF PackInv
      <4>2. Contents /\ log \subseteq log'
        BY <2>10 DEF PackInv
      <4> QED BY <2>2, <2>10, <4>1, <4>2, ContentsAdded
    <3> QED BY <1>3, <2>7, <2>8, <2>9, <3>2, <3>3, <3>4, <3>5, <3>6, <3>7, <3>8
            DEF PackInv, Buffered
  <2>11. CASE log' = log \cup {"record"} /\ \E e : Joined(pkg', pkg, e) /\ Broken(e)
    <3>1. PICK e : Joined(pkg', pkg, e) /\ Broken(e)
      BY <2>11
    <3>2. "record" \in log' /\ log \subseteq log'
      BY <2>11
    <3> QED BY <1>1, <2>7, <2>8, <2>9, <3>1, <3>2, RecordLost
  <2> QED BY <2>5, <2>7, <2>8, <2>9, <2>10, <2>11
<1>5. ASSUME StatFails, log \subseteq log', "record" \in log', log' \subseteq log \cup {"record", "pack"},
             NEW r, Framing(r), Whole(r, cur), Names(r[1].type, cur), pkg' = pkg \o r
      PROVE  /\ PackInv' /\ pkg' \in Seq(AnyUnit) /\ pos' \in 0..Len(pkg')
             /\ log' \subseteq {"record", "pack", "readdir", "short", "killed", "tree", "unpack"}
             /\ interrupted' = FALSE /\ faults' \in 0..MaxFaults
  <2>1. Joined(pkg', pkg, r)
    BY <1>5, JoinIs DEF Framing, TypeOK
  <2>2. pkg' \in Seq(AnyUnit) /\ Len(pkg') \in Nat
    BY <2>1, JoinedLength
  <2>3. PackInv'
    BY <1>1, <1>5, <2>1, RecordMistaken
  <2> QED BY <1>1, <1>5, <2>2, <2>3, FaultType DEF StatFails, TypeOK
<1>6. CASE /\ StatFails /\ Note("record") /\ pkg' = pkg \o Record("dir", 0, cur, 0)
           /\ stack' = Append(stack, [dir |-> cur, todo |-> Entries(cur)])
           /\ ppc' = "readdir"
  <2>1. PICK r : r = Record("dir", 0, cur, 0)
    OBVIOUS
  <2>2. Whole(r, cur) /\ Framing(r) /\ Names(r[1].type, cur)
    BY <1>1, <2>1, PathRecords DEF Names
  <2>3. [dir |-> cur, todo |-> Entries(cur)] \in Levels
    BY <1>1 DEF Levels, Entries
  <2>4. /\ stack' \in Seq(Levels) /\ Len(stack') = Len(stack) + 1 /\ Len(stack) \in Nat
        /\ \A k \in 1..Len(stack) : stack'[k] = stack[k]
        /\ stack'[Len(stack) + 1] = [dir |-> cur, todo |-> Entries(cur)]
    BY <1>6, <2>3, Pushed
  <2>5. /\ PackInv' /\ pkg' \in Seq(AnyUnit) /\ pos' \in 0..Len(pkg')
        /\ log' \subseteq {"record", "pack", "readdir", "short", "killed", "tree", "unpack"}
        /\ interrupted' = FALSE /\ faults' \in 0..MaxFaults
    BY <1>5, <1>6, <2>1, <2>2 DEF Note
  <2>6. TypeOK'
    BY <1>1, <1>6, <2>4, <2>5 DEF TypeOK, Levels
  <2>7. History'
    BY <1>1, <1>6, <2>5 DEF History, Note
  <2>8. Walk'
    BY <1>1, <1>6, <2>4 DEF Walk
  <2> QED BY <2>5, <2>6, <2>7, <2>8
<1>7. CASE /\ StatFails /\ log' = log \cup {"record", "pack"}
           /\ \E size \in {0, 1} : pkg' = pkg \o Record("file", size, cur, 0)
           /\ ppc' = "finish" /\ UNCHANGED stack
  <2>1. PICK size \in {0, 1} : pkg' = pkg \o Record("file", size, cur, 0)
    BY <1>7
  <2>2. PICK r : r = Record("file", size, cur, 0)
    OBVIOUS
  <2>3. size \in Nat
    BY <2>1
  <2>4. Whole(r, cur) /\ Framing(r) /\ Names(r[1].type, cur)
    BY <1>1, <2>2, <2>3, PathRecords DEF Names
  <2>5. /\ PackInv' /\ pkg' \in Seq(AnyUnit) /\ pos' \in 0..Len(pkg')
        /\ log' \subseteq {"record", "pack", "readdir", "short", "killed", "tree", "unpack"}
        /\ interrupted' = FALSE /\ faults' \in 0..MaxFaults
    BY <1>5, <1>7, <2>1, <2>2, <2>4
  <2>6. TypeOK'
    BY <1>1, <1>7, <2>5 DEF TypeOK
  <2> QED BY <1>1, <1>7, <2>5, <2>6 DEF History, Walk
<1>4. CASE PackFault /\ Note("pack") /\ ppc' = "finish" /\ UNCHANGED <<stack, pkg>>
  <2>1. log' = log \cup {"pack"} /\ faults' \in 0..MaxFaults /\ interrupted' \in BOOLEAN
    BY <1>4, FaultType DEF Note, PackFault
  <2>2. PackInv'
    BY <1>1, <1>4, <2>1, PackFailed
  <2>3. TypeOK'
    BY <1>1, <1>4, <2>1 DEF TypeOK
  <2> QED BY <1>1, <1>4, <2>1, <2>2, <2>3 DEF History, Walk
<1> QED BY <1>3, <1>4, <1>6, <1>7 DEF OpenDir

\* Leaving the root empties the stack.
LEMMA LastPopped ==
    ASSUME NEW s \in Seq(Levels), NEW c \in Seq(Levels), Len(c) + 1 = Len(s)
    PROVE  Len(s) = 1 <=> c = <<>>
<1>1. Len(c) \in Nat /\ Len(s) \in Nat
  OBVIOUS
<1>2. Len(s) = 1 <=> Len(c) = 0
  BY <1>1
<1>3. Len(c) = 0 <=> c = <<>>
  BY EmptySeq
<1> QED BY <1>2, <1>3

\* An entry is taken, or a directory left.
LEMMA ReadDirKeeps ==
    ASSUME IInv, ReadDir PROVE TypeOK' /\ History' /\ Walk' /\ PackInv'
<1> USE DEF IInv
<1>1. /\ ppc = "readdir" /\ stack # <<>> /\ rpc = "idle"
      /\ UNCHANGED <<woff, wbuf, wleft, pkg, len, gone, rpc, pos, rcur, rleft, roff, used,
                     made, out, shorts, changes, kills>>
      /\ UNCHANGED <<interrupted, log, faults>> \/ (PackFault /\ Note("readdir"))
  BY PackRuns DEF ReadDir, Walk, treeVars, unpackVars
<1>10. UNCHANGED <<woff, wbuf, wleft, pkg, len, gone, rpc, pos, rcur, rleft, roff, used,
                   made, out, shorts, changes, kills>>
  BY <1>1
<1>11. interrupted' \in BOOLEAN /\ faults' \in 0..MaxFaults
  BY <1>1, FaultType DEF PackFault, TypeOK
<1>8. /\ log \subseteq log' /\ log' \subseteq log \cup {"readdir"}
      /\ interrupted' => interrupted \/ "readdir" \in log'
  BY <1>1 DEF Note
<1>9. log' \subseteq {"record", "pack", "readdir", "short", "killed", "tree", "unpack"}
  BY <1>8 DEF TypeOK
<1>2. stack \in Seq(Levels) /\ Len(stack) > 0 /\ Len(stack) \in 1..Len(stack)
  BY <1>1 DEF TypeOK, Levels
<1>3. PICK m \in 1..Len(stack) : m = Len(stack)
  BY <1>2
<1>4. Known' /\ ParentsFirst' /\ NumbersBegin' /\ Contents' /\ Written(pkg') = Written(pkg)
  BY <1>1, <1>8, ArchiveKept
<1>5. ASSUME ppc' # "done", Pending' = 0, ppc' \notin {"read", "write"} PROVE Framed'
  <2>1. PICK e : Joined(pkg', pkg, e) /\ IsData(e) /\ Len(e) \in Nat /\ Len(e) <= 0
    BY <1>1, Unchanged
  <2>2. Pending = 0
    BY <1>1 DEF Pending
  <2>3. Framed /\ log \subseteq log' /\ UNCHANGED len
    BY <1>1, <1>8 DEF PackInv
  <2>4. log' \cap Bad = {} => Pending' = Pending - Len(e) /\ Pending \in Int
    BY <1>5, <2>1, <2>2
  <2> QED BY <1>1, <1>5, <2>1, <2>3, <2>4, FramedData
<1>6. CASE \E p \in stack[Len(stack)].todo :
              /\ cur' = p
              /\ stack' = [stack EXCEPT ![Len(stack)].todo = @ \ {p}]
              /\ ppc' = IF p \in Dirs THEN "opendir" ELSE "stat"
  <2>1. PICK p \in stack[m].todo :
              /\ cur' = p
              /\ stack' = [stack EXCEPT ![Len(stack)].todo = @ \ {p}]
              /\ ppc' = IF p \in Dirs THEN "opendir" ELSE "stat"
    BY <1>3, <1>6
  <2>2. TakenFrom(stack', stack, p)
    BY <1>2, <2>1 DEF TakenFrom
  <2>3. /\ stack' \in Seq(Levels) /\ Len(stack') = Len(stack) /\ Len(stack) \in Nat
        /\ \A k \in 1..Len(stack) : /\ stack'[k].dir = stack[k].dir
                                    /\ stack[k].todo \ {p} \subseteq stack'[k].todo
                                    /\ stack'[k].todo \subseteq stack[k].todo
    BY <2>2, Taken
  <2>4. p \in Paths \ {Root} /\ Parent[p] = stack[m].dir
    BY <1>3, <2>1 DEF Walk, Entries
  <2>5. ppc' \in {"opendir", "stat"} /\ (ppc' = "opendir" => p \in Dirs) /\ (ppc' = "stat" => p \in Files)
    BY <2>1, <2>4 DEF Paths
  <2>6. TypeOK'
    <3>1. cur' \in Paths
      BY <2>1, <2>4
    <3>2. interrupted' \in BOOLEAN /\ faults' \in 0..MaxFaults
      BY <1>11
    <3> QED BY <1>9, <1>10, <2>3, <2>5, <3>1, <3>2 DEF TypeOK, Levels
  <2>7. History'
    BY <1>1, <1>8, <2>5 DEF History
  <2>8. Walk'
    <3>1. \A k \in 1..Len(stack') : stack'[k].todo \subseteq Entries(stack'[k].dir)
      BY <2>3 DEF Walk
    <3>2. stack' # <<>>
      BY <1>2, <2>3
    <3> QED BY <2>1, <2>5, <3>1, <3>2 DEF Walk
  <2>9. OnStack'
    BY <1>1, <1>3, <1>4, <1>8, <2>1, <2>3, <2>4 DEF PackInv, OnStack
  <2>10. Complete'
    <3> SUFFICES ASSUME log \cap {"record", "pack", "readdir", "tree"} = {}
                 PROVE  /\ Root \in Written(pkg)
                        /\ \A q \in Paths \ {Root} : Parent[q] \in Written(pkg) =>
                              \/ q \in Written(pkg)
                              \/ q = p
                              \/ \E k \in 1..Len(stack') : q \in stack'[k].todo
      BY <1>1, <1>4, <1>8, <2>1, <2>5 DEF Complete
    <3>1. Root \in Written(pkg)
      BY <1>1 DEF PackInv, Complete
    <3>2. ASSUME NEW q \in Paths \ {Root}, Parent[q] \in Written(pkg), q \notin Written(pkg), q # p
          PROVE  \E k \in 1..Len(stack') : q \in stack'[k].todo
      <4>1. PICK k \in 1..Len(stack) : q \in stack[k].todo
        BY <1>1, <3>2 DEF PackInv, Complete
      <4> QED BY <2>3, <3>2, <4>1
    <3> QED BY <3>1, <3>2
  <2>11. Framed'
    BY <1>5, <2>5 DEF Pending
  <2> QED BY <1>4, <2>5, <2>6, <2>7, <2>8, <2>9, <2>10, <2>11 DEF PackInv, Buffered
<1>7. CASE /\ stack[Len(stack)].todo = {} \/ "readdir" \in log'
           /\ stack' = SubSeq(stack, 1, Len(stack) - 1)
           /\ ppc' = IF Len(stack) = 1 THEN "finish" ELSE "readdir"
           /\ UNCHANGED cur
  <2>1. /\ stack' \in Seq(Levels) /\ Len(stack') + 1 = Len(stack) /\ Len(stack) \in Nat
        /\ \A k \in 1..Len(stack') : stack'[k] = stack[k]
    BY <1>2, <1>7, Popped
  <2>2. /\ ppc' \in {"finish", "readdir"}
        /\ ppc' = "finish" => stack' = <<>>
        /\ ppc' = "readdir" => stack' # <<>>
    <3>1. Len(stack) = 1 <=> stack' = <<>>
      BY <1>2, <2>1, LastPopped
    <3> QED BY <1>7, <3>1
  <2>3. TypeOK'
    <3>1. cur' \in Paths /\ ppc' \in {"finish", "readdir"}
      BY <1>7, <2>2 DEF TypeOK
    <3>2. interrupted' \in BOOLEAN /\ faults' \in 0..MaxFaults
      BY <1>11
    <3> QED BY <1>9, <1>10, <2>1, <3>1, <3>2 DEF TypeOK, Levels
  <2>4. History'
    BY <1>1, <1>8, <2>2 DEF History
  <2>5. Walk'
    BY <2>1, <2>2 DEF Walk
  <2>6. OnStack'
    BY <1>1, <1>4, <1>8, <2>1, <2>2 DEF PackInv, OnStack
  <2>7. Complete'
    <3> SUFFICES ASSUME log \cap {"record", "pack", "readdir", "tree"} = {}, "readdir" \notin log'
                 PROVE  /\ Root \in Written(pkg)
                        /\ \A q \in Paths \ {Root} : Parent[q] \in Written(pkg) =>
                              \/ q \in Written(pkg)
                              \/ \E k \in 1..Len(stack') : q \in stack'[k].todo
      BY <1>1, <1>4, <1>8, <2>2 DEF Complete
    <3>1. Root \in Written(pkg)
      BY <1>1 DEF PackInv, Complete
    <3>2. ASSUME NEW q \in Paths \ {Root}, Parent[q] \in Written(pkg), q \notin Written(pkg)
          PROVE  \E k \in 1..Len(stack') : q \in stack'[k].todo
      <4>1. PICK k \in 1..Len(stack) : q \in stack[k].todo
        BY <1>1, <3>2 DEF PackInv, Complete
      <4>2. k # Len(stack)
        BY <1>7, <4>1
      <4>3. k \in 1..Len(stack')
        BY <2>1, <4>1, <4>2
      <4> QED BY <2>1, <4>1, <4>3
    <3> QED BY <3>1, <3>2
  <2>8. Framed'
    BY <1>5, <2>2 DEF Pending
  <2> QED BY <1>4, <2>2, <2>3, <2>4, <2>5, <2>6, <2>7, <2>8 DEF PackInv, Buffered
<1> QED BY <1>6, <1>7 DEF ReadDir, Note

\* A file's record, before its data.
LEMMA ProcessFileKeeps ==
    ASSUME IInv, ProcessFile PROVE TypeOK' /\ History' /\ Walk' /\ PackInv'
<1> USE DEF IInv
<1>1. /\ ppc = "stat" /\ cur \in Files /\ cur \in Paths /\ stack # <<>> /\ rpc = "idle" /\ pos = 0
      /\ len[cur] \in Nat
      /\ UNCHANGED <<stack, cur, wbuf, wleft, len, gone, rpc, pos, rcur, rleft, roff, used, made, out,
                     shorts, changes, kills>>
  BY PackRuns DEF ProcessFile, Walk, TypeOK, treeVars, unpackVars
<1>2. Pending = 0
  BY <1>1 DEF Pending
<1>3. CASE /\ cur \notin gone /\ WriteRecord(Record("file", len[cur], cur, 0))
           /\ ppc' = "read" /\ woff' = 0
  <2>1. PICK r : r = Record("file", len[cur], cur, 0)
    OBVIOUS
  <2>2. Whole(r, cur) /\ Framing(r) /\ r[1].type = "file" /\ r[1].size = len[cur]
    BY <1>1, <2>1, PathRecords
  <2>5. /\ \/ Joined(pkg', pkg, r) /\ UNCHANGED <<log, interrupted>>
           \/ log' = log \cup {"record"} /\ \E e : Joined(pkg', pkg, e) /\ Broken(e)
        /\ interrupted' \in BOOLEAN /\ faults' \in 0..MaxFaults
    BY <1>3, <2>1, <2>2, WriteRecordCases
  <2>6. pkg' \in Seq(AnyUnit) /\ Len(pkg') \in Nat
    BY <2>5, JoinedLength
  <2>7. TypeOK'
    <3>1. log' \subseteq {"record", "pack", "readdir", "short", "killed", "tree", "unpack"}
      BY <2>5 DEF TypeOK
    <3>2. pos' \in 0..Len(pkg')
      BY <1>1, <2>6
    <3> QED BY <1>1, <1>3, <2>5, <2>6, <3>1, <3>2 DEF TypeOK
  <2>8. History'
    BY <1>1, <1>3, <2>5 DEF History
  <2>9. Walk'
    BY <1>1, <1>3 DEF Walk
  <2>10. CASE Joined(pkg', pkg, r) /\ UNCHANGED <<log, interrupted>>
    <3>1. Written(pkg') = Written(pkg) \cup {cur}
      BY <2>2, <2>10, PathAdded
    <3>2. Known'
      BY <1>1, <2>2, <2>10, KnownAdded DEF PackInv, Names
    <3>3. ParentsFirst'
      BY <1>1, <2>2, <2>10, ParentsAdded DEF PackInv, OnStack
    <3>4. OnStack'
      BY <1>1, <1>3, <2>10, <3>1 DEF PackInv, OnStack
    <3>5. Complete'
      <4> SUFFICES ASSUME log \cap {"record", "pack", "readdir", "tree"} = {}
                   PROVE  /\ Root \in Written(pkg')
                          /\ \A p \in Paths \ {Root} : Parent[p] \in Written(pkg') =>
                                p \in Written(pkg') \/ \E k \in 1..Len(stack) : p \in stack[k].todo
        BY <1>1, <1>3, <2>10 DEF Complete
      <4>1. Root \in Written(pkg')
        BY <1>1, <3>1 DEF PackInv, Complete
      <4>2. ASSUME NEW p \in Paths \ {Root}, Parent[p] \in Written(pkg'), p \notin Written(pkg')
            PROVE  \E k \in 1..Len(stack) : p \in stack[k].todo
        <5>1. Parent[p] \in Dirs /\ Parent[p] # cur
          BY <1>1, <4>2, TreeAssumption
        <5> QED BY <1>1, <3>1, <4>2, <5>1 DEF PackInv, Complete
      <4> QED BY <4>1, <4>2
    <3>6. NumbersBegin'
      BY <2>2, <2>10, NumbersAdded DEF PackInv
    <3>7. Framed'
      <4>1. Fits(r[1].type, r[1].size, cur)
        BY <1>1, <2>2 DEF Fits
      <4>2. Pending' = r[1].size /\ woff' <= len[cur]
        BY <1>1, <1>3, <2>2 DEF Pending
      <4> QED BY <1>1, <1>2, <1>3, <2>2, <2>10, <4>1, <4>2, FramedAdded DEF PackInv
    <3>8. Contents'
      <4>1. log' \subseteq {"unpack"} => AllThere
        BY <1>2, <2>10, DataWritten DEF PackInv
      <4>2. Contents /\ log \subseteq log'
        BY <2>10 DEF PackInv
      <4> QED BY <2>2, <2>10, <4>1, <4>2, ContentsAdded
    <3> QED BY <1>3, <2>7, <2>8, <2>9, <3>2, <3>3, <3>4, <3>5, <3>6, <3>7, <3>8
            DEF PackInv, Buffered
  <2>11. CASE log' = log \cup {"record"} /\ \E e : Joined(pkg', pkg, e) /\ Broken(e)
    <3>1. PICK e : Joined(pkg', pkg, e) /\ Broken(e)
      BY <2>11
    <3>2. "record" \in log' /\ log \subseteq log'
      BY <2>11
    <3> QED BY <1>1, <2>7, <2>8, <2>9, <3>1, <3>2, RecordLost
  <2> QED BY <2>5, <2>7, <2>8, <2>9, <2>10, <2>11
<1>6. ASSUME StatFails, Note("record"), NEW t \in {"dir", "file"}, NEW n \in Nat,
             pkg' = pkg \o Record(t, n, cur, 0), ppc' \in {"read", "readdir"}, woff' \in Nat
      PROVE  TypeOK' /\ History' /\ Walk' /\ PackInv'
  <2>1. PICK r : r = Record(t, n, cur, 0)
    OBVIOUS
  <2>2. Whole(r, cur) /\ Framing(r) /\ Names(r[1].type, cur)
    BY <1>1, <2>1, RecordIsWhole DEF Whole, Names
  <2>3. Joined(pkg', pkg, r)
    BY <1>6, <2>1, <2>2, JoinIs DEF Framing, TypeOK
  <2>4. pkg' \in Seq(AnyUnit) /\ Len(pkg') \in Nat
    BY <2>3, JoinedLength
  <2>5. log' = log \cup {"record"} /\ interrupted' = FALSE /\ faults' \in 0..MaxFaults
    BY <1>6, FaultType DEF StatFails, Note
  <2>6. PackInv'
    BY <1>1, <2>2, <2>3, <2>5, RecordMistaken
  <2>7. TypeOK'
    <3>1. pos' \in 0..Len(pkg')
      BY <1>1, <2>4
    <3> QED BY <1>1, <1>6, <2>4, <2>5, <3>1 DEF TypeOK
  <2>8. History' /\ Walk'
    BY <1>1, <1>6, <2>5 DEF History, Walk
  <2> QED BY <2>6, <2>7, <2>8
<1>7. CASE /\ cur \notin gone /\ StatFails /\ Note("record")
           /\ pkg' = pkg \o Record("file", len[cur], cur, 0) /\ ppc' = "read" /\ woff' = 0
  BY <1>1, <1>6, <1>7
<1>8. CASE /\ cur \notin gone /\ StatFails /\ Note("record")
           /\ pkg' = pkg \o Record("dir", 0, cur, 0) /\ ppc' = "readdir" /\ UNCHANGED woff
  <2>1. woff' \in Nat
    BY <1>8 DEF TypeOK
  <2> QED BY <1>6, <1>8, <2>1
<1>4. CASE /\ cur \in gone
           /\ pkg' = pkg \o Record("dir", 0, cur, 0) /\ interrupted' = FALSE
           /\ ppc' = "readdir" /\ UNCHANGED <<woff, log, faults>>
  <2>1. PICK r : r = Record("dir", 0, cur, 0)
    OBVIOUS
  <2>2. Whole(r, cur) /\ Framing(r) /\ r[1].type = "dir"
    BY <1>1, <2>1, PathRecords
  <2>3. Joined(pkg', pkg, r)
    BY <1>4, <2>1, <2>2, JoinIs DEF Framing
  <2>4. "tree" \in log /\ UNCHANGED log
    BY <1>4 DEF History
  <2>5. pkg' \in Seq(AnyUnit) /\ Len(pkg') \in Nat
    BY <2>3, JoinedLength
  <2>6. TypeOK'
    <3>1. pos' \in 0..Len(pkg')
      BY <1>1, <2>5
    <3> QED BY <1>1, <1>4, <2>5, <3>1 DEF TypeOK
  <2>7. History' /\ Walk'
    BY <1>1, <1>4 DEF History, Walk
  <2>8. Known'
    BY <1>1, <2>2, <2>3, KnownAdded DEF PackInv, Names
  <2>9. ParentsFirst'
    BY <1>1, <2>2, <2>3, <2>4, ParentsAdded DEF PackInv, OnStack
  <2>10. OnStack'
    <3>1. Written(pkg') = Written(pkg) \cup {cur}
      BY <2>2, <2>3, PathAdded
    <3> QED BY <1>1, <1>4, <3>1 DEF PackInv, OnStack
  <2>11. NumbersBegin'
    BY <2>2, <2>3, <2>4, NumbersAdded DEF PackInv
  <2> QED BY <2>4, <2>6, <2>7, <2>8, <2>9, <2>10, <2>11
          DEF PackInv, Complete, Framed, Bad, Buffered, Contents
<1>5. CASE /\ Note("pack") /\ ppc' = "finish" /\ UNCHANGED <<woff, pkg>>
           /\ PackFault \/ (interrupted' = FALSE /\ UNCHANGED faults)
  <2>1. log' = log \cup {"pack"} /\ faults' \in 0..MaxFaults /\ interrupted' \in BOOLEAN
    BY <1>5, FaultType DEF Note, PackFault, TypeOK
  <2>2. PackInv'
    BY <1>1, <1>5, <2>1, PackFailed
  <2>3. TypeOK'
    BY <1>1, <1>5, <2>1 DEF TypeOK
  <2> QED BY <1>1, <1>5, <2>1, <2>2, <2>3 DEF History, Walk
<1> QED BY <1>3, <1>4, <1>5, <1>7, <1>8 DEF ProcessFile

\* c is the n entries of s behind the first a.
Slice(c, s, a, n)  == c = SubSeq(s, a + 1, a + n)
AllIn(S, s, a, n)  == \A i \in a + 1..a + n : s[i] \in S
Sliced(S, c, s, a, n) ==
    c \in Seq(S) /\ Len(c) <= n /\ n <= Len(c) /\ \A k \in 1..n : c[k] = s[a + k]

\* What SubSeq gives.
LEMMA SliceProperties ==
    ASSUME NEW S, NEW c, NEW s, NEW a \in Nat, NEW n \in Nat, Slice(c, s, a, n),
           AllIn(S, s, a, n)
    PROVE  Sliced(S, c, s, a, n)
<1>1. /\ SubSeq(s, a + 1, a + n) \in Seq(S)
      /\ Len(SubSeq(s, a + 1, a + n)) = IF a + 1 <= a + n THEN a + n - (a + 1) + 1 ELSE 0
      /\ \A k \in 1..a + n - (a + 1) + 1 : SubSeq(s, a + 1, a + n)[k] = s[a + 1 + k - 1]
  BY SubSeqProperties DEF AllIn
<1>2. c \in Seq(S) /\ Len(c) <= n /\ n <= Len(c)
  <2>1. c = SubSeq(s, a + 1, a + n)
    BY DEF Slice
  <2>2. (IF a + 1 <= a + n THEN a + n - (a + 1) + 1 ELSE 0) = n
    OBVIOUS
  <2>3. c \in Seq(S) /\ Len(c) = n
    BY <1>1, <2>1, <2>2
  <2>4. Len(c) \in Nat
    BY <2>3
  <2>5. PICK l \in Nat : l = Len(c)
    BY <2>4
  <2>6. l <= n /\ n <= l
    <3>1. l = n
      BY <2>3, <2>5
    <3> QED BY <3>1
  <2> QED BY <2>3, <2>5, <2>6
<1>3. ASSUME NEW k \in 1..n PROVE c[k] = s[a + k]
  <2>1. a + 1 + k - 1 = a + k /\ k \in 1..a + n - (a + 1) + 1
    BY <1>3
  <2> QED BY <1>1, <2>1 DEF Slice
<1> QED BY <1>2, <1>3 DEF Sliced

\* copy_file reads a block, the end of the file, or fails.
LEMMA CopyReadKeeps ==
    ASSUME IInv, CopyRead PROVE TypeOK' /\ History' /\ Walk' /\ PackInv'
<1> USE DEF IInv
<1>1. /\ ppc = "read" /\ cur \in Files /\ stack # <<>> /\ rpc = "idle"
      /\ len[cur] \in Nat /\ woff \in Nat /\ BlockSize \in Nat /\ BlockSize > 0
      /\ UNCHANGED <<stack, cur, pkg, len, gone, rpc, pos, rcur, rleft, roff, used, made, out,
                     shorts, changes, kills>>
  <2>1. /\ ppc = "read"
        /\ UNCHANGED <<stack, cur, pkg, len, gone, rpc, pos, rcur, rleft, roff, used, made, out,
                       shorts, changes, kills>>
    BY DEF CopyRead, treeVars, unpackVars
  <2>2. cur \in Files /\ stack # <<>> /\ rpc = "idle"
    BY <2>1, PackRuns DEF Walk
  <2>3. len[cur] \in Nat /\ woff \in Nat
    BY <2>2 DEF TypeOK
  <2>4. BlockSize \in Nat /\ BlockSize > 0
    BY TreeAssumption
  <2> QED BY <2>1, <2>2, <2>3, <2>4
<1>2. Pending = len[cur] - woff
  BY <1>1 DEF Pending
<1>3. log \subseteq log' => Known' /\ ParentsFirst' /\ NumbersBegin' /\ Contents'
  BY <1>1, ArchiveKept
<1>4. ASSUME UNCHANGED log, ppc' \in {"write", "readdir"},
             ppc' = "write" => woff' <= len[cur], log \cap Bad = {} => Pending' = Pending
      PROVE  Framed'
  <2>1. PICK e : Joined(pkg', pkg, e) /\ IsData(e) /\ Len(e) \in Nat /\ Len(e) <= 0
    BY <1>1, Unchanged
  <2>2. Framed /\ log \subseteq log' /\ UNCHANGED len
    BY <1>1, <1>4 DEF PackInv
  <2>3. log' \cap Bad = {} => Pending' = Pending - Len(e) /\ Pending \in Int
    BY <1>1, <1>2, <1>4, <2>1
  <2> QED BY <1>1, <1>4, <2>1, <2>2, <2>3, FramedData
<1>5. CASE /\ woff < len[cur]
           /\ LET n == IF len[cur] - woff < BlockSize THEN len[cur] - woff ELSE BlockSize IN
                 /\ wbuf' = SubSeq(Content(cur), woff + 1, woff + n)
                 /\ wleft' = n /\ woff' = woff + n
           /\ ppc' = "write" /\ UNCHANGED <<interrupted, log, faults>>
  <2>9. PICK n : n = IF len[cur] - woff < BlockSize THEN len[cur] - woff ELSE BlockSize
    OBVIOUS
  <2>1. /\ n \in Nat /\ n >= 1 /\ n <= BlockSize /\ woff + n <= len[cur]
        /\ wbuf' = SubSeq(Content(cur), woff + 1, woff + n)
        /\ wleft' = n /\ woff' = woff + n
    <3>1. n \in Nat /\ n >= 1 /\ n <= BlockSize /\ woff + n <= len[cur]
      <4>1. PICK l \in Nat : l = len[cur]
        BY <1>1
      <4>2. l \in Nat /\ woff \in Nat /\ BlockSize \in Nat /\ BlockSize > 0 /\ woff < l
        BY <1>1, <1>5, <4>1
      <4>3. n = IF l - woff < BlockSize THEN l - woff ELSE BlockSize
        BY <2>9, <4>1
      <4>4. n \in Nat /\ n >= 1 /\ n <= BlockSize /\ woff + n <= l
        BY <4>2, <4>3
      <4> QED BY <4>1, <4>4
    <3>2. wbuf' = SubSeq(Content(cur), woff + 1, woff + n) /\ wleft' = n /\ woff' = woff + n
      BY <1>5, <2>9
    <3> QED BY <3>1, <3>2
  <2>2. /\ wbuf' \in Seq(DataBytes) /\ Len(wbuf') <= n /\ n <= Len(wbuf')
        /\ \A k \in 1..n : wbuf'[k] = Byte(cur, woff + k)
    <3>1. \A i \in 1..len[cur] : Content(cur)[i] = Byte(cur, i) /\ Byte(cur, i) \in DataBytes
      BY <1>1 DEF Content, Byte, DataBytes
    <3>2. \A i \in woff + 1..woff + n : Content(cur)[i] = Byte(cur, i) /\ Content(cur)[i] \in DataBytes
      BY <1>1, <2>1, <3>1
    <3>3. Slice(wbuf', Content(cur), woff, n)
      BY <2>1 DEF Slice
    <3>4. /\ wbuf' \in Seq(DataBytes) /\ Len(wbuf') <= n /\ n <= Len(wbuf')
          /\ \A k \in 1..n : wbuf'[k] = Content(cur)[woff + k]
      <4>1. AllIn(DataBytes, Content(cur), woff, n)
        BY <3>2 DEF AllIn
      <4>2. woff \in Nat /\ n \in Nat
        BY <1>1, <2>1
      <4>3. Sliced(DataBytes, wbuf', Content(cur), woff, n)
        BY <3>3, <4>1, <4>2, SliceProperties
      <4> QED BY <4>3 DEF Sliced
    <3>5. ASSUME NEW k \in 1..n PROVE Content(cur)[woff + k] = Byte(cur, woff + k)
      BY <1>1, <2>1, <3>2, <3>5
    <3> QED BY <3>4, <3>5
  <2>3. TypeOK'
    <3>1. Len(wbuf') \in Nat /\ wbuf' \in Seq(DataBytes)
      BY <2>2
    <3>2. wleft' \in 0..Len(wbuf') /\ Len(wbuf') <= BlockSize /\ woff' \in Nat
      BY <1>1, <2>1, <2>2, <3>1
    <3> QED BY <1>1, <1>5, <3>1, <3>2 DEF TypeOK
  <2>4. History'
    BY <1>1, <1>5 DEF History
  <2>5. Walk'
    BY <1>1, <1>5, <2>1 DEF Walk
  <2>6. Framed'
    <3>1. Pending' = Pending
      BY <1>1, <1>2, <1>5, <2>1 DEF Pending
    <3> QED BY <1>4, <1>5, <2>1, <3>1
  <2>7. Buffered'
    BY <1>1, <2>1, <2>2 DEF Buffered
  <2>8. OnStack' /\ Complete'
    BY <1>1, <1>5 DEF PackInv, OnStack, Complete
  <2> QED BY <1>3, <1>5, <2>3, <2>4, <2>5, <2>6, <2>7, <2>8 DEF PackInv
<1>6. CASE /\ woff >= len[cur] /\ ppc' = "readdir"
           /\ UNCHANGED <<wbuf, wleft, woff, interrupted, log, faults>>
  <2>1. TypeOK'
    BY <1>1, <1>6 DEF TypeOK
  <2>2. History' /\ Walk'
    BY <1>1, <1>6 DEF History, Walk
  <2>3. Framed'
    <3>1. log \cap Bad = {} => woff <= len[cur]
      BY <1>1 DEF PackInv, Framed
    <3>2. log \cap Bad = {} => Pending' = Pending
      BY <1>1, <1>2, <1>6, <3>1 DEF Pending
    <3> QED BY <1>4, <1>6, <3>2
  <2>4. OnStack' /\ Complete' /\ Buffered'
    BY <1>1, <1>6 DEF PackInv, OnStack, Complete, Buffered
  <2> QED BY <1>3, <1>6, <2>1, <2>2, <2>3, <2>4 DEF PackInv
<1>7. CASE PackFault /\ Note("pack") /\ ppc' = "finish" /\ UNCHANGED <<wbuf, wleft, woff>>
  <2>1. log' = log \cup {"pack"} /\ faults' \in 0..MaxFaults /\ interrupted' \in BOOLEAN
    BY <1>7, FaultType DEF Note, PackFault
  <2>2. PackInv'
    BY <1>1, <1>7, <2>1, PackFailed
  <2>3. TypeOK'
    BY <1>1, <1>7, <2>1 DEF TypeOK
  <2> QED BY <1>1, <1>7, <2>1, <2>2, <2>3 DEF History, Walk
<1> QED BY <1>1, <1>5, <1>6, <1>7 DEF CopyRead

\* The finish record, over a pack that succeeded or failed.
LEMMA WriteFinishKeeps ==
    ASSUME IInv, WriteFinish PROVE TypeOK' /\ History' /\ Walk' /\ PackInv'
<1> USE DEF IInv
<1>1. /\ ppc = "finish" /\ ppc' = "done" /\ WriteRecord(Finish) /\ rpc = "idle" /\ pos = 0
      /\ UNCHANGED <<stack, cur, woff, wbuf, wleft, len, gone, rpc, pos, rcur, rleft, roff, used, made, out,
                     shorts, changes, kills>>
  BY PackRuns DEF WriteFinish, treeVars, unpackVars
<1>2. Pending = 0
  BY <1>1 DEF Pending
<1>3. PICK r : r = Finish
  OBVIOUS
<1>4. Last(r) /\ Framing(r)
  BY <1>3, FinishIsLast DEF Last
<1>5. /\ \/ Joined(pkg', pkg, r) /\ UNCHANGED <<log, interrupted>>
         \/ log' = log \cup {"record"} /\ \E e : Joined(pkg', pkg, e) /\ Broken(e)
      /\ interrupted' \in BOOLEAN /\ faults' \in 0..MaxFaults
  BY <1>1, <1>3, <1>4, WriteRecordCases
<1>6. pkg' \in Seq(AnyUnit) /\ Len(pkg') \in Nat
  BY <1>5, JoinedLength
<1>7. TypeOK'
  <2>1. log' \subseteq {"record", "pack", "readdir", "short", "killed", "tree", "unpack"}
    BY <1>5 DEF TypeOK
  <2>2. pos' \in 0..Len(pkg')
    BY <1>1, <1>6
  <2> QED BY <1>1, <1>5, <1>6, <2>1, <2>2 DEF TypeOK
<1>8. History' /\ Walk'
  BY <1>1, <1>5 DEF History, Walk
<1>9. CASE Joined(pkg', pkg, r) /\ UNCHANGED <<log, interrupted>>
  <2>1. Live(pkg') = Live(pkg) /\ Written(pkg') = Written(pkg)
    BY <1>4, <1>9, LastAdded
  <2>2. Known'
    BY <1>1, <1>4, <1>9, KnownFinished DEF PackInv
  <2>3. ParentsFirst'
    BY <1>9, <2>1, ParentsKept DEF PackInv
  <2>4. OnStack' /\ Complete'
    BY <1>1, <1>9, <2>1 DEF PackInv, OnStack, Complete
  <2>5. NumbersBegin'
    BY <1>4, <1>9, NumbersAdded DEF PackInv
  <2>6. Framed'
    BY <1>1, <1>2, <1>4, <1>9, FramedFinished DEF PackInv
  <2>7. Contents'
    <3>1. log' \subseteq {"unpack"} => AllThere
      BY <1>2, <1>9, DataWritten DEF PackInv
    <3>2. Contents /\ log \subseteq log'
      BY <1>9 DEF PackInv
    <3> QED BY <1>9, <2>1, <3>1, <3>2, ContentsKept
  <2> QED BY <1>1, <1>7, <1>8, <2>2, <2>3, <2>4, <2>5, <2>6, <2>7 DEF PackInv, Buffered
<1>10. CASE log' = log \cup {"record"} /\ \E e : Joined(pkg', pkg, e) /\ Broken(e)
  <2>1. PICK e : Joined(pkg', pkg, e) /\ Broken(e)
    BY <1>10
  <2>2. "record" \in log' /\ log \subseteq log'
    BY <1>10
  <2> QED BY <1>1, <1>7, <1>8, <2>1, <2>2, RecordLost
<1> QED BY <1>5, <1>9, <1>10

\* pack is killed, maybe in the middle of a record.
LEMMA KillPackKeeps ==
    ASSUME IInv, KillPack PROVE TypeOK' /\ History' /\ Walk' /\ PackInv'
<1> USE DEF IInv
<1>1. /\ ppc \notin {"done", "killed"} /\ ppc' = "killed" /\ log' = log \cup {"killed"}
      /\ kills' \in 0..MaxKills /\ rpc = "idle" /\ pos = 0 /\ cur \in Paths
      /\ UNCHANGED <<stack, cur, woff, wbuf, wleft, interrupted, len, gone, rpc, pos, rcur, rleft, roff,
                     used, made, out, faults, shorts, changes>>
  <2>1. ppc \notin {"done", "killed"} /\ ppc' = "killed" /\ log' = log \cup {"killed"}
    BY DEF KillPack, Note
  <2>2. kills' \in 0..MaxKills
    BY BoundAssumption DEF KillPack, TypeOK
  <2>3. rpc = "idle" /\ pos = 0
    BY <2>1, PackRuns
  <2>4. cur \in Paths
    BY DEF TypeOK
  <2>5. UNCHANGED <<stack, cur, woff, wbuf, wleft, interrupted, len, gone, rpc, pos, rcur, rleft, roff,
                    used, made, out, faults, shorts, changes>>
    BY DEF KillPack, treeVars, unpackVars
  <2> QED BY <2>1, <2>2, <2>3, <2>4, <2>5
<1>2. PICK e : Joined(pkg', pkg, e) /\ Broken(e)
  <2>1. CASE UNCHANGED pkg
    BY <2>1, Unchanged
  <2>2. CASE \E k \in 0..2, rest \in {<<>>, <<Torn>>} :
                pkg' = pkg \o SubSeq(Record("dir", 0, cur, 0), 1, k) \o rest
    <3>1. PICK r : r = Record("dir", 0, cur, 0)
      OBVIOUS
    <3>2. Framing(r)
      BY <1>1, <3>1, PathRecords
    <3>3. \E k \in 0..2, rest \in {<<>>, <<Torn>>} : pkg' = pkg \o SubSeq(r, 1, k) \o rest
      BY <2>2, <3>1
    <3> QED BY <3>2, <3>3, PieceWritten
  <2> QED BY <2>1, <2>2 DEF KillPack
<1>3. pkg' \in Seq(AnyUnit) /\ Len(pkg') \in Nat
  BY <1>2, JoinedLength
<1>4. TypeOK'
  <2>1. pos' \in 0..Len(pkg')
    BY <1>1, <1>3
  <2> QED BY <1>1, <1>3, <2>1 DEF TypeOK
<1>5. History' /\ Walk'
  BY <1>1 DEF History, Walk
<1>6. Live(pkg') = Live(pkg) /\ Written(pkg') = Written(pkg)
  BY <1>2, RecordsKept
<1>7. Known'
  BY <1>1, <1>2, KnownKept DEF PackInv
<1>8. ParentsFirst'
  BY <1>1, <1>2, <1>6, ParentsKept DEF PackInv
<1>9. OnStack'
  BY <1>1, <1>6 DEF PackInv, OnStack
<1> QED BY <1>1, <1>4, <1>5, <1>7, <1>8, <1>9
        DEF PackInv, Complete, NumbersBegin, Framed, Bad, Buffered, Contents

\* Somebody changes the tree.
LEMMA DisturbKeeps ==
    ASSUME IInv, Disturb PROVE TypeOK' /\ History' /\ Walk' /\ PackInv'
<1> USE DEF IInv
<1>1. /\ ppc \notin {"done", "killed"} /\ log' = log \cup {"tree"} /\ changes' \in 0..MaxChanges
      /\ rpc = "idle"
      /\ UNCHANGED <<ppc, stack, cur, woff, wbuf, wleft, pkg, interrupted, rpc, pos, rcur, rleft, roff,
                     used, made, out, faults, shorts, kills>>
  <2>1. changes' \in 0..MaxChanges
    BY BoundAssumption DEF Disturb, TypeOK
  <2> QED BY <2>1, PackRuns DEF Disturb, Note, packVars, unpackVars
<1>2. len' \in [Files -> Nat] /\ gone' \subseteq Files
  <2>1. len \in [Files -> Nat] /\ gone \subseteq Files
    BY DEF TypeOK
  <2>2. PICK p \in Files :
           \/ len' = [len EXCEPT ![p] = @ + 1] /\ UNCHANGED gone
           \/ len[p] > 0 /\ len' = [len EXCEPT ![p] = @ - 1] /\ UNCHANGED gone
           \/ gone' = gone \cup {p} /\ UNCHANGED len
    BY DEF Disturb
  <2>3. len[p] \in Nat /\ (len[p] > 0 => len[p] - 1 \in Nat)
    BY <2>1
  <2> QED BY <2>1, <2>2, <2>3
<1>3. TypeOK'
  BY <1>1, <1>2 DEF TypeOK
<1>4. History' /\ Walk'
  BY <1>1 DEF History, Walk
<1>5. Known' /\ ParentsFirst' /\ NumbersBegin' /\ Contents' /\ Written(pkg') = Written(pkg)
  BY <1>1, ArchiveKept
<1>6. OnStack'
  BY <1>1, <1>5 DEF PackInv, OnStack
<1> QED BY <1>1, <1>3, <1>4, <1>5, <1>6 DEF PackInv, Complete, Framed, Bad, Buffered

\* copy_file writes all of a block or a part of it, or fails.
LEMMA CopyWriteKeeps ==
    ASSUME IInv, CopyWrite PROVE TypeOK' /\ History' /\ Walk' /\ PackInv'
<1> USE DEF IInv
<1>1. /\ ppc = "write" /\ cur \in Files /\ stack # <<>> /\ rpc = "idle" /\ pos = 0
      /\ len[cur] \in Nat /\ woff \in Nat /\ wleft \in Nat /\ wleft >= 1
      /\ wbuf \in Seq(DataBytes) /\ wleft <= Len(wbuf) /\ Len(wbuf) \in Nat
      /\ UNCHANGED <<stack, cur, woff, wbuf, len, gone, rpc, pos, rcur, rleft, roff, used, made, out,
                     changes, kills>>
  <2>1. ppc = "write" /\ rpc = "idle" /\ pos = 0
    BY PackRuns DEF CopyWrite
  <2>2. cur \in Files /\ stack # <<>> /\ wleft >= 1
    BY <2>1 DEF Walk
  <2>3. len[cur] \in Nat /\ woff \in Nat
    BY <2>2 DEF TypeOK
  <2>4. wbuf \in Seq(DataBytes) /\ wleft \in Nat /\ wleft <= Len(wbuf) /\ Len(wbuf) \in Nat
    BY DEF TypeOK
  <2> QED BY <2>1, <2>2, <2>3, <2>4 DEF CopyWrite, treeVars, unpackVars
<1>2. Pending = len[cur] - woff + wleft
  BY <1>1 DEF Pending
<1>3. CASE \E n \in 1..wleft :
             /\ n < wleft => shorts < MaxShort
             /\ pkg' = pkg \o SubSeq(wbuf, WriteFrom, WriteFrom + n - 1)
             /\ wleft' = wleft - n
             /\ shorts' = IF n < wleft THEN shorts + 1 ELSE shorts
             /\ log' = log \cup (IF n < wleft THEN {"short"} ELSE {})
                           \cup (IF interrupted THEN {"pack"} ELSE {})
             /\ ppc' = IF interrupted THEN "finish" ELSE IF n = wleft THEN "read" ELSE "write"
             /\ UNCHANGED <<interrupted, faults>>
  <2>1. PICK n \in 1..wleft :
             /\ n < wleft => shorts < MaxShort
             /\ pkg' = pkg \o SubSeq(wbuf, WriteFrom, WriteFrom + n - 1)
             /\ wleft' = wleft - n
             /\ shorts' = IF n < wleft THEN shorts + 1 ELSE shorts
             /\ log' = log \cup (IF n < wleft THEN {"short"} ELSE {})
                           \cup (IF interrupted THEN {"pack"} ELSE {})
             /\ ppc' = IF interrupted THEN "finish" ELSE IF n = wleft THEN "read" ELSE "write"
             /\ UNCHANGED <<interrupted, faults>>
    BY <1>3
  <2>2. /\ n \in Nat /\ 1 <= n /\ n <= wleft /\ wleft' \in Nat /\ wleft' <= Len(wbuf)
        /\ n < wleft => wleft' >= 1
    BY <1>1, <2>1
  <2>3. PICK e : e = SubSeq(wbuf, WriteFrom, WriteFrom + n - 1)
    OBVIOUS
  <2>4. e \in Seq(DataBytes) /\ Len(e) <= n /\ n <= Len(e) /\ \A k \in 1..n : e[k] = wbuf[k]
    <3>4. PICK a \in Nat : a = 0
      OBVIOUS
    <3>1. Slice(e, wbuf, a, n)
      <4>1. WriteFrom = a + 1 /\ WriteFrom + n - 1 = a + n
        BY <2>2, <3>4 DEF WriteFrom
      <4> QED BY <2>3, <4>1 DEF Slice
    <3>2. AllIn(DataBytes, wbuf, a, n)
      BY <1>1, <2>2, <3>4 DEF AllIn
    <3>3. \A k \in 1..n : a + k = k
      BY <2>2, <3>4
    <3>5. /\ e \in Seq(DataBytes) /\ Len(e) <= n /\ n <= Len(e)
          /\ \A k \in 1..n : e[k] = wbuf[a + k]
      <4>1. a \in Nat
        BY <3>4
      <4>2. Sliced(DataBytes, e, wbuf, a, n)
        BY <2>2, <3>1, <3>2, <4>1, SliceProperties
      <4> QED BY <4>2 DEF Sliced
    <3> QED BY <3>3, <3>5
  <2>5. IsData(e) /\ Joined(pkg', pkg, e)
    <3>1. IsData(e)
      BY <2>4 DEF IsData
    <3> QED BY <2>1, <2>3, <3>1, DataIsUnits, JoinIs
  <2>6. pkg' \in Seq(AnyUnit) /\ Len(pkg') \in Nat /\ Len(e) \in Nat
    BY <2>5, JoinedLength
  <2>7. /\ log \subseteq log' /\ ppc' \in {"read", "write", "finish"}
        /\ ppc' = "finish" => "pack" \in log'
        /\ "pack" \notin log' => ppc' = IF n = wleft THEN "read" ELSE "write"
        /\ ppc' = "write" => n < wleft /\ "short" \in log'
        /\ log' \subseteq log \cup {"short", "pack"}
    <3>1. CASE interrupted
      BY <2>1, <3>1
    <3>2. CASE ~interrupted
      BY <1>1, <2>1, <2>2, <3>2
    <3> QED BY <3>1, <3>2
  <2>8. TypeOK'
    <3>1. log' \subseteq {"record", "pack", "readdir", "short", "killed", "tree", "unpack"}
      BY <2>7 DEF TypeOK
    <3>2. pos' \in 0..Len(pkg') /\ wleft' \in 0..Len(wbuf')
      BY <1>1, <2>2, <2>6
    <3>3. shorts' \in 0..MaxShort
      BY <2>1, BoundAssumption DEF TypeOK
    <3> QED BY <1>1, <2>1, <2>6, <2>7, <3>1, <3>2, <3>3 DEF TypeOK
  <2>9. History'
    <3>1. interrupted' => log' \cap {"pack", "record", "readdir"} # {}
      BY <2>1, <2>7 DEF History
    <3> QED BY <1>1, <2>7, <3>1 DEF History
  <2>10. Walk'
    BY <1>1, <2>2, <2>7 DEF Walk
  <2>11. Live(pkg') = Live(pkg) /\ Written(pkg') = Written(pkg)
    BY <2>5, RecordsKept
  <2>12. Known'
    BY <1>1, <2>5, KnownKept DEF PackInv
  <2>13. ParentsFirst'
    BY <2>5, <2>7, <2>11, ParentsKept DEF PackInv
  <2>14. OnStack'
    BY <1>1, <2>7, <2>11 DEF PackInv, OnStack
  <2>15. Complete'
    <3> SUFFICES ASSUME log' \cap {"record", "pack", "readdir", "tree"} = {}
                 PROVE  /\ Root \in Written(pkg)
                        /\ \A p \in Paths \ {Root} : Parent[p] \in Written(pkg) =>
                              p \in Written(pkg) \/ \E k \in 1..Len(stack) : p \in stack[k].todo
      BY <1>1, <2>7, <2>11 DEF Complete
    <3>1. log \cap {"record", "pack", "readdir", "tree"} = {}
      BY <2>7
    <3> QED BY <1>1, <3>1 DEF PackInv, Complete
  <2>16. NumbersBegin'
    <3>1. \A k \in 1..Len(e) : e[k].unit # "num"
      BY <2>5, DataIsUnits
    <3> QED BY <2>5, <2>7, <3>1, NumbersKept DEF PackInv
  <2>17. Framed'
    <3>1. log \cap Bad = {} /\ Len(e) > 0 => Len(pkg) > 0
      <4> SUFFICES ASSUME log \cap Bad = {} PROVE Len(pkg) > 0
        OBVIOUS
      <4>1. 1 \in 1..Len(stack)
        BY <1>1 DEF TypeOK
      <4>2. PICK i \in Live(pkg) : TRUE
        BY <4>1 DEF PackInv, OnStack, Bad, Written
      <4>3. pkg \in Seq(AnyUnit) /\ i \in Records(pkg)
        BY LiveRecords DEF TypeOK
      <4> QED BY <4>3, RecordBounds
    <3>2. ppc' \in {"read", "write"} =>
             ppc \in {"read", "write"} /\ cur' = cur /\ (log \cap Bad = {} => woff' <= len[cur])
      BY <1>1 DEF PackInv, Framed
    <3>3. log' \cap Bad = {} => Pending' = Pending - Len(e) /\ Pending \in Int
      <4> SUFFICES ASSUME log' \cap Bad = {} PROVE Pending' = Pending - Len(e) /\ Pending \in Int
        OBVIOUS
      <4>1. ppc' = IF n = wleft THEN "read" ELSE "write"
        BY <2>7 DEF Bad
      <4>2. PICK l \in Nat : l = Len(e)
        BY <2>6
      <4>3. l = n
        BY <2>2, <2>4, <2>6, <4>2
      <4>4. Pending' = Pending - n
        BY <1>1, <1>2, <2>1, <2>2, <4>1 DEF Pending
      <4> QED BY <1>1, <1>2, <4>2, <4>3, <4>4
    <3>4. Framed /\ UNCHANGED len /\ ppc # "done" /\ ppc' # "done"
      BY <1>1, <2>7 DEF PackInv
    <3> QED BY <2>5, <2>7, <3>1, <3>2, <3>3, <3>4, FramedData
  <2>18. Buffered'
    BY <2>7 DEF Buffered
  <2>19. Contents'
    <3> SUFFICES ASSUME log' \subseteq {"unpack"}, NEW i \in Live(pkg'), NEW k \in 1..pkg'[i].size,
                        i + 2 + k <= Len(pkg')
                 PROVE  pkg'[i + 2 + k] = Byte(pkg'[i + 1].path, k)
      BY DEF Contents
    <3>1. i \in Live(pkg) /\ log \subseteq {"unpack"} /\ log \cap Bad = {}
      BY <2>7, <2>11 DEF Bad
    <3>2. PICK m : m = woff - wleft
      OBVIOUS
    <3>3. m \in Int
      BY <1>1, <3>2
    <3>4. \A l \in 1..Len(e) : e[l] = Byte(cur, m + l)
      <4>1. ASSUME NEW l \in 1..Len(e) PROVE e[l] = Byte(cur, m + l)
        <5>1. l \in 1..n /\ l \in 1..Len(wbuf)
          BY <1>1, <2>2, <2>4, <2>6, <4>1
        <5>2. wbuf[l] = Byte(cur, woff - wleft + l)
          BY <1>1, <3>1, <5>1 DEF PackInv, Buffered
        <5> QED BY <2>4, <3>2, <5>1, <5>2
      <4> QED BY <4>1
    <3>5. DataEnd(pkg, i) <= Len(pkg) \/ Continues(i, m, e)
      <4>1. i \in Records(pkg) /\ pkg \in Seq(AnyUnit)
        BY <3>1, LiveRecords DEF TypeOK
      <4>2. /\ i \in Nat /\ Len(pkg) \in Nat /\ DataEnd(pkg, i) \in Nat
            /\ DataEnd(pkg, i) = i + 2 + pkg[i].size /\ pkg[i].size \in Nat
        BY <4>1, RecordBounds, RecordSize
      <4>3. CASE Closed(i)
        BY <4>2, <4>3 DEF Closed
      <4>4. CASE Open(i)
        <5>1. DataEnd(pkg, i) = Len(pkg) + Pending /\ pkg[i + 1].path = cur
          BY <1>1, <4>4 DEF Open
        <5>2. pkg[i].type \in {"dir", "file"}
          BY <3>1 DEF PackInv, Known, Names
        <5>3. Fits(pkg[i].type, pkg[i].size, pkg[i + 1].path)
          BY <3>1 DEF PackInv, Framed
        <5>4. pkg[i].size = len[cur]
          BY <1>1, <5>1, <5>2, <5>3, TreeAssumption DEF Fits
        <5>5. PICK q \in Nat : q = Len(pkg)
          BY <4>2
        <5>6. i + 2 + len[cur] = q + Pending
          BY <4>2, <5>1, <5>4, <5>5
        <5>8. PICK c \in Nat : c = len[cur]
          BY <1>1
        <5>9. i + 2 + c = q + (c - woff + wleft)
          BY <1>2, <5>6, <5>8
        <5>10. i \in Nat /\ c \in Nat /\ q \in Nat /\ woff \in Nat /\ wleft \in Nat
          BY <1>1, <4>2, <5>5, <5>8
        <5>7. i + 2 = q - m
          BY <3>2, <5>9, <5>10
        <5> QED BY <3>4, <5>1, <5>5, <5>7 DEF Continues
      <4> QED BY <3>1, <4>3, <4>4 DEF PackInv, Framed
    <3>6. Contents
      BY DEF PackInv
    <3> QED BY <2>5, <3>1, <3>3, <3>5, <3>6, ContentsOld
  <2> QED BY <2>8, <2>9, <2>10, <2>12, <2>13, <2>14, <2>15, <2>16, <2>17, <2>18, <2>19 DEF PackInv
<1>4. CASE PackFault /\ Note("pack") /\ ppc' = "finish" /\ UNCHANGED <<pkg, wleft, shorts>>
  <2>1. log' = log \cup {"pack"} /\ faults' \in 0..MaxFaults /\ interrupted' \in BOOLEAN
    BY <1>4, FaultType DEF Note, PackFault
  <2>2. PackInv'
    BY <1>1, <1>4, <2>1, PackFailed
  <2>3. TypeOK'
    BY <1>1, <1>4, <2>1 DEF TypeOK
  <2> QED BY <1>1, <1>4, <2>1, <2>2, <2>3 DEF History, Walk
<1> QED BY <1>1, <1>3, <1>4 DEF CopyWrite

-----------------------------------------------------------------------------
(***************************************************************************)
(* What unpack reads and writes                                            *)
(***************************************************************************)
LEMMA Smallest ==
    ASSUME NEW T, T \subseteq Nat, T # {} PROVE \E m \in T : \A k \in T : m <= k
<1>1. PICK R : R = OpToRel(<, Nat)
  BY Zenon
<1>2. IsWellFoundedOn(R, Nat)
  BY <1>1, NatLessThanWellFounded, Zenon
<1>3. PICK m \in T : \A k \in T : ~(<<k, m>> \in R)
  BY <1>2, WFMin
<1>4. ASSUME NEW k \in T PROVE m <= k
  <2>1. ~(<<k, m>> \in R)
    BY <1>3
  <2>2. k \in Nat /\ m \in Nat
    BY <1>3
  <2> QED BY <1>1, <2>1, <2>2 DEF OpToRel
<1> QED BY <1>4

\* The run of data bytes at the offset.
LEMMA BytesAhead ==
    ASSUME pos \in Nat, NEW n \in Nat
    PROVE  /\ Bytes(n) \in 0..n
           /\ \A i \in 1..Bytes(n) : At(pos + i) = "byte"
           /\ Bytes(n) = n \/ At(pos + Bytes(n) + 1) # "byte"
<1> DEFINE T == {k \in 0..n : k = n \/ At(pos + k + 1) # "byte"}
<1>1. PICK m \in T : \A k \in T : m <= k
  <2>1. n \in T /\ T \subseteq Nat
    OBVIOUS
  <2> HIDE DEF T
  <2> QED BY <2>1, Smallest
<1>2. m \in 0..n /\ (m = n \/ At(pos + m + 1) # "byte")
  BY <1>1
<1>3. ASSUME NEW i \in 1..m PROVE At(pos + i) = "byte"
  <2>1. i - 1 \in 0..n /\ ~(m <= i - 1) /\ i - 1 # n /\ pos + (i - 1) + 1 = pos + i
    BY <1>2, <1>3
  <2>2. ~(i - 1 \in T)
    BY <1>1, <2>1
  <2> QED BY <2>1, <2>2
<1>4. \E k \in 0..n : /\ \A i \in 1..k : At(pos + i) = "byte"
                      /\ k = n \/ At(pos + k + 1) # "byte"
  BY <1>2, <1>3
<1> QED BY <1>4 DEF Bytes

\* c is the data x with the data b behind it.
Glued(c, x, b) == x \in Seq(DataBytes) /\ b \in Seq(DataBytes) /\ c = x \o b

\* The m bytes of x and the n of b, in c.
Extends(c, x, m, b, n) ==
    /\ c \in Seq(DataBytes) /\ Len(c) <= m + n /\ m + n <= Len(c)
    /\ \A i \in 1..m + n : (i <= m => c[i] = x[i]) /\ (m < i => c[i] = b[i - m])

\* They are all there.
LEMMA GluedProperties ==
    ASSUME NEW c, NEW x, NEW b, Glued(c, x, b), NEW m \in Nat, NEW n \in Nat,
           Len(x) <= m, m <= Len(x), Len(b) <= n, n <= Len(b)
    PROVE  Extends(c, x, m, b, n)
<1>1. x \in Seq(DataBytes) /\ b \in Seq(DataBytes) /\ c = x \o b
  BY DEF Glued
<1>2. Len(x) = m /\ Len(b) = n
  <2>1. Len(x) \in Nat /\ Len(b) \in Nat
    BY <1>1
  <2> QED BY <2>1
<1>3. /\ x \o b \in Seq(DataBytes) /\ Len(x \o b) = Len(x) + Len(b)
      /\ \A i \in 1..Len(x) + Len(b) : (x \o b)[i] = IF i <= Len(x) THEN x[i] ELSE b[i - Len(x)]
  BY <1>1, ConcatProperties
<1> QED BY <1>1, <1>2, <1>3 DEF Extends

\* c is the file content o after a write of the bytes b at the offset a.
Over(c, o, b, a) ==
    /\ o \in Seq(DataBytes) /\ b \in Seq(DataBytes) /\ a \in Nat /\ a <= Len(o)
    /\ c = SubSeq(o, 1, a) \o b \o SubSeq(o, a + Len(b) + 1, Len(o))

\* It is the longer of the two, and has the bytes of b from a on.
Laid(c, o, b, a) ==
    /\ c \in Seq(DataBytes)
    /\ Len(c) \in Nat /\ Len(o) \in Nat /\ Len(b) \in Nat
    /\ a + Len(b) <= Len(c) /\ Len(o) <= Len(c)
    /\ Len(c) <= Len(o) \/ Len(c) <= a + Len(b)
    /\ \A i \in 1..Len(c) :
          /\ i <= a => c[i] = o[i]
          /\ a < i /\ i <= a + Len(b) => c[i] = b[i - a]
          /\ a + Len(b) < i => c[i] = o[i] /\ i <= Len(o)

\* A write at an offset within the file does that.
LEMMA OverProperties ==
    ASSUME NEW c, NEW o, NEW b, NEW a, Over(c, o, b, a)
    PROVE  Laid(c, o, b, a)
<1>1. PICK m \in Nat, n \in Nat : m <= Len(b) /\ Len(b) <= m /\ n <= Len(o) /\ Len(o) <= n
  <2>1. Len(b) \in Nat /\ Len(o) \in Nat
    BY DEF Over
  <2> QED BY <2>1
<1>2. o \in Seq(DataBytes) /\ b \in Seq(DataBytes) /\ a \in Nat /\ a <= n
  BY <1>1 DEF Over
<1>3. Len(b) = m /\ Len(o) = n
  <2>1. Len(b) \in Nat /\ Len(o) \in Nat
    BY <1>2
  <2> QED BY <1>1, <2>1
<1>4. \A i \in 1..n : o[i] \in DataBytes
  BY <1>2, <1>3
<1>5. PICK x, z : x = SubSeq(o, 1, a) /\ z = SubSeq(o, a + m + 1, n)
  OBVIOUS
<1>6. x \in Seq(DataBytes) /\ Len(x) <= a /\ a <= Len(x) /\ \A k \in 1..a : x[k] = o[k]
  <2>1. PICK w \in Nat : w = 0
    OBVIOUS
  <2>2. Slice(x, o, w, a)
    BY <1>2, <1>5, <2>1 DEF Slice
  <2>3. AllIn(DataBytes, o, w, a)
    BY <1>1, <1>2, <1>4, <2>1 DEF AllIn
  <2>4. x \in Seq(DataBytes) /\ Len(x) <= a /\ a <= Len(x) /\ \A k \in 1..a : x[k] = o[w + k]
    <3>1. w \in Nat
      BY <2>1
    <3>2. Sliced(DataBytes, x, o, w, a)
      BY <1>2, <2>2, <2>3, <3>1, SliceProperties
    <3> QED BY <3>2 DEF Sliced
  <2>5. \A k \in 1..a : w + k = k
    BY <1>2, <2>1
  <2> QED BY <2>4, <2>5
<1>7. PICK l \in Nat :
         /\ z \in Seq(DataBytes) /\ Len(z) <= l /\ l <= Len(z)
         /\ \A k \in 1..l : z[k] = o[a + m + k]
         /\ (a + m <= n /\ a + m + l = n) \/ (n < a + m /\ l = 0)
  <2>1. CASE a + m <= n
    <3>1. PICK l \in Nat : a + m + l = n
      <4>1. n - (a + m) \in Nat /\ a + m + (n - (a + m)) = n
        BY <1>1, <1>2, <2>1
      <4> QED BY <4>1
    <3>2. PICK w \in Nat : w = a + m
      BY <1>1, <1>2
    <3>3. Slice(z, o, w, l)
      BY <1>5, <3>1, <3>2 DEF Slice
    <3>4. AllIn(DataBytes, o, w, l)
      BY <1>1, <1>2, <1>4, <3>1, <3>2 DEF AllIn
    <3>5. z \in Seq(DataBytes) /\ Len(z) <= l /\ l <= Len(z) /\ \A k \in 1..l : z[k] = o[w + k]
      <4>1. w \in Nat /\ l \in Nat
        BY <3>1, <3>2
      <4>2. Sliced(DataBytes, z, o, w, l)
        BY <3>3, <3>4, <4>1, SliceProperties
      <4> QED BY <4>2 DEF Sliced
    <3> QED BY <2>1, <3>1, <3>2, <3>5
  <2>2. CASE ~(a + m <= n)
    <3>1. z = <<>>
      BY <1>1, <1>2, <1>5, <2>2, SubSeqEmpty
    <3>2. PICK l \in Nat : l = 0
      OBVIOUS
    <3>3. z \in Seq(DataBytes) /\ Len(z) <= l /\ l <= Len(z)
      BY <3>1, <3>2
    <3>4. n < a + m /\ \A k \in 1..l : FALSE
      BY <1>1, <1>2, <2>2, <3>2
    <3> QED BY <3>2, <3>3, <3>4
  <2> QED BY <2>1, <2>2
<1>8. c = (x \o b) \o z
  BY <1>3, <1>5 DEF Over
<1>9. PICK y : y = x \o b
  OBVIOUS
<1>14. PICK w \in Nat : w = a + m
  BY <1>1, <1>2
<1>15. a \in Nat /\ m \in Nat /\ n \in Nat /\ w \in Nat /\ l \in Nat
  BY <1>1, <1>2, <1>7, <1>14
<1>10. /\ y \in Seq(DataBytes) /\ Len(y) <= w /\ w <= Len(y)
       /\ \A i \in 1..w : (i <= a => y[i] = o[i]) /\ (a < i => y[i] = b[i - a])
  <2>1. Glued(y, x, b)
    BY <1>2, <1>6, <1>9 DEF Glued
  <2>2. /\ y \in Seq(DataBytes) /\ Len(y) <= a + m /\ a + m <= Len(y)
        /\ \A i \in 1..a + m : (i <= a => y[i] = x[i]) /\ (a < i => y[i] = b[i - a])
    <3>1. Len(b) <= m /\ m <= Len(b)
      BY <1>1
    <3>2. Extends(y, x, a, b, m)
      BY <1>6, <1>15, <2>1, <3>1, GluedProperties
    <3> QED BY <3>2 DEF Extends
  <2> QED BY <1>6, <1>14, <1>15, <2>2
<1>11. /\ c \in Seq(DataBytes) /\ Len(c) <= w + l /\ w + l <= Len(c)
       /\ \A i \in 1..w + l : (i <= w => c[i] = y[i]) /\ (w < i => c[i] = z[i - w])
  <2>1. Glued(c, y, z)
    BY <1>7, <1>8, <1>9, <1>10 DEF Glued
  <2>2. Len(y) <= w /\ w <= Len(y) /\ Len(z) <= l /\ l <= Len(z)
    BY <1>7, <1>10
  <2>3. Extends(c, y, w, z, l)
    BY <1>15, <2>1, <2>2, GluedProperties
  <2> QED BY <2>3 DEF Extends
<1>12. Len(c) \in Nat
  BY <1>11
<1>13. ASSUME NEW i \in 1..w + l
       PROVE  /\ i <= a => c[i] = o[i]
              /\ a < i /\ i <= w => c[i] = b[i - a]
              /\ w < i => c[i] = o[i] /\ i <= n
  <2>1. CASE i <= w
    BY <1>10, <1>11, <1>14, <1>15, <2>1
  <2>2. CASE w < i
    <3>1. PICK k \in 1..l : k = i - w /\ w + k = i
      BY <1>15, <2>2
    <3>2. c[i] = z[k] /\ z[k] = o[i]
      BY <1>7, <1>11, <1>14, <1>15, <2>2, <3>1
    <3> QED BY <1>7, <1>14, <1>15, <2>2, <3>1, <3>2
  <2> QED BY <1>15, <2>1, <2>2
<1>16. /\ a + m <= Len(c) /\ n <= Len(c) /\ (Len(c) <= n \/ Len(c) <= a + m)
       /\ \A i \in 1..Len(c) : i \in 1..w + l
  BY <1>7, <1>11, <1>12, <1>14, <1>15
<1> QED BY <1>3, <1>11, <1>12, <1>13, <1>14, <1>15, <1>16 DEF Laid

-----------------------------------------------------------------------------
(***************************************************************************)
(* The steps of unpack                                                     *)
(***************************************************************************)
\* unpack leaves pack's side of the state alone.
LEMMA PackSideKept ==
    ASSUME Walk, PackInv, UNCHANGED <<packVars, treeVars>>, log' \in {log, log \cup {"unpack"}}
    PROVE  Walk' /\ PackInv'
<1>1. UNCHANGED <<ppc, stack, cur, woff, wbuf, wleft, pkg, interrupted, len, gone>>
  BY DEF packVars, treeVars
<1>2. log \subseteq log' /\ log' \subseteq log \cup {"unpack"}
  OBVIOUS
<1>3. Walk'
  BY <1>1 DEF Walk
<1>4. Known' /\ ParentsFirst' /\ NumbersBegin' /\ Contents' /\ Written(pkg') = Written(pkg)
  BY <1>1, <1>2, ArchiveKept
<1>5. OnStack' /\ Complete'
  BY <1>1, <1>2 DEF PackInv, OnStack, Complete
<1>6. Buffered'
  BY <1>1, <1>2 DEF PackInv, Buffered
<1>7. Framed'
  <2>1. Pending' = Pending
    BY <1>1 DEF Pending
  <2>2. log' \cap Bad = {} => log \cap Bad = {}
    BY <1>2
  <2>3. ASSUME NEW i \in Live(pkg), Closed(i) \/ Open(i) PROVE Closed(i)' \/ Open(i)'
    BY <1>1, <2>1, <2>3 DEF Closed, Open
  <2>4. ASSUME NEW i \in Live(pkg), Fits(pkg[i].type, pkg[i].size, pkg[i + 1].path)
        PROVE  Fits(pkg[i].type, pkg[i].size, pkg[i + 1].path)'
    BY <1>1, <2>4 DEF Fits
  <2> QED BY <1>1, <2>2, <2>3, <2>4 DEF PackInv, Framed
<1> QED BY <1>3, <1>4, <1>5, <1>6, <1>7 DEF PackInv

\* unpack is started over what pack has left.
LEMMA StartUnpackKeeps ==
    ASSUME IInv, StartUnpack PROVE IInv'
<1>1. /\ TypeOK /\ History /\ Walk /\ PackInv /\ rpc = "idle" /\ ppc \in {"done", "killed"}
      /\ rpc' = "record" /\ pos = 0 /\ made = {}
      /\ UNCHANGED <<ppc, stack, cur, woff, wbuf, wleft, interrupted, len, gone, pos, rcur, rleft, roff,
                     made, log, faults, shorts, changes, kills>>
  BY DEF IInv, StartUnpack, History, treeVars, budgets
<1>2. PICK e \in Tails : pkg' = pkg \o e
  BY DEF StartUnpack
<1>3. Broken(e) /\ Joined(pkg', pkg, e)
  BY <1>1, <1>2, BrokenTails, JoinIs DEF Broken
<1>4. \A k \in 1..Len(e) : e[k].unit # "num"
  <2>1. CASE e = <<>>
    BY <2>1
  <2>2. CASE e = <<Torn>>
    BY <2>2, TornUnit
  <2> QED BY <1>2, <2>1, <2>2 DEF Tails
<1>5. pkg' \in Seq(AnyUnit) /\ Len(pkg') \in Nat
  BY <1>3, JoinedLength
<1>6. used' \in BOOLEAN /\ out' = [p \in Files |-> Older(p)']
  BY DEF StartUnpack
<1>7. ASSUME NEW p \in Files
      PROVE  Older(p)' \in Seq(DataBytes) /\ \A i \in 1..Len(Older(p)') : Older(p)'[i] = Byte("older", i)
  <2>1. OldLen[p] \in Nat
    BY <1>7, TreeAssumption
  <2>2. \A i \in 1..OldLen[p] : Byte("older", i) \in DataBytes
    BY <2>1 DEF Byte, DataBytes
  <2>3. CASE used'
    <3>1. Older(p)' = [i \in 1..OldLen[p] |-> Byte("older", i)]
      BY <2>3 DEF Older
    <3> QED BY <2>1, <2>2, <3>1
  <2>4. CASE ~used'
    <3>1. Older(p)' = <<>>
      BY <2>4 DEF Older
    <3> QED BY <3>1
  <2> QED BY <2>3, <2>4
<1>8. TypeOK'
  <2>1. out' \in [Files -> Seq(DataBytes)]
    BY <1>6, <1>7
  <2>2. pos' \in 0..Len(pkg')
    BY <1>1, <1>5
  <2> QED BY <1>1, <1>5, <1>6, <2>1, <2>2 DEF TypeOK
<1>9. History' /\ Walk'
  BY <1>1 DEF History, Walk
<1>10. PackInv'
  <2>1. Live(pkg') = Live(pkg) /\ Written(pkg') = Written(pkg)
    BY <1>3, RecordsKept
  <2>2. Known'
    BY <1>1, <1>3, KnownKept DEF PackInv
  <2>3. ParentsFirst'
    BY <1>1, <1>3, <2>1, ParentsKept DEF PackInv
  <2>4. OnStack' /\ Complete'
    BY <1>1, <2>1 DEF PackInv, OnStack, Complete
  <2>5. NumbersBegin'
    BY <1>1, <1>3, <1>4, NumbersKept DEF PackInv
  <2>6. Framed'
    <3>1. log \cap Bad = {} => ppc = "done" /\ ppc' = "done"
      BY <1>1 DEF History, Bad
    <3> QED BY <1>1, <1>3, <3>1, FramedTail DEF PackInv
  <2>7. Contents'
    <3>1. log' \subseteq {"unpack"} => AllThere
      BY <1>1, DataWritten DEF PackInv, Pending
    <3>2. Contents /\ log \subseteq log'
      BY <1>1 DEF PackInv
    <3> QED BY <1>3, <2>1, <3>1, <3>2, ContentsKept
  <2> QED BY <1>1, <2>2, <2>3, <2>4, <2>5, <2>6, <2>7 DEF PackInv, Buffered
<1>11. Read'
  <2>1. ASSUME NEW i \in Live(pkg') PROVE ~(i + 2 <= pos')
    <3>1. i \in Records(pkg')
      BY <2>1, LiveRecords
    <3>2. i \in Nat /\ 1 <= i
      BY <1>5, <3>1, RecordBounds
    <3> QED BY <1>1, <3>2
  <2> QED BY <1>1, <2>1 DEF Read
<1>12. AtRecord'
  <2> SUFFICES ASSUME log \cap Bad = {} PROVE pos' < Len(pkg') /\ pkg'[pos' + 1].unit = "num"
    BY <1>1 DEF AtRecord
  <2>1. ppc' = "done" /\ log' \cap Bad = {}
    BY <1>1 DEF History, Bad
  <2>2. Len(pkg') > 0 /\ pkg'[1].unit = "num"
    BY <1>10, <2>1 DEF PackInv, Framed
  <2>3. pos' + 1 = 1 /\ pos' = 0
    BY <1>1
  <2> QED BY <2>2, <2>3
<1>13. Blamed'
  BY <1>1 DEF Blamed
<1>14. Target'
  <2>1. ASSUME NEW p \in Files
        PROVE  /\ Len(Older(p)') <= Len(out'[p])
               /\ Len(out'[p]) = Len(Older(p)')
               /\ \A i \in len'[p] + 1..Len(out'[p]) : out'[p][i] = Byte("older", i)
    <3>1. out'[p] = Older(p)'
      BY <1>6, <2>1
    <3>2. len'[p] \in Nat
      BY <1>8, <2>1 DEF TypeOK
    <3>3. Len(Older(p)') \in Nat
      BY <1>7, <2>1
    <3> QED BY <1>7, <2>1, <3>1, <3>2, <3>3
  <2> QED BY <1>1, <2>1 DEF Target
<1> QED BY <1>8, <1>9, <1>10, <1>11, <1>12, <1>13, <1>14 DEF IInv, UnpackInv

\* A call of unpack fails.
LEMMA UnpackFailsKeeps ==
    ASSUME IInv, UnpackFails PROVE IInv'
<1>1. /\ TypeOK /\ History /\ Walk /\ PackInv /\ Read /\ AtRecord /\ Blamed /\ Target
      /\ rpc \in {"record", "data"} /\ rpc' = "fail" /\ log' = log \cup {"unpack"}
      /\ UNCHANGED <<packVars, treeVars>>
      /\ UNCHANGED <<pos, rcur, rleft, roff, used, made, out, shorts, changes, kills>>
  BY DEF IInv, UnpackInv, UnpackFails, Note
<1>2. UNCHANGED <<ppc, stack, cur, woff, wbuf, wleft, pkg, interrupted, len, gone>>
  BY <1>1 DEF packVars, treeVars
<1>3. Walk' /\ PackInv'
  BY <1>1, PackSideKept
<1>4. faults' \in 0..MaxFaults
  BY <1>1, FaultType DEF UnpackFails
<1>5. TypeOK'
  BY <1>1, <1>2, <1>4 DEF TypeOK, Ended
<1>6. History'
  BY <1>1, <1>2 DEF History
<1>7. Read' /\ AtRecord' /\ Blamed'
  BY <1>1, <1>2 DEF Read, AtRecord, Blamed
<1>8. Target'
  <2>1. log' \cap Bad = {} => log \cap Bad = {}
    BY <1>1
  <2>2. \A p \in Files : Older(p)' = Older(p)
    BY <1>1 DEF Older
  <2> QED BY <1>1, <1>2, <2>1, <2>2 DEF Target
<1> QED BY <1>3, <1>5, <1>6, <1>7, <1>8 DEF IInv, UnpackInv

\* unpack is run again.
LEMMA RestartKeeps ==
    ASSUME IInv, Restart PROVE IInv'
<1>1. /\ TypeOK /\ History /\ Walk /\ PackInv /\ Read /\ AtRecord /\ Blamed /\ Target
      /\ rpc \in {"record", "data", "fail"} /\ rpc' = "record" /\ pos' = 0 /\ made' = {}
      /\ rcur' = Root /\ rleft' = 0 /\ roff' = 0
      /\ UNCHANGED <<packVars, treeVars>>
      /\ UNCHANGED <<used, out, log, faults, shorts, changes>>
  BY DEF IInv, UnpackInv, Restart
<1>2. UNCHANGED <<ppc, stack, cur, woff, wbuf, wleft, pkg, interrupted, len, gone>>
  BY <1>1 DEF packVars, treeVars
<1>3. Walk' /\ PackInv'
  BY <1>1, PackSideKept
<1>4. TypeOK'
  <2>1. kills' \in 0..MaxKills
    BY <1>1, BoundAssumption DEF Restart, TypeOK
  <2>2. Root \in Paths
    BY TreeAssumption DEF Paths
  <2>3. pos' \in 0..Len(pkg')
    BY <1>1, <1>2 DEF TypeOK
  <2> QED BY <1>1, <1>2, <2>1, <2>2, <2>3 DEF TypeOK
<1>5. History'
  BY <1>1, <1>2 DEF History
<1>6. Read'
  <2>1. ASSUME NEW i \in Live(pkg') PROVE ~(i + 2 <= pos')
    <3>1. i \in Records(pkg') /\ pkg' \in Seq(AnyUnit)
      BY <1>4, <2>1, LiveRecords DEF TypeOK
    <3>2. i \in Nat /\ 1 <= i
      BY <3>1, RecordBounds
    <3> QED BY <1>1, <3>2
  <2> QED BY <1>1, <2>1 DEF Read
<1>7. AtRecord'
  <2> SUFFICES ASSUME log \cap Bad = {} PROVE pos' < Len(pkg') /\ pkg'[pos' + 1].unit = "num"
    BY <1>1 DEF AtRecord
  <2>1. ppc = "done"
    BY <1>1 DEF History, Bad
  <2>2. Len(pkg) > 0 /\ pkg[1].unit = "num"
    BY <1>1, <2>1 DEF PackInv, Framed
  <2>3. pos' + 1 = 1 /\ pos' = 0
    BY <1>1
  <2> QED BY <1>2, <2>2, <2>3
<1>8. Blamed'
  BY <1>1 DEF Blamed
<1>9. Target'
  <2>1. \A p \in Files : Older(p)' = Older(p)
    BY <1>1 DEF Older
  <2> QED BY <1>1, <1>2, <2>1 DEF Target
<1> QED BY <1>3, <1>4, <1>5, <1>6, <1>7, <1>8, <1>9 DEF IInv, UnpackInv

\* Records do not overlap.
LEMMA Apart ==
    ASSUME NEW q, q \in Seq(AnyUnit), NEW i \in Records(q), NEW j \in Records(q), i < j
    PROVE  i + 2 < j
<1>1. i \in Nat /\ j \in Nat
  BY RecordBounds
<1>2. q[j].unit = "num" /\ q[i + 1].unit = "path" /\ q[i + 2].unit = "flag"
  BY DEF Records
<1>3. j # i + 1 /\ j # i + 2
  BY <1>2
<1> QED BY <1>1, <1>3

\* In front of unpack is a whole record, or its numbers, when nothing is lost.
LEMMA AtHead ==
    ASSUME TypeOK, pos < Len(pkg), pkg[pos + 1].unit = "num", NumbersBegin,
           log \cap {"record", "killed"} = {}
    PROVE  Units = <<"num", "path", "flag">>
<1>1. pkg \in Seq(AnyUnit) /\ Len(pkg) \in Nat /\ pos \in Nat
  BY DEF TypeOK
<1>2. pos + 1 \in 1..Len(pkg)
  BY <1>1
<1>3. pos + 1 \in Records(pkg)
  BY <1>2 DEF NumbersBegin
<1>4. /\ pos + 1 + 2 <= Len(pkg) /\ pkg[pos + 1 + 1].unit = "path" /\ pkg[pos + 1 + 2].unit = "flag"
  BY <1>3 DEF Records
<1>5. pos + 1 + 1 = pos + 2 /\ pos + 1 + 2 = pos + 3
  BY <1>1
<1>6. At(pos + 1) = "num" /\ At(pos + 2) = "path" /\ At(pos + 3) = "flag"
  BY <1>1, <1>4, <1>5 DEF At
<1> QED BY <1>6 DEF Units

\* What read_file_info takes for a record is one.
LEMMA RecordRead ==
    ASSUME TypeOK, Units = <<"num", "path", "flag">>
    PROVE  /\ pos + 1 \in Records(pkg) /\ pos + 3 <= Len(pkg) /\ pos \in Nat /\ Len(pkg) \in Nat
           /\ pkg[pos + 3].value # 1 => pos + 1 \in Live(pkg)
           /\ pkg[pos + 3].value = 1 => pos + 1 \notin Live(pkg)
<1>1. pkg \in Seq(AnyUnit) /\ Len(pkg) \in Nat /\ pos \in Nat
  BY DEF TypeOK
<1>2. At(pos + 1) = "num" /\ At(pos + 2) = "path" /\ At(pos + 3) = "flag"
  BY DEF Units
<1>3. /\ pos + 3 <= Len(pkg) /\ pkg[pos + 1].unit = "num" /\ pkg[pos + 2].unit = "path"
      /\ pkg[pos + 3].unit = "flag"
  BY <1>1, <1>2 DEF At
<1>4. pos + 1 + 1 = pos + 2 /\ pos + 1 + 2 = pos + 3
  BY <1>1
<1>5. pos + 1 \in Records(pkg)
  BY <1>1, <1>3, <1>4 DEF Records
<1> QED BY <1>1, <1>3, <1>4, <1>5 DEF Live

\* Records before the one read have been read before.
LEMMA ReadBefore ==
    ASSUME TypeOK, pos + 1 \in Records(pkg), NEW i \in Records(pkg), i + 2 <= pos + 3, i # pos + 1
    PROVE  i + 2 <= pos
<1>1. pkg \in Seq(AnyUnit) /\ pos \in Nat
  BY DEF TypeOK
<1>2. i \in Nat
  BY <1>1, RecordBounds
<1>3. i < pos + 1
  BY <1>1, <1>2
<1>4. i + 2 < pos + 1
  BY <1>1, <1>3, Apart
<1> QED BY <1>1, <1>2, <1>4

\* What unpack does with a record it has read.
LEMMA AfterRecord ==
    ASSUME ReadRecord, Units = <<"num", "path", "flag">>
    PROVE  /\ pos' = pos + 3
           /\ \/ pkg[pos + 3].value = 1 /\ rpc' = "ok" /\ UNCHANGED <<rcur, rleft, roff, made>>
              \/ /\ pkg[pos + 3].value # 1 /\ ~Reachable(pkg[pos + 2].path)
                 /\ rpc' = "orphan" /\ UNCHANGED <<rcur, rleft, roff, made>>
              \/ /\ pkg[pos + 3].value # 1 /\ pkg[pos + 1].type = "dir"
                 /\ rpc' = "record" /\ made' = made \cup {pkg[pos + 2].path}
                 /\ UNCHANGED <<rcur, rleft, roff>>
              \/ /\ pkg[pos + 3].value # 1 /\ pkg[pos + 1].type # "dir" /\ pkg[pos + 2].path \in Dirs
                 /\ rpc' \in {"fail", "record", "misread"} /\ made' = made \cup {pkg[pos + 2].path}
                 /\ UNCHANGED <<rcur, rleft, roff>>
              \/ /\ pkg[pos + 3].value # 1 /\ pkg[pos + 1].type # "dir" /\ pkg[pos + 2].path \notin Dirs
                 /\ rpc' = "data" /\ rcur' = pkg[pos + 2].path /\ rleft' = pkg[pos + 1].size /\ roff' = 0
                 /\ made' = made \cup {pkg[pos + 2].path}
<1>1. ~CutAtNumber /\ ~WaitsForPath
  <2>1. Units[1] = "num" /\ Units[2] = "path" /\ Units[3] = "flag"
    OBVIOUS
  <2> QED BY <2>1 DEF CutAtNumber, WaitsForPath
<1> QED BY <1>1 DEF ReadRecord, AfterDirAsFile

\* unpack reads a record, or what it takes for one.
LEMMA ReadRecordKeeps ==
    ASSUME IInv, ReadRecord PROVE IInv'
<1>1. /\ TypeOK /\ History /\ Walk /\ PackInv /\ Read /\ AtRecord /\ Blamed /\ Target
      /\ rpc = "record" /\ ppc \in {"done", "killed"}
      /\ UNCHANGED <<packVars, treeVars>>
      /\ UNCHANGED <<used, out, log, faults, shorts, changes, kills>>
  BY DEF IInv, UnpackInv, ReadRecord, History, budgets
<1>2. UNCHANGED <<ppc, stack, cur, woff, wbuf, wleft, pkg, interrupted, len, gone>>
  BY <1>1 DEF packVars, treeVars
<1>3. Walk' /\ PackInv'
  BY <1>1, PackSideKept
<1>4. pkg \in Seq(AnyUnit) /\ Len(pkg) \in Nat /\ pos \in Nat /\ pos <= Len(pkg)
  BY <1>1 DEF TypeOK
<1>5. log \cap Bad = {} => ppc = "done"
  BY <1>1 DEF History, Bad
<1>6. \A p \in Files : Older(p)' = Older(p)
  BY <1>1 DEF Older
<1>7. ASSUME rpc' \in {"fail", "spin", "misread", "orphan"}, UNCHANGED <<pos, rcur, rleft, roff, made>>
      PROVE  TypeOK' /\ History' /\ Read' /\ AtRecord' /\ Target'
  <2>1. TypeOK'
    BY <1>1, <1>2, <1>7 DEF TypeOK, Ended
  <2>2. History'
    BY <1>1, <1>2, <1>7 DEF History
  <2>3. Read' /\ AtRecord'
    BY <1>1, <1>2, <1>7 DEF Read, AtRecord
  <2>4. Target'
    BY <1>1, <1>2, <1>6, <1>7 DEF Target
  <2> QED BY <2>1, <2>2, <2>3, <2>4
<1>8. CASE /\ CutAtNumber /\ rpc' = "fail" /\ UNCHANGED <<pos, rcur, rleft, roff, made>>
  <2>1. ~(Units = <<"num", "path", "flag">>)
    BY <1>8 DEF CutAtNumber
  <2>2. log \cap Bad # {}
    BY <1>1, <2>1, AtHead DEF PackInv, AtRecord, Bad
  <2>3. Blamed'
    BY <1>1, <1>8, <2>2 DEF Blamed
  <2> QED BY <1>3, <1>7, <1>8, <2>3 DEF IInv, UnpackInv
<1>9. CASE /\ WaitsForPath /\ rpc' = "spin" /\ UNCHANGED <<pos, rcur, rleft, roff, made>>
  <2>1. Units[1] = "num" /\ Units[2] = "eof"
    BY <1>9 DEF WaitsForPath
  <2>2. At(pos + 1) = "num"
    BY <2>1 DEF Units
  <2>3. pos < Len(pkg) /\ pkg[pos + 1].unit = "num"
    BY <1>4, <2>2 DEF At
  <2>4. log \cap {"record", "killed"} # {}
    BY <1>1, <2>1, <2>3, AtHead DEF PackInv
  <2>5. Blamed'
    BY <1>1, <1>9, <2>4 DEF Blamed
  <2> QED BY <1>3, <1>7, <1>9, <2>5 DEF IInv, UnpackInv
<1>10. CASE /\ ~CutAtNumber /\ ~WaitsForPath /\ Units # <<"num", "path", "flag">>
            /\ rpc' = "misread" /\ UNCHANGED <<pos, rcur, rleft, roff, made>>
  <2>1. log \cap Bad # {}
    BY <1>1, <1>10, AtHead DEF PackInv, AtRecord, Bad
  <2>2. Blamed'
    BY <1>1, <1>10, <2>1 DEF Blamed
  <2> QED BY <1>3, <1>7, <1>10, <2>2 DEF IInv, UnpackInv
<1>11. CASE Units = <<"num", "path", "flag">>
  <2>11. pos' = pos + 3
    BY <1>11, AfterRecord
  <2>1. /\ pos + 1 \in Records(pkg) /\ pos + 3 <= Len(pkg)
        /\ pkg[pos + 3].value # 1 => pos + 1 \in Live(pkg)
        /\ pkg[pos + 3].value = 1 => pos + 1 \notin Live(pkg)
    BY <1>1, <1>11, RecordRead
  <2>2. PICK n \in Nat : n = pos + 1
    BY <1>4
  <2>3. /\ pkg[pos + 1] = pkg[n] /\ pkg[pos + 2] = pkg[n + 1] /\ pos + 3 = n + 2 /\ pos' = n + 2
        /\ n \in Records(pkg) /\ pos' \in 0..Len(pkg)
    BY <1>4, <2>1, <2>2, <2>11
  <2>4. \A i \in Live(pkg) : i + 2 <= pos' /\ i # n => pkg[i + 1].path \in made
    <3>1. ASSUME NEW i \in Live(pkg), i + 2 <= pos', i # n PROVE pkg[i + 1].path \in made
      <4>1. i \in Records(pkg)
        BY LiveRecords
      <4>2. i + 2 <= pos
        BY <1>1, <2>1, <2>2, <2>11, <3>1, <4>1, ReadBefore
      <4> QED BY <1>1, <4>2 DEF Read
    <3> QED BY <3>1
  <2>5. CASE pkg[pos + 3].value = 1 /\ rpc' = "ok" /\ UNCHANGED <<rcur, rleft, roff, made>>
    <3>1. TypeOK'
      BY <1>1, <1>2, <2>3, <2>5 DEF TypeOK, Ended
    <3>2. History'
      BY <1>1, <1>2, <2>5 DEF History
    <3>3. Read'
      <4>1. n \in Records(pkg) \ Live(pkg) /\ n < pos'
        BY <2>1, <2>2, <2>3, <2>5
      <4>2. \A i \in Live(pkg) : i + 2 <= pos' => pkg[i + 1].path \in made
        BY <2>4, <4>1
      <4> QED BY <1>2, <2>5, <4>1, <4>2 DEF Read
    <3>4. AtRecord' /\ Blamed'
      BY <2>5 DEF AtRecord, Blamed
    <3>5. Target'
      BY <1>1, <1>2, <1>6, <2>5 DEF Target, Restored
    <3> QED BY <1>3, <3>1, <3>2, <3>3, <3>4, <3>5 DEF IInv, UnpackInv
  <2>6. ASSUME pkg[pos + 3].value # 1
        PROVE  /\ n \in Live(pkg) /\ Names(pkg[n].type, pkg[n + 1].path)
               /\ pkg[n].size \in Nat /\ DataEnd(pkg, n) = n + 2 + pkg[n].size
               /\ log \cap Bad = {} =>
                     /\ Fits(pkg[n].type, pkg[n].size, pkg[n + 1].path) /\ Closed(n)
                     /\ \A k \in n + 3..DataEnd(pkg, n) : k <= Len(pkg) => pkg[k].unit = "byte"
    <3>1. n \in Live(pkg)
      BY <2>1, <2>2, <2>6
    <3>2. Names(pkg[n].type, pkg[n + 1].path)
      BY <1>1, <3>1 DEF PackInv, Known
    <3>3. pkg[n].size \in Nat /\ DataEnd(pkg, n) = n + 2 + pkg[n].size
      BY <1>4, <2>3, RecordSize
    <3>4. ASSUME log \cap Bad = {}
          PROVE  /\ Fits(pkg[n].type, pkg[n].size, pkg[n + 1].path) /\ Closed(n)
                 /\ \A k \in n + 3..DataEnd(pkg, n) : k <= Len(pkg) => pkg[k].unit = "byte"
      BY <1>1, <1>5, <3>1, <3>4 DEF PackInv, Framed, Open
    <3> QED BY <3>1, <3>2, <3>3, <3>4
  <2>7. CASE /\ pkg[pos + 3].value # 1 /\ ~Reachable(pkg[n + 1].path)
             /\ rpc' = "orphan" /\ UNCHANGED <<rcur, rleft, roff, made>>
    <3>1. "record" \in log
      <4> SUFFICES ASSUME "record" \notin log PROVE FALSE
        OBVIOUS
      <4>1. /\ pkg[n + 1].path # Root
            /\ Parent[pkg[n + 1].path] \notin made
        BY <2>7 DEF Reachable
      <4>2. PICK j \in Live(pkg) : j < n /\ pkg[j + 1].path = Parent[pkg[n + 1].path]
        BY <1>1, <2>6, <2>7, <4>1 DEF PackInv, ParentsFirst
      <4>3. j \in Records(pkg) /\ j \in Nat
        BY <1>4, LiveRecords, RecordBounds
      <4>4. j + 2 <= pos' /\ j # n
        BY <2>3, <4>2, <4>3
      <4> QED BY <2>4, <4>1, <4>2, <4>4
    <3>2. TypeOK'
      BY <1>1, <1>2, <2>3, <2>7 DEF TypeOK, Ended
    <3>3. History'
      BY <1>1, <1>2, <2>7 DEF History
    <3>4. Read' /\ AtRecord' /\ Blamed'
      BY <1>1, <2>7, <3>1 DEF Read, AtRecord, Blamed
    <3>5. Target'
      BY <1>1, <1>2, <1>6, <2>7 DEF Target
    <3> QED BY <1>3, <3>2, <3>3, <3>4, <3>5 DEF IInv, UnpackInv
  <2>8. CASE /\ pkg[pos + 3].value # 1 /\ pkg[n].type = "dir"
             /\ rpc' = "record" /\ made' = made \cup {pkg[n + 1].path}
             /\ UNCHANGED <<rcur, rleft, roff>>
    <3>1. pkg[n + 1].path \in Paths
      BY <2>6, <2>8 DEF Names
    <3>2. TypeOK'
      BY <1>1, <1>2, <2>3, <2>8, <3>1 DEF TypeOK
    <3>3. History'
      BY <1>1, <1>2, <2>8 DEF History
    <3>4. Read'
      BY <1>1, <1>2, <2>4, <2>8 DEF Read
    <3>5. AtRecord'
      <4> SUFFICES ASSUME log \cap Bad = {} PROVE pos' < Len(pkg) /\ pkg[pos' + 1].unit = "num"
        BY <1>1, <1>2, <2>8 DEF AtRecord
      <4>1. pkg[n].size = 0 /\ Closed(n)
        BY <2>6, <2>8 DEF Fits
      <4>2. DataEnd(pkg, n) = pos'
        BY <2>3, <2>6, <2>8, <4>1
      <4> QED BY <4>1, <4>2 DEF Closed
    <3>6. Blamed'
      BY <2>8 DEF Blamed
    <3>7. Target'
      <4> SUFFICES ASSUME log \cap Bad = {} PROVE Target'
        BY <1>1 DEF Target
      <4>1. pkg[n + 1].path \notin Files
        BY <2>6, <2>8, TreeAssumption DEF Fits
      <4> QED BY <1>1, <1>2, <1>6, <2>8, <4>1 DEF Target, Restored
    <3> QED BY <1>3, <3>2, <3>3, <3>4, <3>5, <3>6, <3>7 DEF IInv, UnpackInv
  <2>12. CASE /\ pkg[pos + 3].value # 1 /\ pkg[n].type # "dir" /\ pkg[n + 1].path \in Dirs
              /\ rpc' \in {"fail", "record", "misread"} /\ made' = made \cup {pkg[n + 1].path}
              /\ UNCHANGED <<rcur, rleft, roff>>
    <3>1. pkg[n + 1].path \in Paths /\ pkg[n].type = "file" /\ pkg[n + 1].path \notin Files
      BY <2>6, <2>12, TreeAssumption DEF Names
    <3>2. log \cap Bad # {}
      BY <2>6, <2>12, <3>1 DEF Fits
    <3>3. TypeOK'
      BY <1>1, <1>2, <2>3, <2>12, <3>1 DEF TypeOK, Ended
    <3>4. History'
      BY <1>1, <1>2, <2>12 DEF History
    <3>5. Read'
      BY <1>1, <1>2, <2>4, <2>12 DEF Read
    <3>6. AtRecord' /\ Blamed' /\ Target'
      BY <1>1, <2>12, <3>2 DEF AtRecord, Blamed, Target
    <3> QED BY <1>3, <3>3, <3>4, <3>5, <3>6 DEF IInv, UnpackInv
  <2>9. CASE /\ pkg[pos + 3].value # 1 /\ pkg[n].type # "dir" /\ pkg[n + 1].path \notin Dirs
             /\ rpc' = "data" /\ rcur' = pkg[n + 1].path /\ rleft' = pkg[n].size /\ roff' = 0
             /\ made' = made \cup {pkg[n + 1].path}
    <3>1. pkg[n + 1].path \in Paths /\ pkg[n].type = "file" /\ pkg[n + 1].path \in Files
      BY <2>6, <2>9 DEF Names, Paths
    <3>2. TypeOK'
      <4>1. rleft' \in Nat /\ roff' \in Nat /\ rcur' \in Paths
        BY <2>6, <2>9, <3>1
      <4>2. made' \subseteq Paths
        BY <1>1, <2>9, <3>1 DEF TypeOK
      <4> QED BY <1>1, <1>2, <2>3, <2>9, <4>1, <4>2 DEF TypeOK
    <3>3. History'
      BY <1>1, <1>2, <2>9 DEF History
    <3>8. Len(out[rcur']) \in Nat
      BY <1>1, <2>9, <3>1 DEF TypeOK
    <3>4. Read'
      <4>1. rcur' \in Files /\ roff' <= Len(out'[rcur'])
        BY <1>1, <2>9, <3>1, <3>8
      <4> QED BY <1>1, <1>2, <2>4, <2>9, <4>1 DEF Read
    <3>5. AtRecord'
      <4> SUFFICES ASSUME log \cap Bad = {}
                   PROVE  /\ pos' + rleft' < Len(pkg) /\ pkg[pos' + rleft' + 1].unit = "num"
                          /\ \A k \in 1..rleft' : pkg[pos' + k].unit = "byte"
                          /\ log \subseteq {"unpack"} =>
                                \A k \in 1..rleft' : pkg[pos' + k] = Byte(rcur', roff' + k)
        BY <1>1, <1>2, <2>9 DEF AtRecord
      <4>1. DataEnd(pkg, n) = pos' + rleft' /\ rleft' \in Nat
        BY <2>3, <2>6, <2>9
      <4>2. pos' + rleft' < Len(pkg) /\ pkg[pos' + rleft' + 1].unit = "num"
        BY <2>6, <2>9, <4>1 DEF Closed
      <4>5. \A k \in n + 3..DataEnd(pkg, n) : k <= Len(pkg) => pkg[k].unit = "byte"
        BY <2>6, <2>9
      <4>3. ASSUME NEW k \in 1..rleft' PROVE pkg[pos' + k].unit = "byte"
        <5>1. PICK a \in Nat, b \in Nat, l \in Nat : a = pos' /\ b = rleft' /\ l = Len(pkg)
          <6>1. pos' \in Nat
            BY <2>2, <2>3
          <6>2. rleft' \in Nat /\ Len(pkg) \in Nat
            BY <1>4, <4>1
          <6> QED BY <6>1, <6>2
        <5>2. a = n + 2 /\ a + b < l /\ k \in 1..b /\ DataEnd(pkg, n) = a + b
          BY <2>3, <4>1, <4>2, <4>3, <5>1
        <5>3. a + k \in n + 3..a + b /\ a + k <= l
          BY <5>2
        <5> QED BY <4>5, <5>1, <5>2, <5>3
      <4>4. ASSUME log \subseteq {"unpack"}, NEW k \in 1..rleft'
            PROVE  pkg[pos' + k] = Byte(rcur', roff' + k)
        <5>1. n + 2 + k = pos' + k /\ n + 2 + k <= Len(pkg) /\ k \in 1..pkg[n].size /\ roff' + k = k
          BY <1>4, <2>3, <2>9, <4>1, <4>2, <4>4
        <5>2. pkg[n + 2 + k] = Byte(pkg[n + 1].path, k)
          BY <1>1, <2>6, <2>9, <4>4, <5>1 DEF PackInv, Contents
        <5> QED BY <2>9, <5>1, <5>2
      <4> QED BY <4>2, <4>3, <4>4
    <3>6. Blamed'
      BY <2>9 DEF Blamed
    <3>7. Target'
      <4> SUFFICES ASSUME log \cap Bad = {} PROVE Target'
        BY <1>1 DEF Target
      <4>1. roff' + rleft' = len'[rcur']
        BY <1>2, <2>6, <2>9, <3>1 DEF Fits
      <4>2. Restored(rcur, roff)'
        BY <1>1, <2>9, <3>8 DEF Restored
      <4>3. \A p \in Files : p # rcur' /\ p \in made' => p \in made
        BY <2>9
      <4> QED BY <1>1, <1>2, <1>6, <2>9, <4>1, <4>2, <4>3 DEF Target, Restored
    <3> QED BY <1>3, <3>2, <3>3, <3>4, <3>5, <3>6, <3>7 DEF IInv, UnpackInv
  <2>10. pkg[pos + 2].path = pkg[n + 1].path /\ pkg[pos + 1].type = pkg[n].type /\ pkg[pos + 1].size = pkg[n].size
    BY <2>3
  <2> QED BY <1>11, <2>5, <2>7, <2>8, <2>9, <2>10, <2>12, AfterRecord
<1> QED BY <1>8, <1>9, <1>10, <1>11 DEF ReadRecord


\* What write() makes of the file.
LEMMA WriteIsOver ==
    ASSUME NEW o, o \in Seq(DataBytes), NEW b, b \in Seq(DataBytes), roff \in Nat, roff <= Len(o)
    PROVE  Over(WrittenOver(o, b), o, b, roff)
BY DEF Over, WrittenOver

\* The bytes that Bytes has counted, as they stand in the archive.
LEMMA BlockRead ==
    ASSUME TypeOK, NEW n \in Nat, NEW got, got = Bytes(n)
    PROVE  /\ got \in Nat /\ got <= n /\ pos + got <= Len(pkg)
           /\ \A k \in pos + 1..pos + got : pkg[k] \in DataBytes /\ pkg[k].unit = "byte"
           /\ Sliced(DataBytes, SubSeq(pkg, pos + 1, pos + got), pkg, pos, got)
           /\ got = n \/ At(pos + got + 1) # "byte"
<1>1. pkg \in Seq(AnyUnit) /\ Len(pkg) \in Nat /\ pos \in Nat /\ pos <= Len(pkg)
  BY DEF TypeOK
<1>2. /\ got \in Nat /\ got <= n /\ \A i \in 1..got : At(pos + i) = "byte"
      /\ got = n \/ At(pos + got + 1) # "byte"
  <2>1. pos \in Nat
    BY <1>1
  <2> QED BY <2>1, BytesAhead
<1>3. ASSUME NEW k \in pos + 1..pos + got
      PROVE  k <= Len(pkg) /\ pkg[k] \in DataBytes /\ pkg[k].unit = "byte"
  <2>1. k - pos \in 1..got /\ pos + (k - pos) = k
    BY <1>1, <1>2, <1>3
  <2>2. At(k) = "byte"
    BY <1>2, <2>1
  <2>3. k <= Len(pkg) /\ pkg[k].unit = "byte"
    BY <2>2 DEF At
  <2>4. pkg[k] \in AnyUnit
    BY <1>1, <1>2, <1>3, <2>3
  <2> QED BY <2>3, <2>4, UnitKinds
<1>4. pos + got <= Len(pkg)
  <2>1. CASE got = 0
    BY <1>1, <2>1
  <2>2. CASE got # 0
    <3>1. pos + got \in pos + 1..pos + got
      BY <1>1, <1>2, <2>2
    <3> QED BY <1>3, <3>1
  <2> QED BY <2>1, <2>2
<1>5. Sliced(DataBytes, SubSeq(pkg, pos + 1, pos + got), pkg, pos, got)
  <2>1. PICK b : b = SubSeq(pkg, pos + 1, pos + got)
    OBVIOUS
  <2>2. Slice(b, pkg, pos, got)
    BY <2>1 DEF Slice
  <2>3. AllIn(DataBytes, pkg, pos, got)
    BY <1>3 DEF AllIn
  <2>4. pos \in Nat /\ got \in Nat
    BY <1>1, <1>2
  <2>5. Sliced(DataBytes, b, pkg, pos, got)
    BY <2>2, <2>3, <2>4, SliceProperties
  <2> QED BY <2>1, <2>5
<1> QED BY <1>2, <1>3, <1>4, <1>5

\* The block that copy_file has got passes into the file.
LEMMA BlockKeeps ==
    ASSUME IInv, ReadData, NEW got \in Nat, got > 0, got <= rleft, pos + got <= Len(pkg),
           \A k \in pos + 1..pos + got : pkg[k] \in DataBytes /\ pkg[k].unit = "byte",
           NEW b, b = SubSeq(pkg, pos + 1, pos + got), Sliced(DataBytes, b, pkg, pos, got),
           out' = [out EXCEPT ![rcur] = WrittenOver(@, b)],
           pos' = pos + got, roff' = roff + got, rleft' = rleft - got,
           rpc' = IF rleft = got THEN "record" ELSE "data"
    PROVE  TypeOK' /\ Read' /\ AtRecord' /\ Target'
<1>1. /\ TypeOK /\ History /\ PackInv /\ Read /\ AtRecord /\ Blamed /\ Target
      /\ rpc = "data" /\ UNCHANGED <<packVars, treeVars>>
      /\ UNCHANGED <<used, rcur, made, log, faults, shorts, changes, kills>>
  BY DEF IInv, UnpackInv, ReadData, budgets
<1>2. UNCHANGED <<ppc, stack, cur, woff, wbuf, wleft, pkg, interrupted, len, gone>>
  BY <1>1 DEF packVars, treeVars
<1>3. /\ pkg \in Seq(AnyUnit) /\ Len(pkg) \in Nat /\ pos \in Nat /\ rleft \in Nat /\ roff \in Nat
      /\ rcur \in Files /\ out \in [Files -> Seq(DataBytes)] /\ len \in [Files -> Nat]
      /\ roff <= Len(out[rcur])
  <2>1. rcur \in Files /\ roff <= Len(out[rcur])
    BY <1>1 DEF Read
  <2>2. /\ pkg \in Seq(AnyUnit) /\ pos \in 0..Len(pkg) /\ rleft \in Nat /\ roff \in Nat
        /\ out \in [Files -> Seq(DataBytes)] /\ len \in [Files -> Nat]
    BY <1>1 DEF TypeOK
  <2>3. Len(pkg) \in Nat /\ pos \in Nat
    BY <2>2
  <2> QED BY <2>1, <2>2, <2>3
<1>4. b \in Seq(DataBytes) /\ Len(b) <= got /\ got <= Len(b) /\ \A k \in 1..got : b[k] = pkg[pos + k]
  BY DEF Sliced
<1>5. PICK o : o = out[rcur]
  OBVIOUS
<1>6. PICK c : c = WrittenOver(o, b)
  OBVIOUS
<1>7. o \in Seq(DataBytes) /\ Over(c, o, b, roff)
  BY <1>3, <1>4, <1>5, <1>6, WriteIsOver
<1>8. /\ c \in Seq(DataBytes) /\ Len(c) \in Nat /\ Len(o) \in Nat
      /\ roff + got <= Len(c) /\ Len(o) <= Len(c)
      /\ Len(c) <= Len(o) \/ Len(c) <= roff + got
      /\ \A i \in 1..Len(c) :
            /\ i <= roff => c[i] = o[i]
            /\ roff < i /\ i <= roff + got => c[i] = b[i - roff]
            /\ roff + got < i => c[i] = o[i] /\ i <= Len(o)
  <2>1. /\ c \in Seq(DataBytes)
        /\ Len(c) \in Nat /\ Len(o) \in Nat /\ Len(b) \in Nat
        /\ roff + Len(b) <= Len(c) /\ Len(o) <= Len(c)
        /\ Len(c) <= Len(o) \/ Len(c) <= roff + Len(b)
        /\ \A i \in 1..Len(c) :
              /\ i <= roff => c[i] = o[i]
              /\ roff < i /\ i <= roff + Len(b) => c[i] = b[i - roff]
              /\ roff + Len(b) < i => c[i] = o[i] /\ i <= Len(o)
    <3>1. Laid(c, o, b, roff)
      BY <1>7, OverProperties
    <3> QED BY <3>1 DEF Laid
  <2>2. PICK m \in Nat, w \in Nat, v \in Nat : m = Len(b) /\ w = Len(c) /\ v = Len(o)
    BY <2>1
  <2>3. m = got
    <3>1. m <= got /\ got <= m /\ m \in Nat
      BY <1>4, <2>2
    <3> QED BY <3>1
  <2> QED BY <2>1, <2>2, <2>3
<1>9. out' \in [Files -> Seq(DataBytes)] /\ out'[rcur] = c /\ \A p \in Files : p # rcur => out'[p] = out[p]
  BY <1>3, <1>5, <1>6, <1>8
<1>10. pos' \in 0..Len(pkg') /\ rleft' \in Nat /\ roff' \in Nat
  BY <1>2, <1>3
<1>11. TypeOK'
  BY <1>1, <1>2, <1>9, <1>10 DEF TypeOK
<1>12. Read'
  <2>1. ASSUME NEW i \in Live(pkg), i + 2 <= pos' PROVE pkg[i + 1].path \in made
    <3>1. i \in Records(pkg) /\ i \in Nat
      BY <1>3, LiveRecords, RecordBounds
    <3>2. pkg[i + 2].unit = "flag"
      BY <3>1 DEF Records
    <3>3. i + 2 \notin pos + 1..pos + got
      BY <3>2
    <3>4. i + 2 <= pos
      BY <1>3, <2>1, <3>1, <3>3
    <3> QED BY <1>1, <3>4 DEF Read
  <2>2. roff' <= Len(out'[rcur])
    BY <1>8, <1>9
  <2> QED BY <1>1, <1>2, <1>3, <2>1, <2>2 DEF Read
<1>13. AtRecord'
  <2> SUFFICES ASSUME log \cap Bad = {}
               PROVE  /\ pos' + rleft' < Len(pkg) /\ pkg[pos' + rleft' + 1].unit = "num"
                      /\ \A k \in 1..rleft' : pkg[pos' + k].unit = "byte"
                      /\ log \subseteq {"unpack"} =>
                            \A k \in 1..rleft' : pkg[pos' + k] = Byte(rcur, roff' + k)
                      /\ rpc' = "record" => rleft' = 0
    <3>1. ASSUME rleft' = 0 PROVE pos' + rleft' = pos'
      BY <1>3, <3>1
    <3> QED BY <1>1, <1>2, <3>1 DEF AtRecord
  <2>1. pos' + rleft' = pos + rleft
    BY <1>3
  <2>2. /\ pos + rleft < Len(pkg) /\ pkg[pos + rleft + 1].unit = "num"
        /\ \A k \in 1..rleft : pkg[pos + k].unit = "byte"
        /\ log \subseteq {"unpack"} => \A k \in 1..rleft : pkg[pos + k] = Byte(rcur, roff + k)
    BY <1>1 DEF AtRecord
  <2>3. ASSUME NEW k \in 1..rleft'
        PROVE  /\ got + k \in 1..rleft /\ pos' + k = pos + (got + k)
               /\ roff' + k = roff + (got + k)
    BY <1>3, <2>3
  <2>4. rpc' = "record" => rleft' = 0
    BY <1>3
  <2> QED BY <2>1, <2>2, <2>3, <2>4
<1>14. Target'
  <2> SUFFICES ASSUME log \cap Bad = {} PROVE Target'
    BY <1>1 DEF Target
  <2>1. /\ \A p \in Files :
              /\ Len(Older(p)) <= Len(out[p])
              /\ Len(out[p]) <= len[p] \/ Len(out[p]) = Len(Older(p))
              /\ \A i \in len[p] + 1..Len(out[p]) : out[p][i] = Byte("older", i)
              /\ p # rcur => (p \in made => Restored(p, len[p]))
        /\ roff + rleft = len[rcur] /\ Restored(rcur, roff)
    BY <1>1 DEF Target
  <2>2. \A p \in Files : Older(p)' = Older(p) /\ Len(Older(p)) \in Nat
    <3>1. ASSUME NEW p \in Files PROVE Len(Older(p)) \in Nat
      <4>1. OldLen[p] \in Nat
        BY <3>1, TreeAssumption
      <4>2. CASE used
        <5>1. Older(p) = [i \in 1..OldLen[p] |-> Byte("older", i)]
          BY <4>2 DEF Older
        <5> QED BY <4>1, <5>1
      <4>3. CASE ~used
        <5>1. Older(p) = <<>>
          BY <4>3 DEF Older
        <5> QED BY <5>1
      <4> QED BY <4>2, <4>3
    <3> QED BY <1>1, <3>1 DEF Older
  <2>3. ASSUME NEW p \in Files, p # rcur
        PROVE  /\ Len(Older(p)') <= Len(out'[p])
               /\ Len(out'[p]) <= len'[p] \/ Len(out'[p]) = Len(Older(p)')
               /\ \A i \in len'[p] + 1..Len(out'[p]) : out'[p][i] = Byte("older", i)
               /\ p \in made' => Restored(p, len[p])'
    BY <1>1, <1>2, <1>9, <2>1, <2>2, <2>3 DEF Restored
  <2>4. roff' + rleft' = len[rcur] /\ roff' <= len[rcur]
    BY <1>3, <2>1
  <2>5. Restored(rcur, roff)'
    <3>1. roff' <= Len(out'[rcur])
      BY <1>8, <1>9
    <3>2. ASSUME log \subseteq {"unpack"}, NEW i \in 1..roff' PROVE out'[rcur][i] = Byte(rcur, i)
      <4>1. i \in 1..Len(c) /\ i \in Nat
        BY <1>8, <1>10, <3>2
      <4>2. CASE i <= roff
        <5>1. o[i] = Byte(rcur, i)
          BY <1>5, <2>1, <3>2, <4>1, <4>2 DEF Restored
        <5> QED BY <1>8, <1>9, <4>1, <4>2, <5>1
      <4>3. CASE roff < i
        <5>1. PICK k \in 1..got : k = i - roff /\ roff + k = i
          <6>1. i <= roff + got
            BY <1>3, <1>10, <3>2
          <6>2. i - roff \in 1..got /\ roff + (i - roff) = i
            BY <1>3, <4>1, <4>3, <6>1
          <6> QED BY <6>2
        <5>2. c[i] = b[k] /\ b[k] = pkg[pos + k]
          BY <1>3, <1>4, <1>8, <3>2, <4>1, <4>3, <5>1
        <5>3. k \in 1..rleft
          BY <1>3, <5>1
        <5>4. pkg[pos + k] = Byte(rcur, roff + k)
          BY <1>1, <3>2, <5>3 DEF AtRecord
        <5> QED BY <1>9, <5>1, <5>2, <5>4
      <4> QED BY <1>3, <4>1, <4>2, <4>3
    <3> QED BY <1>1, <3>1, <3>2 DEF Restored
  <2>6. /\ Len(Older(rcur)') <= Len(out'[rcur])
        /\ Len(out'[rcur]) <= len'[rcur] \/ Len(out'[rcur]) = Len(Older(rcur)')
        /\ \A i \in len'[rcur] + 1..Len(out'[rcur]) : out'[rcur][i] = Byte("older", i)
    <3>1. PICK l \in Nat, m \in Nat, w \in Nat, v \in Nat :
             l = len[rcur] /\ m = Len(Older(rcur)) /\ w = Len(c) /\ v = Len(o)
      BY <1>3, <1>8, <2>2
    <3>2. m <= v /\ (v <= l \/ v = m) /\ \A i \in l + 1..v : o[i] = Byte("older", i)
      BY <1>3, <1>5, <2>1, <3>1
    <3>3. v <= w /\ (w <= v \/ w <= roff') /\ roff' <= l
      BY <1>8, <2>4, <3>1
    <3>4. m <= w /\ (w <= l \/ w = m)
      BY <1>10, <3>1, <3>2, <3>3
    <3>5. ASSUME NEW i \in l + 1..w PROVE c[i] = Byte("older", i)
      <4>3. l \in Nat /\ w \in Nat /\ roff + got <= l
        BY <3>1, <3>3
      <4>4. i \in 1..w /\ roff + got < i
        BY <1>3, <3>5, <4>3
      <4>1. i \in 1..Len(c) /\ roff + got < i
        BY <3>1, <4>4
      <4>2. c[i] = o[i] /\ i \in l + 1..v
        BY <1>8, <3>1, <3>5, <4>1
      <4> QED BY <3>2, <4>2
    <3>6. len'[rcur] = l /\ Older(rcur)' = Older(rcur) /\ out'[rcur] = c
      <4>1. Older(rcur)' = Older(rcur)
        BY <1>1 DEF Older
      <4>2. len'[rcur] = l
        BY <1>2, <3>1
      <4> QED BY <1>9, <4>1, <4>2
    <3>7. Len(Older(rcur)) <= Len(c)
      BY <3>1, <3>4
    <3>8. Len(c) <= l \/ Len(c) = Len(Older(rcur))
      BY <3>1, <3>4
    <3>9. \A i \in l + 1..Len(c) : c[i] = Byte("older", i)
      BY <3>1, <3>5
    <3> QED BY <3>6, <3>7, <3>8, <3>9
  <2>7. rpc' = "record" => roff' = len[rcur]
    BY <1>3, <2>4
  <2>8. ASSUME NEW p \in Files
        PROVE  /\ Len(Older(p)') <= Len(out'[p])
               /\ Len(out'[p]) <= len'[p] \/ Len(out'[p]) = Len(Older(p)')
               /\ \A i \in len'[p] + 1..Len(out'[p]) : out'[p][i] = Byte("older", i)
               /\ rpc' \in {"record", "ok"} \/ (rpc' = "data" /\ rcur' # p) =>
                     (p \in made' => Restored(p, len[p])')
    <3>1. CASE p # rcur
      BY <2>3, <2>8, <3>1
    <3>2. CASE p = rcur
      <4>1. rpc' = "record" \/ (rpc' = "data" /\ rcur' = p)
        BY <1>1, <3>2
      <4>2. ASSUME rpc' = "record" PROVE Restored(p, len[p])'
        BY <1>1, <1>2, <2>5, <2>7, <3>2, <4>2 DEF Restored
      <4>3. rpc' \in {"record", "ok"} \/ (rpc' = "data" /\ rcur' # p) => rpc' = "record"
        BY <1>1, <3>2, <4>1
      <4>4. /\ Len(Older(p)') <= Len(out'[p])
            /\ Len(out'[p]) <= len'[p] \/ Len(out'[p]) = Len(Older(p)')
            /\ \A i \in len'[p] + 1..Len(out'[p]) : out'[p][i] = Byte("older", i)
        <5>1. Older(p)' = Older(rcur)'
          BY <1>1, <3>2 DEF Older
        <5> QED BY <2>6, <3>2, <5>1
      <4> QED BY <4>2, <4>3, <4>4
    <3> QED BY <3>1, <3>2
  <2> QED BY <1>1, <1>2, <2>4, <2>5, <2>8 DEF Target
<1> QED BY <1>11, <1>12, <1>13, <1>14


\* unpack reads a block, nothing, or the end of the data.
LEMMA ReadDataKeeps ==
    ASSUME IInv, ReadData PROVE IInv'
<1>1. /\ TypeOK /\ History /\ Walk /\ PackInv /\ Read /\ AtRecord /\ Blamed /\ Target
      /\ rpc = "data" /\ ppc \in {"done", "killed"}
      /\ UNCHANGED <<packVars, treeVars>>
      /\ UNCHANGED <<used, rcur, made, log, faults, shorts, changes, kills>>
  BY DEF IInv, UnpackInv, ReadData, History, budgets
<1>2. UNCHANGED <<ppc, stack, cur, woff, wbuf, wleft, pkg, interrupted, len, gone>>
  BY <1>1 DEF packVars, treeVars
<1>3. Walk' /\ PackInv'
  BY <1>1, PackSideKept
<1>4. /\ pkg \in Seq(AnyUnit) /\ Len(pkg) \in Nat /\ pos \in Nat /\ pos <= Len(pkg)
      /\ rleft \in Nat /\ roff \in Nat /\ rcur \in Files
  BY <1>1 DEF TypeOK, Read
<1>5. PICK n \in Nat : n = IF rleft < BlockSize THEN rleft ELSE BlockSize
  BY <1>4, TreeAssumption
<1>6. n <= rleft /\ (rleft > 0 => n > 0)
  BY <1>4, <1>5, TreeAssumption
<1>7. PICK got : got = Bytes(n)
  OBVIOUS
<1>8. /\ got \in Nat /\ got <= n /\ pos + got <= Len(pkg)
      /\ \A k \in pos + 1..pos + got : pkg[k] \in DataBytes /\ pkg[k].unit = "byte"
      /\ Sliced(DataBytes, SubSeq(pkg, pos + 1, pos + got), pkg, pos, got)
      /\ got = n \/ At(pos + got + 1) # "byte"
  <2>1. n \in Nat
    BY <1>5
  <2> QED BY <1>1, <1>7, <2>1, BlockRead
<1>9. \A p \in Files : Older(p)' = Older(p)
  BY <1>1 DEF Older
<1>10. CASE /\ rleft = 0 /\ rpc' = "record" /\ UNCHANGED <<pos, rleft, roff, out>>
  <2>1. TypeOK' /\ History'
    BY <1>1, <1>2, <1>10 DEF TypeOK, History
  <2>2. Read' /\ Blamed'
    BY <1>1, <1>2, <1>10 DEF Read, Blamed
  <2>3. AtRecord'
    <3>1. pos + rleft = pos
      BY <1>4, <1>10
    <3> QED BY <1>1, <1>2, <1>10, <3>1 DEF AtRecord
  <2>4. Target'
    <3> SUFFICES ASSUME log \cap Bad = {} PROVE Target'
      BY <1>1 DEF Target
    <3>1. roff = len[rcur]
      <4>1. roff + rleft = len[rcur]
        BY <1>1 DEF Target
      <4> QED BY <1>4, <1>10, <4>1
    <3>2. Restored(rcur, len[rcur])
      BY <1>1, <3>1 DEF Target
    <3> QED BY <1>1, <1>2, <1>9, <1>10, <3>2 DEF Target, Restored
  <2> QED BY <1>3, <2>1, <2>2, <2>3, <2>4 DEF IInv, UnpackInv
<1>11. CASE /\ rleft > 0 /\ got = 0 /\ rpc' \in {"fail", "misread"}
            /\ UNCHANGED <<pos, rleft, roff, out>>
  <2>1. TypeOK' /\ History'
    BY <1>1, <1>2, <1>11 DEF TypeOK, History, Ended
  <2>2. Read' /\ AtRecord'
    BY <1>1, <1>2, <1>11 DEF Read, AtRecord
  <2>3. log \cap Bad # {}
    <3> SUFFICES ASSUME log \cap Bad = {} PROVE FALSE
      OBVIOUS
    <3>1. pos + rleft < Len(pkg) /\ \A k \in 1..rleft : pkg[pos + k].unit = "byte"
      BY <1>1 DEF AtRecord
    <3>2. 1 \in 1..rleft /\ pos + 1 <= Len(pkg)
      BY <1>4, <1>11, <3>1
    <3>3. At(pos + 1) = "byte"
      BY <3>1, <3>2 DEF At
    <3>4. pos + got + 1 = pos + 1 /\ got # n
      BY <1>4, <1>6, <1>11
    <3> QED BY <1>8, <3>3, <3>4
  <2>4. Blamed'
    BY <1>1, <1>11, <2>3 DEF Blamed
  <2>5. Target'
    BY <1>1, <2>3 DEF Target
  <2> QED BY <1>3, <2>1, <2>2, <2>4, <2>5 DEF IInv, UnpackInv
<1>12. CASE /\ got > 0
            /\ out' = [out EXCEPT ![rcur] = WrittenOver(@, SubSeq(pkg, pos + 1, pos + got))]
            /\ pos' = pos + got /\ roff' = roff + got /\ rleft' = rleft - got
            /\ rpc' = IF rleft = got THEN "record" ELSE "data"
  <2>1. PICK b : b = SubSeq(pkg, pos + 1, pos + got)
    OBVIOUS
  <2>2. /\ got \in Nat /\ got > 0 /\ got <= rleft /\ pos + got <= Len(pkg)
        /\ Sliced(DataBytes, b, pkg, pos, got)
        /\ out' = [out EXCEPT ![rcur] = WrittenOver(@, b)]
    BY <1>4, <1>6, <1>8, <1>12, <2>1
  <2>3. TypeOK' /\ Read' /\ AtRecord' /\ Target'
    BY <1>8, <1>12, <2>1, <2>2, BlockKeeps
  <2>4. History' /\ Blamed'
    BY <1>1, <1>2, <1>12 DEF History, Blamed
  <2> QED BY <1>3, <2>3, <2>4 DEF IInv, UnpackInv
<1>13. /\ ReadData
       /\ \/ /\ rleft = 0 /\ rpc' = "record" /\ UNCHANGED <<pos, rleft, roff, out>>
          \/ /\ rleft > 0 /\ got = 0 /\ rpc' \in {"fail", "misread"}
             /\ UNCHANGED <<pos, rleft, roff, out>>
          \/ /\ got > 0
             /\ out' = [out EXCEPT ![rcur] = WrittenOver(@, SubSeq(pkg, pos + 1, pos + got))]
             /\ pos' = pos + got /\ roff' = roff + got /\ rleft' = rleft - got
             /\ rpc' = IF rleft = got THEN "record" ELSE "data"
  BY <1>5, <1>7 DEF ReadData
<1> QED BY <1>10, <1>11, <1>12, <1>13


-----------------------------------------------------------------------------
(***************************************************************************)
(* The invariant                                                           *)
(***************************************************************************)
LEMMA InitHolds ==
    ASSUME Init PROVE IInv
<1>1. /\ ppc = "opendir" /\ stack = <<>> /\ cur = Root /\ woff = 0 /\ wbuf = <<>> /\ wleft = 0
      /\ pkg = <<>> /\ interrupted = FALSE /\ len = FileLen /\ gone = {}
      /\ rpc = "idle" /\ pos = 0 /\ rcur = Root /\ rleft = 0 /\ roff = 0
      /\ used = FALSE /\ made = {} /\ out = [p \in Files |-> <<>>] /\ log = {}
      /\ faults = 0 /\ shorts = 0 /\ changes = 0 /\ kills = 0
  BY DEF Init
<1>2. Len(<<>>) = 0 /\ Records(pkg) = {} /\ Live(pkg) = {} /\ Written(pkg) = {}
  BY <1>1 DEF Records, Live, Written
<1>3. TypeOK
  <2>1. Root \in Paths /\ len \in [Files -> Nat] /\ BlockSize \in Nat
    BY <1>1, TreeAssumption DEF Paths
  <2>2. wleft \in 0..Len(wbuf) /\ Len(wbuf) <= BlockSize /\ pos \in 0..Len(pkg)
    BY <1>1, <2>1
  <2>3. out \in [Files -> Seq(DataBytes)]
    BY <1>1
  <2>4. faults \in 0..MaxFaults /\ shorts \in 0..MaxShort
        /\ changes \in 0..MaxChanges /\ kills \in 0..MaxKills
    BY <1>1, BoundAssumption
  <2>5. {rleft, roff} \subseteq Nat /\ woff \in Nat
    BY <1>1
  <2>6. /\ stack \in Seq([dir : Dirs, todo : SUBSET Paths]) /\ wbuf \in Seq(DataBytes)
        /\ pkg \in Seq(AnyUnit)
    BY <1>1
  <2> QED BY <1>1, <2>1, <2>2, <2>3, <2>4, <2>5, <2>6 DEF TypeOK
<1>4. History
  BY <1>1 DEF History
<1>5. Walk
  BY <1>1, TreeAssumption DEF Walk
<1>6. PackInv
  <2>1. Known /\ ParentsFirst /\ NumbersBegin /\ Buffered /\ Contents
    BY <1>1, <1>2 DEF Known, ParentsFirst, NumbersBegin, Buffered, Contents
  <2>2. OnStack /\ Complete
    BY <1>1, <1>2 DEF OnStack, Complete
  <2>3. Framed
    BY <1>1, <1>2 DEF Framed
  <2> QED BY <2>1, <2>2, <2>3 DEF PackInv
<1>7. Read /\ AtRecord /\ Blamed
  BY <1>1, <1>2 DEF Read, AtRecord, Blamed
<1>8. Target
  <2>1. ASSUME NEW p \in Files
        PROVE  /\ Len(Older(p)) <= Len(out[p])
               /\ Len(out[p]) = Len(Older(p))
               /\ \A i \in len[p] + 1..Len(out[p]) : out[p][i] = Byte("older", i)
    <3>1. out[p] = <<>> /\ Older(p) = <<>>
      BY <1>1, <2>1 DEF Older
    <3>2. len[p] \in Nat
      BY <1>3, <2>1 DEF TypeOK
    <3> QED BY <1>2, <3>1, <3>2
  <2> QED BY <1>1, <2>1 DEF Target
<1> QED BY <1>3, <1>4, <1>5, <1>6, <1>7, <1>8 DEF IInv, UnpackInv

\* While pack runs, unpack waits.
LEMMA PackStepKeeps ==
    ASSUME IInv, PackStep \/ KillPack \/ Disturb PROVE IInv'
<1>1. TypeOK' /\ History' /\ Walk' /\ PackInv'
  BY OpenDirKeeps, ReadDirKeeps, ProcessFileKeeps, CopyReadKeeps, CopyWriteKeeps,
     WriteFinishKeeps, KillPackKeeps, DisturbKeeps DEF PackStep
<1>2. ppc \notin {"done", "killed"} /\ UNCHANGED rpc
  BY DEF PackStep, KillPack, Disturb, OpenDir, ReadDir, ProcessFile, CopyRead, CopyWrite,
         WriteFinish, unpackVars
<1>3. rpc' = "idle"
  BY <1>2, PackRuns
<1>4. UnpackInv'
  BY <1>1, <1>3, Waits
<1> QED BY <1>1, <1>4 DEF IInv

\* Nothing happens.
LEMMA StutterKeeps ==
    ASSUME IInv, UNCHANGED vars PROVE IInv'
<1>1. /\ TypeOK /\ History /\ Walk /\ PackInv /\ Read /\ AtRecord /\ Blamed /\ Target
      /\ UNCHANGED <<packVars, treeVars>> /\ UNCHANGED unpackVars
      /\ UNCHANGED <<log, budgets>>
  BY DEF IInv, UnpackInv, vars
<1>2. UNCHANGED <<ppc, stack, cur, woff, wbuf, wleft, pkg, interrupted, len, gone>>
  BY <1>1 DEF packVars, treeVars
<1>3. UNCHANGED <<rpc, pos, rcur, rleft, roff, used, made, out, log, faults, shorts, changes, kills>>
  BY <1>1 DEF unpackVars, budgets
<1>4. Walk' /\ PackInv'
  BY <1>1, PackSideKept
<1>5. TypeOK'
  BY <1>1, <1>2, <1>3 DEF TypeOK
<1>6. History'
  BY <1>1, <1>2, <1>3 DEF History
<1>7. Read' /\ AtRecord' /\ Blamed'
  BY <1>1, <1>2, <1>3 DEF Read, AtRecord, Blamed
<1>8. Target'
  <2>1. \A p \in Files : Older(p)' = Older(p)
    BY <1>3 DEF Older
  <2> QED BY <1>1, <1>2, <1>3, <2>1 DEF Target, Restored
<1> QED BY <1>4, <1>5, <1>6, <1>7, <1>8 DEF IInv, UnpackInv

\* Every step of either program, of the tree, and every failure and kill keeps
\* the invariant.
THEOREM Inductive == Spec => []IInv
<1>1. Init => IInv
  BY InitHolds
<1>2. IInv /\ [Next]_vars => IInv'
  <2> SUFFICES ASSUME IInv, [Next]_vars PROVE IInv'
    OBVIOUS
  <2>1. CASE PackStep \/ KillPack \/ Disturb
    BY <2>1, PackStepKeeps
  <2>2. CASE StartUnpack
    BY <2>2, StartUnpackKeeps
  <2>3. CASE UnpackStep
    BY <2>3, ReadRecordKeeps, ReadDataKeeps DEF UnpackStep
  <2>4. CASE UnpackFails
    BY <2>4, UnpackFailsKeeps
  <2>5. CASE Restart
    BY <2>5, RestartKeeps
  <2>6. CASE UNCHANGED vars
    BY <2>6, StutterKeeps
  <2> QED BY <2>1, <2>2, <2>3, <2>4, <2>5, <2>6 DEF Next
<1> QED BY <1>1, <1>2, PTL DEF Spec


-----------------------------------------------------------------------------
(***************************************************************************)
(* What the invariant says of the end                                      *)
(***************************************************************************)
\* Everything that is named in the archive has been read at the finish record.
LEMMA AllRead ==
    ASSUME IInv, rpc = "ok" PROVE ppc = "done" /\ Written(pkg) \subseteq made
<1>1. TypeOK /\ Known /\ Read
  BY DEF IInv, PackInv, UnpackInv
<1>2. pkg \in Seq(AnyUnit) /\ pos \in Nat
  BY <1>1 DEF TypeOK
<1>3. PICK f \in Records(pkg) \ Live(pkg) : f < pos
  BY <1>1 DEF Read
<1>4. ppc = "done" /\ \A j \in Records(pkg) : j <= f
  BY <1>1, <1>3 DEF Known
<1>5. ASSUME NEW i \in Live(pkg) PROVE pkg[i + 1].path \in made
  <2>1. i \in Records(pkg) /\ i # f /\ f \in Records(pkg)
    BY <1>3, <1>5, LiveRecords
  <2>2. i \in Nat /\ f \in Nat
    BY <1>2, <2>1, RecordBounds
  <2>3. i < f
    BY <1>4, <2>1, <2>2
  <2>4. i + 2 < f
    BY <1>2, <2>1, <2>3, Apart
  <2>5. i + 2 <= pos
    BY <1>2, <1>3, <2>2, <2>4
  <2> QED BY <1>1, <1>5, <2>5 DEF Read
<1> QED BY <1>4, <1>5 DEF Written

\* A walk that was not disturbed has been to every path.
LEMMA WholeTree ==
    ASSUME IInv, rpc = "ok", log \cap {"record", "pack", "readdir", "tree"} = {} PROVE made = Paths
<1>1. ppc = "done" /\ Written(pkg) \subseteq made
  BY AllRead
<1>2. Complete /\ made \subseteq Paths
  BY DEF IInv, PackInv, TypeOK
<1>3. stack = <<>>
  BY <1>1, <1>2 DEF Complete
<1>4. \A k \in 1..Len(stack) : FALSE
  <2>1. Len(<<>>) = 0
    OBVIOUS
  <2> QED BY <1>3, <2>1
<1>5. Root \in Written(pkg) /\ \A p \in Paths \ {Root} : Parent[p] \in Written(pkg) => p \in Written(pkg)
  BY <1>1, <1>2, <1>4 DEF Complete
<1> DEFINE S == Written(pkg) \cap Paths
<1>6. Root \in S /\ \A p \in Paths \ {Root} : Parent[p] \in S => p \in S
  BY <1>5, TreeAssumption DEF Paths
<1>7. S \in SUBSET Paths
  OBVIOUS
<1>8. S = Paths
  <2> HIDE DEF S
  <2> QED BY <1>6, <1>7, RootAssumption
<1> QED BY <1>1, <1>2, <1>8

\* The file that RoundTrip and ShortKeepsFraming expect.
LEMMA UnpackedProperties ==
    ASSUME TypeOK, NEW p \in Files
    PROVE  /\ Unpacked(p) \in Seq(DataBytes)
           /\ Len(Unpacked(p)) \in Nat /\ Len(Older(p)) \in Nat
           /\ len[p] <= Len(Unpacked(p)) /\ Len(Older(p)) <= Len(Unpacked(p))
           /\ Len(Unpacked(p)) <= len[p] \/ Len(Unpacked(p)) <= Len(Older(p))
           /\ \A i \in 1..Len(Unpacked(p)) :
                 Unpacked(p)[i] = IF i <= len[p] THEN Byte(p, i) ELSE Byte("older", i)
<1>1. PICK l \in Nat : l = len[p]
  BY DEF TypeOK
<1>2. l \in Nat
  BY <1>1
<1>3. PICK x : x = Content(p)
  OBVIOUS
<1>4. x \in Seq(DataBytes) /\ Len(x) <= l /\ l <= Len(x) /\ \A i \in 1..l : x[i] = Byte(p, i)
  <2>1. x = [i \in 1..l |-> Byte(p, i)]
    BY <1>1, <1>3 DEF Content
  <2>2. \A i \in 1..l : Byte(p, i) \in DataBytes
    BY <1>2 DEF Byte, DataBytes
  <2>3. x \in Seq(DataBytes) /\ Len(x) = l
    BY <1>2, <2>1, <2>2
  <2> QED BY <1>2, <2>1, <2>3
<1>5. PICK o : o = Older(p)
  OBVIOUS
<1>6. PICK m \in Nat : /\ o \in Seq(DataBytes) /\ Len(o) <= m /\ m <= Len(o)
                       /\ \A i \in 1..m : o[i] = Byte("older", i)
  <2>1. PICK v \in Nat : v = IF used THEN OldLen[p] ELSE 0
    BY TreeAssumption
  <2>2. o = [i \in 1..v |-> Byte("older", i)]
    <3>1. CASE used
      BY <1>5, <2>1, <3>1 DEF Older
    <3>2. CASE ~used
      <4>1. o = <<>> /\ 1..v = {}
        BY <1>5, <2>1, <3>2 DEF Older
      <4> QED BY <4>1
    <3> QED BY <3>1, <3>2
  <2>3. v \in Nat
    BY <2>1
  <2>4. \A i \in 1..v : Byte("older", i) \in DataBytes
    BY <2>3 DEF Byte, DataBytes
  <2>5. o \in Seq(DataBytes) /\ Len(o) = v
    BY <2>2, <2>3, <2>4
  <2>6. Len(o) <= v /\ v <= Len(o)
    BY <2>3, <2>5
  <2> QED BY <2>2, <2>3, <2>5, <2>6
<1>7. m \in Nat /\ Len(o) \in Nat
  BY <1>6
<1>8. PICK z : z = SubSeq(o, l + 1, m)
  OBVIOUS
<1>9. PICK n \in Nat : /\ z \in Seq(DataBytes) /\ Len(z) <= n /\ n <= Len(z)
                       /\ \A k \in 1..n : z[k] = Byte("older", l + k)
                       /\ (l <= m /\ l + n = m) \/ (m < l /\ n = 0)
  <2>1. CASE l <= m
    <3>1. PICK n \in Nat : l + n = m
      <4>1. m - l \in Nat /\ l + (m - l) = m
        BY <1>2, <1>7, <2>1
      <4> QED BY <4>1
    <3>2. l \in Nat /\ n \in Nat
      BY <1>2, <3>1
    <3>3. Slice(z, o, l, n)
      BY <1>8, <3>1 DEF Slice
    <3>4. AllIn(DataBytes, o, l, n)
      <4>1. ASSUME NEW i \in l + 1..l + n PROVE o[i] \in DataBytes
        <5>1. i \in 1..Len(o)
          BY <1>6, <1>7, <3>1, <3>2, <4>1
        <5> QED BY <1>6, <5>1
      <4> QED BY <4>1 DEF AllIn
    <3>5. Sliced(DataBytes, z, o, l, n)
      BY <3>2, <3>3, <3>4, SliceProperties
    <3>6. ASSUME NEW k \in 1..n PROVE z[k] = Byte("older", l + k)
      <4>1. l + k \in 1..m
        BY <1>7, <3>1, <3>2, <3>6
      <4> QED BY <1>6, <3>5, <3>6, <4>1 DEF Sliced
    <3> QED BY <2>1, <3>1, <3>2, <3>5, <3>6 DEF Sliced
  <2>2. CASE ~(l <= m)
    <3>1. z = <<>>
      BY <1>2, <1>7, <1>8, <2>2, SubSeqEmpty
    <3>2. PICK n \in Nat : n = 0
      OBVIOUS
    <3>3. z \in Seq(DataBytes) /\ Len(z) <= n /\ n <= Len(z)
      BY <3>1, <3>2
    <3>4. m < l /\ \A k \in 1..n : FALSE
      BY <1>2, <1>7, <2>2, <3>2
    <3> QED BY <3>2, <3>3, <3>4
  <2> QED BY <2>1, <2>2
<1>10. n \in Nat
  BY <1>9
<1>11. PICK u : u = x \o z
  OBVIOUS
<1>12. Unpacked(p) = u
  <2>1. Len(o) = m
    BY <1>6, <1>7
  <2> QED BY <1>1, <1>3, <1>5, <1>8, <1>11, <2>1 DEF Unpacked
<1>13. /\ u \in Seq(DataBytes) /\ Len(u) <= l + n /\ l + n <= Len(u)
       /\ \A i \in 1..l + n : (i <= l => u[i] = x[i]) /\ (l < i => u[i] = z[i - l])
  <2>1. Glued(u, x, z)
    BY <1>4, <1>9, <1>11 DEF Glued
  <2>2. Len(x) <= l /\ l <= Len(x) /\ Len(z) <= n /\ n <= Len(z)
    BY <1>4, <1>9
  <2>3. Extends(u, x, l, z, n)
    BY <1>2, <1>10, <2>1, <2>2, GluedProperties
  <2> QED BY <2>3 DEF Extends
<1>14. Len(u) \in Nat
  BY <1>13
<1>15. ASSUME NEW i \in 1..l + n
       PROVE  u[i] = IF i <= l THEN Byte(p, i) ELSE Byte("older", i)
  <2>1. CASE i <= l
    <3>1. i \in 1..l
      BY <1>2, <1>10, <1>15, <2>1
    <3> QED BY <1>4, <1>13, <1>15, <2>1, <3>1
  <2>2. CASE ~(i <= l)
    <3>1. i - l \in 1..n /\ l + (i - l) = i /\ l < i
      BY <1>2, <1>10, <1>15, <2>2
    <3> QED BY <1>9, <1>13, <1>15, <2>2, <3>1
  <2> QED BY <2>1, <2>2
<1>16. /\ l <= Len(u) /\ m <= Len(u) /\ (Len(u) <= l \/ Len(u) <= m)
       /\ \A i \in 1..Len(u) : i \in 1..l + n
  BY <1>2, <1>7, <1>9, <1>10, <1>13, <1>14
<1>17. /\ l <= Len(u) /\ Len(o) <= Len(u) /\ (Len(u) <= l \/ Len(u) <= Len(o))
  BY <1>6, <1>7, <1>14, <1>16
<1>18. \A i \in 1..Len(u) : u[i] = IF i <= l THEN Byte(p, i) ELSE Byte("older", i)
  BY <1>15, <1>16
<1> QED BY <1>1, <1>5, <1>7, <1>12, <1>13, <1>14, <1>17, <1>18

\* When the framing is kept, a file unpack has written to its end has the length
\* it should have, and its bytes, if no block was damaged.
LEMMA FileRestored ==
    ASSUME IInv, rpc = "ok", log \cap Bad = {}, "readdir" \notin log, NEW p \in Files
    PROVE  /\ Len(out[p]) = Len(Unpacked(p))
           /\ log \subseteq {"unpack"} => out[p] = Unpacked(p)
<1>1. TypeOK /\ Target
  BY DEF IInv, UnpackInv
<1>2. made = Paths
  BY WholeTree DEF Bad
<1>3. p \in made
  BY <1>2 DEF Paths
<1>4. PICK u, o : u = Unpacked(p) /\ o = out[p]
  OBVIOUS
<1>5. /\ u \in Seq(DataBytes)
      /\ Len(u) \in Nat /\ Len(Older(p)) \in Nat
      /\ len[p] <= Len(u) /\ Len(Older(p)) <= Len(u)
      /\ Len(u) <= len[p] \/ Len(u) <= Len(Older(p))
      /\ \A i \in 1..Len(u) : u[i] = IF i <= len[p] THEN Byte(p, i) ELSE Byte("older", i)
  BY <1>1, <1>4, UnpackedProperties
<1>6. /\ Len(Older(p)) <= Len(o) /\ (Len(o) <= len[p] \/ Len(o) = Len(Older(p)))
      /\ \A i \in len[p] + 1..Len(o) : o[i] = Byte("older", i)
      /\ len[p] <= Len(o)
      /\ log \subseteq {"unpack"} => \A i \in 1..len[p] : o[i] = Byte(p, i)
  BY <1>1, <1>3, <1>4 DEF Target, Restored
<1>7. len[p] \in Nat /\ o \in Seq(DataBytes)
  BY <1>1, <1>4 DEF TypeOK
<1>8. Len(o) \in Nat
  BY <1>7
<1>9. PICK a \in Nat, b \in Nat, m \in Nat : a = Len(o) /\ b = Len(u) /\ m = Len(Older(p))
  BY <1>5, <1>8
<1>10. a = b
  <2>1. a \in Nat /\ b \in Nat /\ m \in Nat
    BY <1>9
  <2>2. /\ len[p] <= b /\ m <= b /\ (b <= len[p] \/ b <= m)
        /\ m <= a /\ (a <= len[p] \/ a <= m) /\ len[p] <= a
    BY <1>5, <1>6, <1>9
  <2> QED BY <1>7, <2>1, <2>2
<1>11. Len(o) = Len(u)
  BY <1>9, <1>10
<1>12. ASSUME log \subseteq {"unpack"} PROVE o = u
  <2>1. ASSUME NEW i \in 1..Len(o) PROVE o[i] = u[i]
    <3>1. i \in 1..Len(u)
      BY <1>11, <2>1
    <3>2. CASE i <= len[p]
      <4>1. i \in 1..len[p]
        BY <1>7, <1>8, <2>1, <3>2
      <4> QED BY <1>5, <1>6, <1>12, <3>1, <3>2, <4>1
    <3>3. CASE ~(i <= len[p])
      <4>1. i \in len[p] + 1..Len(o)
        BY <1>7, <1>8, <2>1, <3>3
      <4> QED BY <1>5, <1>6, <3>1, <3>3, <4>1
    <3> QED BY <3>2, <3>3
  <2> QED BY <1>5, <1>7, <1>11, <2>1, SeqEqual
<1> QED BY <1>4, <1>11, <1>12

\* The state of both programs is of the kinds declared.
THEOREM TypeCorrect == Spec => []TypeOK
<1>1. IInv => TypeOK
  BY DEF IInv
<1> QED BY <1>1, Inductive, PTL

\* unpack loses the framing, waits for ever or meets an orphan (unpack.c, the
\* loops of common.c) only after a fault of the kind Causes names, and reports
\* success on an incomplete tree only after a bad record, a pack that gave up, a
\* readdir that failed (pack.c:104) or a changing tree.
THEOREM DamageHasCause == Spec => []OutcomeHasCause
<1>1. ASSUME IInv PROVE OutcomeHasCause
  <2>1. ASSUME NEW o \in DOMAIN Causes, rpc = o PROVE log \cap Causes[o] # {}
    <3>1. o \in {"misread", "spin", "orphan"}
      BY <2>1 DEF Causes
    <3>2. /\ Causes["misread"] = Bad /\ Causes["spin"] = {"record", "killed"}
          /\ Causes["orphan"] = {"record"}
      BY DEF Causes, Bad
    <3> QED BY <1>1, <2>1, <3>1, <3>2 DEF IInv, UnpackInv, Blamed
  <2>2. ASSUME rpc = "ok", made # Paths PROVE log \cap {"record", "pack", "readdir", "tree"} # {}
    BY <1>1, <2>2, WholeTree
  <2> QED BY <2>1, <2>2 DEF OutcomeHasCause
<1> QED BY <1>1, Inductive, PTL

\* However often copy_file's write() is cut short (pack.c:33), unpack ends with
\* success and every file has its length.
THEOREM ShortWritesKeepFraming == Spec => []ShortKeepsFraming
<1>1. ASSUME IInv PROVE ShortKeepsFraming
  <2> SUFFICES ASSUME rpc \in Ended, log \subseteq {"short"}
               PROVE  rpc = "ok" /\ \A p \in Files : Len(out[p]) = Len(Unpacked(p))
    BY DEF ShortKeepsFraming
  <2>1. log \cap Bad = {} /\ "record" \notin log /\ "unpack" \notin log /\ "readdir" \notin log
        /\ log \cap {"record", "killed"} = {}
    BY DEF Bad
  <2>2. rpc = "ok"
    BY <1>1, <2>1 DEF IInv, UnpackInv, Blamed, Ended
  <2> QED BY <1>1, <2>1, <2>2, FileRestored
<1> QED BY <1>1, Inductive, PTL

\* When nothing went wrong but an unpack that failed or was killed, the last run
\* restores every path and every byte of the tree, for any tree and any order of
\* readdir; only tails of longer old files stay (unpack.c:122 has no O_TRUNC).
THEOREM RoundTripHolds == Spec => []RoundTrip
<1>1. ASSUME IInv PROVE RoundTrip
  <2> SUFFICES ASSUME rpc \in Ended, log \subseteq {"unpack"}
               PROVE  \/ rpc = "fail" /\ log # {}
                      \/ rpc = "ok" /\ made = Paths /\ \A p \in Files : out[p] = Unpacked(p)
    BY DEF RoundTrip
  <2>1. log \cap Bad = {} /\ "record" \notin log /\ log \cap {"record", "killed"} = {} /\ "readdir" \notin log
        /\ log \cap {"record", "pack", "readdir", "tree"} = {}
    BY DEF Bad
  <2>2. rpc = "ok" \/ (rpc = "fail" /\ log # {})
    BY <1>1, <2>1 DEF IInv, UnpackInv, Blamed, Ended
  <2> QED BY <1>1, <2>1, <2>2, WholeTree, FileRestored
<1> QED BY <1>1, Inductive, PTL
-----------------------------------------------------------------------------
\* What unpack has left to do: the units it has not read, and what to do with the
\* record in hand.
UnpackLeft ==
    2 * (Len(pkg) - pos) + (IF rpc = "data" THEN 2 ELSE IF rpc = "record" THEN 1 ELSE 0)

\* unpack's two loops come to an end on any archive, whole, cut or damaged: each
\* step leaves less to do, in natural numbers.  (That it takes its steps, but for
\* the read that waits for ever, is the fairness, which UnpackEnds leaves to TLC.)
THEOREM UnpackShrinks ==
    Spec => [][UnpackStep => /\ UnpackLeft \in Nat /\ UnpackLeft' \in Nat
                             /\ UnpackLeft' < UnpackLeft]_vars
<1>1. ASSUME TypeOK, TypeOK', UnpackStep
      PROVE  UnpackLeft \in Nat /\ UnpackLeft' \in Nat /\ UnpackLeft' < UnpackLeft
  <2>1. PICK l \in Nat, i \in Nat, j \in Nat :
           l = Len(pkg) /\ i = pos /\ j = pos' /\ i <= l /\ pkg' = pkg
    BY <1>1 DEF TypeOK, UnpackStep, ReadRecord, ReadData, packVars
  <2>2. i <= l /\ j <= l /\ rleft \in Nat /\ pos \in Nat
    BY <1>1, <2>1 DEF TypeOK
  <2>3. PICK r \in 0..2, q \in 0..2 :
           /\ r = IF rpc = "data" THEN 2 ELSE IF rpc = "record" THEN 1 ELSE 0
           /\ q = IF rpc' = "data" THEN 2 ELSE IF rpc' = "record" THEN 1 ELSE 0
    OBVIOUS
  <2>4. UnpackLeft = 2 * (l - i) + r /\ UnpackLeft' = 2 * (l - j) + q
    BY <2>1, <2>3 DEF UnpackLeft
  <2> SUFFICES 2 * (l - j) + q < 2 * (l - i) + r
    <3>1. 2 * (l - i) + r \in Nat /\ 2 * (l - j) + q \in Nat
      BY <2>2
    <3> QED BY <2>4, <3>1
  <2>5. CASE ReadRecord
    <3>1. /\ rpc = "record"
          /\ \/ j = i /\ rpc' \in {"fail", "spin", "misread"}
             \/ j = i + 3 /\ rpc' \in {"ok", "record", "orphan", "data", "fail", "misread"}
      BY <2>1, <2>5 DEF ReadRecord, AfterDirAsFile
    <3>2. r = 1 /\ ((j = i /\ q = 0) \/ j = i + 3)
      BY <2>3, <3>1
    <3> QED BY <3>2
  <2>6. CASE ReadData
    <3>1. PICK n \in Nat : n = IF rleft < BlockSize THEN rleft ELSE BlockSize
      BY <2>2, TreeAssumption
    <3>2. PICK got \in Nat : got = Bytes(n)
      BY <2>2, <3>1, BytesAhead
    <3>3. /\ rpc = "data"
          /\ \/ j = i /\ rpc' \in {"record", "fail", "misread"}
             \/ got > 0 /\ j = i + got /\ rpc' \in {"record", "data"}
      BY <2>1, <2>6, <3>1, <3>2 DEF ReadData
    <3>4. r = 2 /\ ((j = i /\ q <= 1) \/ (got > 0 /\ j = i + got))
      BY <2>3, <3>3
    <3> QED BY <3>4
  <2> QED BY <1>1, <2>5, <2>6 DEF UnpackStep
<1>2. TypeOK /\ TypeOK' /\ [Next]_vars =>
          [UnpackStep => /\ UnpackLeft \in Nat /\ UnpackLeft' \in Nat
                         /\ UnpackLeft' < UnpackLeft]_vars
  BY <1>1
<1> QED BY <1>2, TypeCorrect, PTL DEF Spec
=============================================================================
