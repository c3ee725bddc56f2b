--------------------------- MODULE FileCopyProofs ---------------------------
(***************************************************************************)
(* What Path::copy does to the bytes and to the destination's name, for    *)
(* any number of calls, any sources, any buffer size and any bound on      *)
(* faults and interruptions.                                               *)
(***************************************************************************)
EXTENDS FileCopy, TLAPS

\* Where each call stands in its loop: the buffer is empty outside the inner
\* loop, an orderly exit means the source is used up, and only calls that
\* overwrite get to remove().
LoopState ==
    \A c \in Copiers :
        /\ outcome[c] # "none" => pc[c] = "done"
        /\ pc[c] \notin {"write", "done"} => Len(buf[c]) = 0
        /\ pc[c] = "close" /\ c \notin cutShort => off[c] = Len(Source[c])
        /\ outcome[c] = "copied" => /\ Len(buf[c]) = 0
                                    /\ c \in cutShort \/ off[c] = Len(Source[c])
        /\ pc[c] = "remove" => c \in OverWrite

\* A call is past open(dest) when it has created the destination.
CreatedPlace == \A c \in created : pc[c] \in {"read", "write", "close", "done"}

IInv == TypeOK /\ PrefixCopied /\ LoopState /\ CreatedPlace /\ FirstKeepsDest

-----------------------------------------------------------------------------
LEMMA SourceType ==
    ASSUME NEW c \in Copiers
    PROVE  Source[c] \in Seq(STRING) /\ Len(Source[c]) \in Nat
<1>1. Source[c] \in Seq(STRING)
    BY SourceAssumption
<1>2. QED BY <1>1

LEMMA SubSeqFacts ==
    ASSUME NEW s \in Seq(STRING), NEW m \in Nat, NEW n \in Nat, m + n <= Len(s)
    PROVE  /\ SubSeq(s, m + 1, m + n) \in Seq(STRING)
           /\ Len(SubSeq(s, m + 1, m + n)) = n
           /\ \A i \in 1..n : SubSeq(s, m + 1, m + n)[i] = s[m + i]
OBVIOUS

LEMMA AdvanceFacts ==
    ASSUME NEW b \in Seq(STRING), NEW n \in 0..Len(b)
    PROVE  /\ Advance(b, n) \in Seq(STRING)
           /\ Len(Advance(b, n)) = Len(b) - n
           /\ \A i \in 1..(Len(b) - n) : Advance(b, n)[i] = b[n + i]
BY DEF Advance

LEMMA AppendFacts ==
    ASSUME NEW f \in Seq(STRING), NEW b \in Seq(STRING), NEW n \in 1..Len(b)
    PROVE  /\ f \o SubSeq(b, 1, n) \in Seq(STRING)
           /\ Len(f \o SubSeq(b, 1, n)) = Len(f) + n
           /\ \A i \in 1..Len(f) : (f \o SubSeq(b, 1, n))[i] = f[i]
           /\ \A i \in 1..n : (f \o SubSeq(b, 1, n))[Len(f) + i] = b[i]
OBVIOUS

LEMMA FaultType ==
    ASSUME TypeOK, Fault
    PROVE  faults' \in 0..MaxFaults
BY SizeAssumption DEF Fault, TypeOK

-----------------------------------------------------------------------------
LEMMA IInvInit == Init => IInv
<1> SUFFICES ASSUME Init PROVE IInv OBVIOUS
<1>1. TypeOK
    BY FlagAssumption, SizeAssumption DEF Init, TypeOK, Steps, Outcomes
<1>2. PrefixCopied
    <2>1. ASSUME NEW c \in Copiers PROVE Splits(<<>>, <<>>, 0, Source[c])
        BY SourceType DEF Splits
    <2>2. QED BY <2>1 DEF Init, PrefixCopied
<1>3. LoopState
    BY DEF Init, LoopState
<1>4. CreatedPlace /\ FirstKeepsDest
    BY DEF Init, CreatedPlace, FirstKeepsDest
<1>5. QED BY <1>1, <1>2, <1>3, <1>4 DEF IInv

\* A step that reads and writes nothing.
LEMMA IdleStep ==
    ASSUME IInv, NEW c \in Copiers,
           AccessSrc(c) \/ AccessDest(c) \/ Remove(c) \/ OpenSrc(c)
               \/ OpenDest(c) \/ Close(c) \/ Vanish(c)
    PROVE  TypeOK' /\ PrefixCopied' /\ LoopState'
<1> USE DEF IInv
<1>1. TypeOK'
    <2> USE FaultType DEF TypeOK, Steps, Outcomes, Goto, Return, ioVars
    <2>1. CASE AccessSrc(c) \/ AccessDest(c) BY <2>1 DEF AccessSrc, AccessDest
    <2>2. CASE Remove(c) BY <2>2 DEF Remove
    <2>3. CASE OpenSrc(c)
        <3>1. /\ pc' \in [Copiers -> Steps] /\ outcome' \in [Copiers -> Outcomes]
            BY <2>3 DEF OpenSrc
        <3>2. noSrc' \subseteq Copiers /\ faults' \in 0..MaxFaults
            BY <2>3 DEF OpenSrc
        <3>3. QED BY <2>3, <3>1, <3>2 DEF OpenSrc
    <2>4. CASE OpenDest(c) BY <2>4 DEF OpenDest
    <2>5. CASE Close(c) BY <2>5 DEF Close
    <2>6. CASE Vanish(c) BY <2>6 DEF Vanish
    <2>7. QED BY <2>1, <2>2, <2>3, <2>4, <2>5, <2>6
<1>2. UNCHANGED <<file, off, buf, cutShort>>
    BY DEF AccessSrc, AccessDest, Remove, OpenSrc, OpenDest, Close, Vanish, ioVars
<1>3. PrefixCopied'
    BY <1>2 DEF PrefixCopied
<1>4. \A d \in Copiers : d # c => pc'[d] = pc[d] /\ outcome'[d] = outcome[d]
    BY DEF AccessSrc, AccessDest, Remove, OpenSrc, OpenDest, Close, Vanish, Goto, Return, TypeOK
<1>5. CASE Vanish(c)
    <2>1. pc' = pc /\ outcome' = outcome /\ buf' = buf /\ off' = off /\ cutShort' = cutShort
        BY <1>2, <1>5 DEF Vanish
    <2>2. QED BY <1>1, <1>3, <2>1 DEF LoopState
<1>6. CASE Close(c)
    <2>1. /\ pc[c] = "close" /\ pc'[c] = "done" /\ outcome'[c] \in {"copied", "failed"}
        BY <1>6 DEF Close, Return, Goto, TypeOK
    <2>2. buf' = buf /\ off' = off /\ cutShort' = cutShort
        BY <1>2
    <2>3. QED BY <1>1, <1>3, <1>4, <2>1, <2>2 DEF LoopState
<1>7. CASE AccessSrc(c) \/ AccessDest(c) \/ Remove(c) \/ OpenSrc(c) \/ OpenDest(c)
    <2>1. /\ pc[c] \notin {"write", "done"}
          /\ \/ pc'[c] \in {"accessDest", "openSrc", "openDest", "read"} /\ outcome'[c] = outcome[c]
             \/ pc'[c] = "remove" /\ outcome'[c] = outcome[c] /\ c \in OverWrite
             \/ pc'[c] = "done" /\ outcome'[c] # "copied"
        BY <1>7 DEF AccessSrc, AccessDest, Remove, OpenSrc, OpenDest, Return, Goto, TypeOK
    <2>2. buf' = buf /\ off' = off /\ cutShort' = cutShort
        BY <1>2
    <2>3. QED BY <1>1, <1>3, <1>4, <2>1, <2>2 DEF LoopState
<1>8. QED BY <1>1, <1>3, <1>5, <1>6, <1>7

LEMMA ReadStep ==
    ASSUME IInv, NEW c \in Copiers, Read(c)
    PROVE  TypeOK' /\ PrefixCopied' /\ LoopState'
<1> USE DEF IInv
<1>1. /\ pc[c] = "read" /\ outcome[c] = "none" /\ Len(buf[c]) = 0
      /\ UNCHANGED <<outcome, dest, file, created, gone, noSrc, eintr>>
    BY DEF Read, Goto, LoopState, TypeOK, Outcomes
<1>2. CASE UNCHANGED <<off, buf>>
    <2>1. /\ pc' = [pc EXCEPT ![c] = "close"] /\ cutShort' \subseteq cutShort \cup {c}
          /\ cutShort \subseteq cutShort' /\ faults' \in 0..MaxFaults
          /\ c \notin cutShort' => off[c] = Len(Source[c])
        BY <1>1, <1>2, FaultType, SourceType, SizeAssumption DEF Read, Goto, TypeOK
    <2>2. TypeOK'
        BY <1>1, <1>2, <2>1 DEF TypeOK, Steps
    <2>3. PrefixCopied'
        BY <1>1, <1>2 DEF PrefixCopied
    <2>4. LoopState'
        BY <1>1, <1>2, <2>1 DEF LoopState, TypeOK
    <2>5. QED BY <2>2, <2>3, <2>4
<1>3. CASE ~UNCHANGED <<off, buf>>
    <2>1. PICK n \in 1..BufSize :
             /\ off[c] + n <= Len(Source[c])
             /\ buf' = [buf EXCEPT ![c] = SubSeq(Source[c], off[c] + 1, off[c] + n)]
             /\ off' = [off EXCEPT ![c] = @ + n]
             /\ pc' = [pc EXCEPT ![c] = "write"] /\ UNCHANGED <<cutShort, faults>>
        BY <1>3 DEF Read, Goto
    <2> DEFINE new == SubSeq(Source[c], off[c] + 1, off[c] + n)
    <2>2. n \in Nat /\ n > 0 /\ off[c] \in Nat
        BY SizeAssumption DEF TypeOK
    <2>3. /\ new \in Seq(STRING) /\ Len(new) = n
          /\ \A i \in 1..n : new[i] = Source[c][off[c] + i]
        BY <2>1, <2>2, SourceType, SubSeqFacts
    <2>4. buf'[c] = new /\ off'[c] = off[c] + n /\ pc'[c] = "write"
        BY <2>1 DEF TypeOK
    <2>5. \A d \in Copiers : d # c => buf'[d] = buf[d] /\ off'[d] = off[d] /\ pc'[d] = pc[d]
        BY <2>1 DEF TypeOK
    <2> HIDE DEF new
    <2>6. TypeOK'
        <3>1. buf' \in [Copiers -> Seq(STRING)]
            BY <2>1, <2>3 DEF TypeOK, new
        <3>2. off' \in [Copiers -> Nat]
            BY <2>1, <2>2 DEF TypeOK
        <3>3. QED BY <1>1, <2>1, <3>1, <3>2 DEF TypeOK, Steps
    <2>7. PrefixCopied'
        <3>1. Len(file[c]) = off[c]
            BY <1>1 DEF PrefixCopied, Splits, TypeOK
        <3>2. ASSUME NEW d \in Copiers, d # c
              PROVE  Splits(file'[d], buf'[d], off'[d], Source[d])
            BY <1>1, <2>5, <3>2 DEF PrefixCopied
        <3>3. Splits(file'[c], buf'[c], off'[c], Source[c])
            <4>1. Splits(file[c], new, off[c] + n, Source[c])
                BY <2>1, <2>2, <2>3, <3>1 DEF PrefixCopied, Splits
            <4>2. QED BY <1>1, <2>4, <4>1
        <3>4. QED BY <3>2, <3>3 DEF PrefixCopied
    <2>8. LoopState'
        BY <1>1, <2>1, <2>4, <2>5 DEF LoopState
    <2>9. QED BY <2>6, <2>7, <2>8
<1>4. QED BY <1>2, <1>3

LEMMA WriteStep ==
    ASSUME IInv, NEW c \in Copiers, Write(c)
    PROVE  TypeOK' /\ PrefixCopied' /\ LoopState'
<1> USE DEF IInv
<1>1. /\ pc[c] = "write" /\ outcome[c] = "none"
      /\ UNCHANGED <<dest, created, off, gone, noSrc, cutShort>>
    BY DEF Write, Goto, Return, LoopState, TypeOK, Outcomes
<1>2. CASE UNCHANGED <<file, buf>>
    <2>1. \/ UNCHANGED <<pc, outcome, faults>> /\ eintr' \in 0..MaxEINTR
          \/ /\ pc' = [pc EXCEPT ![c] = "done"] /\ outcome' = [outcome EXCEPT ![c] = "failed"]
             /\ faults' \in 0..MaxFaults /\ UNCHANGED eintr
        <3>1. CASE \E n \in 1..Len(buf[c]) : buf' = [buf EXCEPT ![c] = Advance(buf[c], n)]
            <4>1. PICK n \in 1..Len(buf[c]) : buf' = [buf EXCEPT ![c] = Advance(buf[c], n)]
                BY <3>1
            <4>2. Len(buf'[c]) = Len(buf[c]) - n /\ Len(buf[c]) \in Nat
                BY <4>1, AdvanceFacts DEF TypeOK
            <4>3. QED BY <1>2, <4>2
        <3>2. CASE eintr < MaxEINTR /\ eintr' = eintr + 1 /\ UNCHANGED <<pc, outcome, faults>>
            <4>1. eintr' \in 0..MaxEINTR
                BY <3>2, SizeAssumption DEF TypeOK
            <4>2. QED BY <3>2, <4>1
        <3>3. CASE Return(c, "write", "failed") /\ Fault /\ UNCHANGED eintr
            <4>1. faults' \in 0..MaxFaults
                BY <3>3, FaultType
            <4>2. QED BY <3>3, <4>1 DEF Return, Goto
        <3>4. QED BY <3>1, <3>2, <3>3 DEF Write
    <2>2. TypeOK'
        BY <1>1, <1>2, <2>1 DEF TypeOK, Steps, Outcomes
    <2>3. PrefixCopied'
        BY <1>1, <1>2 DEF PrefixCopied
    <2>4. LoopState'
        BY <1>1, <1>2, <2>1 DEF LoopState, TypeOK
    <2>5. QED BY <2>2, <2>3, <2>4
<1>3. CASE ~UNCHANGED <<file, buf>>
    <2>1. PICK n \in 1..Len(buf[c]) :
             /\ file' = [file EXCEPT ![c] = @ \o SubSeq(buf[c], 1, n)]
             /\ buf' = [buf EXCEPT ![c] = Advance(buf[c], n)]
             /\ pc' = [pc EXCEPT ![c] = IF n = Len(buf[c]) THEN "read" ELSE "write"]
             /\ UNCHANGED <<outcome, faults, eintr>>
        BY <1>3 DEF Write, Goto
    <2> DEFINE f == file[c]
               b == buf[c]
               newF == f \o SubSeq(b, 1, n)
               newB == Advance(b, n)
    <2>2. f \in Seq(STRING) /\ b \in Seq(STRING) /\ n \in 1..Len(b)
        BY DEF TypeOK
    <2>3. /\ newF \in Seq(STRING) /\ Len(newF) = Len(f) + n
          /\ \A i \in 1..Len(f) : newF[i] = f[i]
          /\ \A i \in 1..n : newF[Len(f) + i] = b[i]
        BY <2>2, AppendFacts
    <2>4. /\ newB \in Seq(STRING) /\ Len(newB) = Len(b) - n
          /\ \A i \in 1..(Len(b) - n) : newB[i] = b[n + i]
        <3>1. n \in 0..Len(b)
            BY <2>2
        <3>2. QED BY <2>2, <3>1, AdvanceFacts
    <2>5. /\ file'[c] = newF /\ buf'[c] = newB
          /\ pc'[c] = IF n = Len(b) THEN "read" ELSE "write"
          /\ \A d \in Copiers : d # c => file'[d] = file[d] /\ buf'[d] = buf[d] /\ pc'[d] = pc[d]
        BY <2>1 DEF TypeOK
    <2>6. TypeOK'
        <3>1. file' \in [Copiers -> Seq(STRING)] /\ buf' \in [Copiers -> Seq(STRING)]
            BY <2>1, <2>3, <2>4 DEF TypeOK
        <3>2. QED BY <1>1, <2>1, <3>1 DEF TypeOK, Steps
    <2> HIDE DEF newF, newB
    <2>7. PrefixCopied'
        <3>1. Splits(f, b, off[c], Source[c])
            BY DEF PrefixCopied
        <3> HIDE DEF f, b
        <3>2. Splits(newF, newB, off[c], Source[c])
            <4>1. ASSUME NEW i \in 1..Len(newF) PROVE newF[i] = Source[c][i]
                <5>1. CASE i <= Len(f)
                    BY <5>1, <2>2, <2>3, <3>1 DEF Splits
                <5>2. CASE i > Len(f)
                    <6>1. i - Len(f) \in 1..n /\ i = Len(f) + (i - Len(f))
                        BY <5>2, <2>2, <2>3
                    <6>2. newF[i] = b[i - Len(f)] /\ b[i - Len(f)] = Source[c][i]
                        BY <6>1, <2>2, <2>3, <3>1 DEF Splits
                    <6>3. QED BY <6>2
                <5>3. QED BY <5>1, <5>2, <2>2, <2>3
            <4>2. ASSUME NEW j \in 1..Len(newB) PROVE newB[j] = Source[c][Len(newF) + j]
                <5>1. n + j \in 1..Len(b) /\ Len(newF) + j = Len(f) + (n + j)
                    BY <2>2, <2>3, <2>4
                <5>2. newB[j] = b[n + j] /\ b[n + j] = Source[c][Len(f) + (n + j)]
                    BY <5>1, <2>2, <2>4, <3>1 DEF Splits
                <5>3. QED BY <5>1, <5>2
            <4>3. QED BY <4>1, <4>2, <2>2, <2>3, <2>4, <3>1 DEF Splits
        <3>3. ASSUME NEW d \in Copiers PROVE Splits(file'[d], buf'[d], off'[d], Source[d])
            BY <1>1, <2>5, <3>2 DEF PrefixCopied
        <3>4. QED BY <3>3 DEF PrefixCopied
    <2>8. LoopState'
        <3>1. Len(buf'[c]) = Len(b) - n /\ Len(b) \in Nat
            BY <2>2, <2>4, <2>5
        <3>2. QED BY <1>1, <2>1, <2>5, <3>1 DEF LoopState
    <2>9. QED BY <2>6, <2>7, <2>8
<1>4. QED BY <1>2, <1>3

\* A call that may have taken the destination away stays one; and calls move on.
LEMMA TakersStay ==
    ASSUME IInv, NEW c \in Copiers, Step(c) \/ Vanish(c)
    PROVE  /\ Takers \subseteq Takers'
           /\ CreatedPlace'
<1> USE DEF IInv
<1>1. \A d \in Copiers : d # c => pc'[d] = pc[d] /\ outcome'[d] = outcome[d]
    BY DEF Step, AccessSrc, AccessDest, Remove, OpenSrc, OpenDest, Read, Write, Close,
           Vanish, Goto, Return, TypeOK
<1>2. CASE Vanish(c)
    BY <1>2 DEF Vanish, Takers, CreatedPlace, ioVars
<1>3. CASE AccessSrc(c) \/ AccessDest(c) \/ Remove(c)
    <2>1. pc[c] \in {"access", "accessDest", "remove"} /\ created' = created
        BY <1>3 DEF AccessSrc, AccessDest, Remove, Return, Goto, ioVars
    <2>2. c \notin created /\ c \notin Takers
        BY <2>1 DEF CreatedPlace, Takers
    <2>3. QED BY <1>1, <2>1, <2>2, FlagAssumption DEF CreatedPlace, Takers, TypeOK
<1>4. CASE OpenSrc(c)
    <2>1. /\ pc[c] = "openSrc" /\ created' = created
          /\ pc'[c] \in {"openDest", "done"} /\ outcome'[c] \in {outcome[c], "stray"}
        BY <1>4 DEF OpenSrc, Return, Goto, TypeOK, ioVars
    <2>2. c \notin created
        BY <2>1 DEF CreatedPlace
    <2>3. QED BY <1>1, <2>1, <2>2, FlagAssumption DEF CreatedPlace, Takers, TypeOK
<1>5. CASE OpenDest(c) \/ Read(c) \/ Write(c) \/ Close(c)
    <2>1. /\ created' \subseteq created \cup {c}
          /\ pc'[c] \in {"read", "write", "close", "done"}
          /\ outcome'[c] = outcome[c] \/ outcome'[c] # "throw"
        <3>1. CASE OpenDest(c) BY <3>1 DEF OpenDest, Return, Goto, TypeOK
        <3>2. CASE Read(c)     BY <3>2 DEF Read, Goto, TypeOK
        <3>3. CASE Write(c)    BY <3>3 DEF Write, Return, Goto, TypeOK
        <3>4. CASE Close(c)    BY <3>4 DEF Close, Return, Goto, TypeOK, ioVars
        <3>5. QED BY <1>5, <3>1, <3>2, <3>3, <3>4
    <2>2. QED BY <1>1, <2>1, FlagAssumption DEF CreatedPlace, Takers, TypeOK
<1>6. QED BY <1>2, <1>3, <1>4, <1>5 DEF Step

\* A destination is created where there is none, and removed only on request.
LEMMA NameStep ==
    ASSUME IInv, NEW c \in Copiers, Step(c) \/ Vanish(c)
    PROVE  FirstKeepsDest'
<1> USE DEF IInv
<1> SUFFICES ASSUME NEW d \in (created' \cup {DestBefore}) \ {Absent}
             PROVE  dest' = d \/ Takers' \ {d} # {}
    BY DEF FirstKeepsDest
<1>1. Takers \subseteq Takers'
    BY TakersStay
<1>2. CASE OpenDest(c)
    <2>1. CASE UNCHANGED <<dest, created>>
        BY <1>1, <2>1 DEF FirstKeepsDest
    <2>2. CASE dest = Absent /\ dest' = c /\ created' = created \cup {c}
        BY <1>1, <2>2 DEF FirstKeepsDest
    <2>3. QED BY <1>2, <2>1, <2>2 DEF OpenDest
<1>3. CASE Remove(c)
    <2>1. /\ pc[c] = "remove" /\ pc'[c] = "openSrc" /\ c \in OverWrite
          /\ outcome'[c] = "none" /\ created' = created
        BY <1>3 DEF Remove, Goto, LoopState, TypeOK, ioVars
    <2>2. c \in Takers'
        BY <2>1 DEF Takers
    <2>3. c # d
        BY <2>1, NamesAssumption, FlagAssumption DEF CreatedPlace
    <2>4. QED BY <2>2, <2>3
<1>4. CASE UNCHANGED <<dest, created>>
    BY <1>1, <1>4 DEF FirstKeepsDest
<1>5. QED
    BY <1>2, <1>3, <1>4
    DEF Step, AccessSrc, AccessDest, OpenSrc, Read, Write, Close, Vanish, ioVars

LEMMA IInvStep == IInv /\ [Next]_vars => IInv'
<1> SUFFICES ASSUME IInv, [Next]_vars PROVE IInv' OBVIOUS
<1>1. CASE UNCHANGED vars
    <2>1. TypeOK' /\ PrefixCopied'
        BY <1>1 DEF vars, ioVars, IInv, TypeOK, PrefixCopied
    <2>2. LoopState' /\ CreatedPlace' /\ FirstKeepsDest'
        BY <1>1 DEF vars, ioVars, IInv, LoopState, CreatedPlace, FirstKeepsDest, Takers
    <2>3. QED BY <2>1, <2>2 DEF IInv
<1>2. ASSUME NEW c \in Copiers, Step(c) \/ Vanish(c) PROVE IInv'
    <2>1. TypeOK' /\ PrefixCopied' /\ LoopState'
        BY <1>2, IdleStep, ReadStep, WriteStep DEF Step
    <2>2. CreatedPlace' /\ FirstKeepsDest'
        BY <1>2, NameStep, TakersStay
    <2>3. QED BY <2>1, <2>2 DEF IInv
<1>3. QED BY <1>1, <1>2 DEF Next

LEMMA Inductive == Spec => []IInv
BY IInvInit, IInvStep, PTL DEF Spec

\* Every variable keeps its type.
THEOREM TypeCorrect == Spec => []TypeOK
<1>1. IInv => TypeOK
    BY DEF IInv
<1>2. QED BY <1>1, Inductive, PTL

\* Short reads, short writes, interruptions and other calls never corrupt a copy.
THEOREM Prefix == Spec => []PrefixCopied
<1>1. IInv => PrefixCopied
    BY DEF IInv
<1>2. QED BY <1>1, Inductive, PTL

\* A call that reports success after copying has copied everything, or its last
\* read() failed.
THEOREM Whole == Spec => []CopiedIsWhole
<1>1. IInv => CopiedIsWhole
    <2> SUFFICES ASSUME IInv, NEW c \in Copiers, outcome[c] = "copied", c \notin cutShort
                 PROVE  Len(file[c]) = Len(Source[c])
        BY DEF CopiedIsWhole
    <2>1. Len(buf[c]) = 0 /\ off[c] = Len(Source[c]) /\ Len(file[c]) \in Nat
        BY DEF IInv, LoopState, TypeOK
    <2>2. Len(file[c]) + Len(buf[c]) = off[c]
        BY DEF IInv, PrefixCopied, Splits
    <2>3. QED BY <2>1, <2>2
<1>2. QED BY <1>1, Inductive, PTL

\* The destination stays with whoever has it until a call with overWrite comes.
THEOREM FirstKeeps == Spec => []FirstKeepsDest
<1>1. IInv => FirstKeepsDest
    BY DEF IInv
<1>2. QED BY <1>1, Inductive, PTL
-----------------------------------------------------------------------------
\* The calls that may still create the destination, and those that gave up: as
\* long as there is no destination, there is such a call.
Coming == {c \in Copiers : pc[c] \in {"access", "accessDest", "remove", "openSrc", "openDest"}}
GaveUp == {c \in Copiers : outcome[c] \in {"throw", "stray", "failed"}}

Survival ==
    /\ dest = Absent => Coming \cup GaveUp # {}
    /\ dest \in Copiers => dest \in created
    /\ \A c \in created : outcome[c] \in {"none", "copied", "failed"}

LEMMA SurvivalInit == Init => Survival
BY CopiersAssumption, NamesAssumption, FlagAssumption DEF Init, Survival, Coming

\* A call that may still come, comes, gives up, or finds a destination there.
LEMMA SurvivalStep == IInv /\ Survival /\ [Next]_vars => Survival'
<1> SUFFICES ASSUME IInv, Survival, [Next]_vars PROVE Survival' OBVIOUS
<1> USE DEF IInv
<1>1. CASE UNCHANGED vars
    BY <1>1 DEF vars, ioVars, Survival, Coming, GaveUp
<1> SUFFICES ASSUME NEW c \in Copiers, Step(c) \/ Vanish(c) PROVE Survival'
    BY <1>1 DEF Next
<1>2. \A d \in Copiers : d # c => pc'[d] = pc[d] /\ outcome'[d] = outcome[d]
    BY DEF Step, AccessSrc, AccessDest, Remove, OpenSrc, OpenDest, Read, Write, Close,
           Vanish, Goto, Return, TypeOK
<1>3. CASE OpenDest(c)
    <2>1. c \notin created /\ outcome[c] = "none"
        BY <1>3 DEF OpenDest, Return, Goto, CreatedPlace, LoopState
    <2>2. CASE dest = Absent /\ dest' = c /\ created' = created \cup {c} /\ UNCHANGED outcome
        BY <2>1, <2>2, NamesAssumption DEF Survival
    <2>3. CASE /\ UNCHANGED <<dest, created>> /\ pc' = [pc EXCEPT ![c] = "done"]
               /\ \/ dest # Absent
                  \/ outcome' = [outcome EXCEPT ![c] = "failed"]
        BY <1>2, <2>1, <2>3 DEF Survival, Coming, GaveUp, TypeOK
    <2>4. QED BY <1>3, <2>2, <2>3 DEF OpenDest, Return, Goto
<1>4. CASE Remove(c)
    <2>1. /\ pc' = [pc EXCEPT ![c] = "openSrc"] /\ dest' \in {dest, Absent}
          /\ UNCHANGED <<outcome, created>>
        BY <1>4 DEF Remove, Goto, ioVars
    <2>2. c \in Coming'
        BY <2>1 DEF Coming, TypeOK
    <2>3. QED BY <2>1, <2>2, NamesAssumption DEF Survival
<1>5. CASE AccessSrc(c) \/ AccessDest(c) \/ OpenSrc(c)
    <2>1. /\ UNCHANGED <<dest, created>> /\ c \notin created
          /\ \/ pc'[c] \in {"accessDest", "remove", "openSrc", "openDest"}
             \/ outcome'[c] \in {"throw", "stray"}
             \/ dest # Absent
        BY <1>5 DEF AccessSrc, AccessDest, OpenSrc, Return, Goto, CreatedPlace, TypeOK, ioVars
    <2>2. dest' = Absent => c \in Coming' \cup GaveUp'
        BY <2>1 DEF Coming, GaveUp
    <2>3. QED BY <1>2, <2>1, <2>2 DEF Survival, TypeOK
<1>6. CASE Read(c) \/ Write(c) \/ Close(c)
    <2>1. /\ UNCHANGED <<dest, created>> /\ c \notin Coming /\ outcome[c] = "none"
          /\ outcome'[c] \in {"none", "copied", "failed"}
        BY <1>6 DEF Read, Write, Close, Return, Goto, LoopState, Coming, TypeOK, ioVars
    <2>2. Coming \cup GaveUp \subseteq Coming' \cup GaveUp'
        BY <1>2, <2>1 DEF Coming, GaveUp
    <2>3. QED BY <1>2, <2>1, <2>2 DEF Survival, TypeOK
<1>7. CASE Vanish(c)
    BY <1>7 DEF Vanish, Survival, Coming, GaveUp, ioVars
<1>8. QED BY <1>3, <1>4, <1>5, <1>6, <1>7 DEF Step

\* When all calls have ended and none has failed, the destination is there and whole,
\* whichever calls have removed it on the way.
THEOREM Survives == Spec => []DestinationSurvives
<1>1. Spec => []Survival
    BY SurvivalInit, SurvivalStep, Inductive, PTL DEF Spec
<1>2. IInv /\ CopiedIsWhole /\ Survival => DestinationSurvives
    <2> SUFFICES ASSUME IInv, CopiedIsWhole, Survival, cutShort = {},
                        \A c \in Copiers : outcome[c] \in {"present", "copied", "exists"}
                 PROVE  dest # Absent /\ (dest \in Copiers => Len(file[dest]) = Len(Source[dest]))
        BY DEF DestinationSurvives
    <2>1. Coming = {} /\ GaveUp = {}
        BY DEF IInv, LoopState, Coming, GaveUp
    <2>2. dest \in Copiers => outcome[dest] = "copied"
        BY DEF Survival
    <2>3. QED BY <2>1, <2>2 DEF Survival, CopiedIsWhole
<1>3. QED BY <1>1, <1>2, Inductive, Whole, PTL
-----------------------------------------------------------------------------
(***************************************************************************)
(* Path::copy implements Copy.  A call is past open(dest) when and only    *)
(* when it has created its file, and read() fails once at most.            *)
(***************************************************************************)
Placed ==
    \A c \in Copiers :
        /\ pc[c] \in {"read", "write", "close"} => c \in created
        /\ c \in cutShort => pc[c] \in {"close", "done"}

\* What a call's step leaves alone: the others.
LEMMA OthersStay ==
    ASSUME IInv, NEW c \in Copiers, Step(c) \/ Vanish(c)
    PROVE  \A d \in Copiers : d # c =>
              /\ pc'[d] = pc[d] /\ outcome'[d] = outcome[d]
              /\ d \in created' <=> d \in created
              /\ d \in cutShort' <=> d \in cutShort
<1>1. \A d \in Copiers : d # c => pc'[d] = pc[d] /\ outcome'[d] = outcome[d]
    BY DEF IInv, Step, AccessSrc, AccessDest, Remove, OpenSrc, OpenDest, Read, Write, Close,
           Vanish, Goto, Return, TypeOK
<1>2. created' \in {created, created \cup {c}} /\ cutShort' \in {cutShort, cutShort \cup {c}}
    BY DEF Step, AccessSrc, AccessDest, Remove, OpenSrc, OpenDest, Read, Write, Close, Vanish,
           ioVars
<1>3. QED BY <1>1, <1>2

LEMMA PlacedInit == Init => Placed
BY DEF Init, Placed

LEMMA PlacedStep == IInv /\ Placed /\ [Next]_vars => Placed'
<1> SUFFICES ASSUME IInv, Placed, [Next]_vars PROVE Placed' OBVIOUS
<1>1. CASE UNCHANGED vars
    BY <1>1 DEF vars, ioVars, Placed
<1>2. ASSUME NEW c \in Copiers, Step(c) \/ Vanish(c) PROVE Placed'
    <2>1. \A d \in Copiers : d # c =>
             /\ pc'[d] = pc[d]
             /\ d \in created' <=> d \in created
             /\ d \in cutShort' <=> d \in cutShort
        BY <1>2, OthersStay
    <2>2. /\ pc'[c] \in {"read", "write", "close"} => c \in created'
          /\ c \in cutShort' => pc'[c] \in {"close", "done"}
        <3> USE DEF Placed, Goto, Return, ioVars, IInv, TypeOK
        <3>1. CASE AccessSrc(c) \/ AccessDest(c) \/ Remove(c) \/ OpenSrc(c)
            BY <3>1 DEF AccessSrc, AccessDest, Remove, OpenSrc
        <3>2. CASE OpenDest(c) BY <3>2 DEF OpenDest
        <3>3. CASE Read(c) BY <3>3 DEF Read
        <3>4. CASE Write(c) BY <3>4 DEF Write
        <3>5. CASE Close(c) \/ Vanish(c) BY <3>5 DEF Close, Vanish
        <3>6. QED BY <1>2, <3>1, <3>2, <3>3, <3>4, <3>5 DEF Step
    <2>3. QED BY <2>1, <2>2 DEF Placed
<1>3. QED BY <1>1, <1>2 DEF Next

\* The phases of all calls change with those of the one that steps.
LEMMA PhaseMoves ==
    ASSUME IInv, NEW c \in Copiers, Step(c) \/ Vanish(c)
    PROVE  Phases' = [Phases EXCEPT ![c] = Phase(c)']
<1>1. ASSUME NEW d \in Copiers, d # c PROVE Phase(d)' = Phase(d)
    BY <1>1, OthersStay DEF Phase
<1>2. QED BY <1>1 DEF Phases

\* A call that has not returned: its phase.
LEMMA PhaseNow ==
    ASSUME IInv, Placed, NEW c \in Copiers, pc[c] # "done"
    PROVE  /\ outcome[c] = "none"
           /\ pc[c] \in {"access", "accessDest", "remove", "openSrc", "openDest"}
                 => Phases[c] = "called" /\ c \notin created /\ c \notin cutShort
           /\ pc[c] \in {"read", "write"}
                 => Phases[c] = "writing" /\ c \in created /\ c \notin cutShort
           /\ pc[c] = "close"
                 => c \in created /\ Phases[c] = IF c \in cutShort THEN "cut" ELSE "writing"
<1>1. outcome[c] = "none"
    BY DEF IInv, LoopState
<1>2. QED BY <1>1 DEF IInv, CreatedPlace, Placed, Phase, Phases

LEMMA CopyInit == Init => D!Init
<1> SUFFICES ASSUME Init PROVE D!Init OBVIOUS
<1>1. ASSUME NEW c \in Copiers PROVE Phase(c) = "called"
    BY DEF Init, Phase
<1>2. QED BY <1>1 DEF Init, D!Init, Phases

\* What a write appends is the next piece of the source.
LEMMA PrefixGrows ==
    ASSUME NEW s \in Seq(STRING), NEW f \in Seq(STRING), NEW b \in Seq(STRING), NEW o \in Nat,
           Splits(f, b, o, s), NEW n \in 0..Len(b)
    PROVE  /\ Len(f) + n \in Nat /\ Len(f) + n <= Len(s)
           /\ f \o SubSeq(b, 1, n) = SubSeq(s, 1, Len(f) + n)
<1> DEFINE g == f \o SubSeq(b, 1, n)
           p == SubSeq(s, 1, Len(f) + n)
<1>1. Len(f) \in Nat /\ Len(b) \in Nat /\ Len(s) \in Nat /\ n \in Nat
    OBVIOUS
<1>2. /\ Len(f) + n \in Nat /\ Len(f) + n <= Len(s)
      /\ \A i \in 1..Len(f) : f[i] = s[i]
      /\ \A j \in 1..n : b[j] = s[Len(f) + j]
    <2>1. Len(f) + n \in Nat /\ Len(f) + n <= Len(s)
        BY <1>1 DEF Splits
    <2>2. \A i \in 1..Len(f) : f[i] = s[i]
        BY DEF Splits
    <2>3. \A j \in 1..Len(b) : b[j] = s[Len(f) + j]
        BY DEF Splits
    <2>4. QED BY <1>1, <2>1, <2>2, <2>3
<1>3. /\ SubSeq(b, 1, n) \in Seq(STRING) /\ Len(SubSeq(b, 1, n)) = n
      /\ \A i \in 1..n : SubSeq(b, 1, n)[i] = b[i]
    OBVIOUS
<1>4. /\ g \in Seq(STRING) /\ Len(g) = Len(f) + n
      /\ \A i \in 1..Len(f) : g[i] = f[i]
      /\ \A i \in 1..n : g[Len(f) + i] = b[i]
    BY <1>3
<1>5. /\ p \in Seq(STRING) /\ Len(p) = Len(f) + n
      /\ \A i \in 1..(Len(f) + n) : p[i] = s[i]
    BY <1>2
<1> HIDE DEF g, p
<1>6. ASSUME NEW i \in 1..(Len(f) + n) PROVE g[i] = p[i]
    <2>1. CASE i <= Len(f)
        <3>1. i \in 1..Len(f)
            BY <1>1, <2>1
        <3>2. g[i] = f[i] /\ f[i] = s[i]
            BY <1>2, <1>4, <3>1
        <3>3. QED BY <1>5, <3>2
    <2>2. CASE i > Len(f)
        <3>1. i - Len(f) \in 1..n /\ i = Len(f) + (i - Len(f))
            BY <1>1, <2>2
        <3>2. g[i] = b[i - Len(f)] /\ b[i - Len(f)] = s[i]
            BY <1>2, <1>4, <3>1
        <3>3. QED BY <1>5, <3>2
    <2>3. QED BY <1>1, <2>1, <2>2
<1>7. g = p
    BY <1>1, <1>4, <1>5, <1>6
<1>8. QED BY <1>2, <1>7 DEF g, p

\* A step of one call that Copy allows, or that changes nothing Copy speaks of.
LEMMA CallStep ==
    ASSUME IInv, NEW c \in Copiers, Step(c) \/ Vanish(c),
           \/ UNCHANGED <<dest, file>> /\ Phase(c)' = Phases[c]
           \/ D!Clear(c) \/ D!Create(c) \/ D!Grow(c) \/ D!Cut(c) \/ D!Finish(c)
           \/ D!Keep(c) \/ D!Fail(c)
    PROVE  [D!Next]_(D!vars)
<1>1. CASE UNCHANGED <<dest, file>> /\ Phase(c)' = Phases[c]
    <2>1. Phases' = Phases
        BY <1>1, PhaseMoves DEF Phases
    <2>2. QED BY <1>1, <2>1 DEF D!vars
<1>2. CASE \/ D!Clear(c) \/ D!Create(c) \/ D!Grow(c) \/ D!Cut(c) \/ D!Finish(c)
           \/ D!Keep(c) \/ D!Fail(c)
    BY <1>2 DEF D!Next
<1>3. QED BY <1>1, <1>2

LEMMA EarlyStep ==
    ASSUME IInv, Placed, NEW c \in Copiers,
           AccessSrc(c) \/ AccessDest(c) \/ Remove(c) \/ OpenSrc(c) \/ OpenDest(c)
    PROVE  [D!Next]_(D!vars)
<1>1. Step(c) /\ pc[c] # "done"
    BY DEF Step, AccessSrc, AccessDest, Remove, OpenSrc, OpenDest, Goto, Return
<1>2. /\ pc[c] \in {"access", "accessDest", "remove", "openSrc", "openDest"}
      /\ outcome[c] = "none" /\ Phases[c] = "called" /\ c \notin created /\ c \notin cutShort
    BY <1>1, PhaseNow
       DEF AccessSrc, AccessDest, Remove, OpenSrc, OpenDest, Goto, Return
<1>3. Phases' = [Phases EXCEPT ![c] = Phase(c)']
    BY <1>1, PhaseMoves
<1>4. UNCHANGED <<file, cutShort>>
    BY DEF AccessSrc, AccessDest, Remove, OpenSrc, OpenDest, ioVars
<1> USE DEF Goto, Return, ioVars, TypeOK, IInv
<1>5. CASE UNCHANGED <<dest, created, outcome>>
    <2>1. Phase(c)' = Phases[c]
        BY <1>2, <1>4, <1>5 DEF Phase, Phases
    <2>2. QED BY <1>1, <1>4, <1>5, <2>1, CallStep
<1>6. CASE UNCHANGED <<dest, created>> /\ outcome'[c] \in {"throw", "stray", "failed"}
    <2>1. Phase(c)' = "failed"
        BY <1>6 DEF Phase
    <2>2. D!Fail(c)
        BY <1>2, <1>3, <1>4, <1>6, <2>1 DEF D!Fail, D!Enter
    <2>3. QED BY <1>1, <2>2, CallStep
<1>7. CASE UNCHANGED <<dest, created>> /\ dest # Absent /\ outcome'[c] \in {"present", "exists"}
    <2>1. Phase(c)' = "kept"
        BY <1>7 DEF Phase
    <2>2. D!Keep(c)
        BY <1>2, <1>3, <1>4, <1>7, <2>1 DEF D!Keep, D!Enter
    <2>3. QED BY <1>1, <2>2, CallStep
<1>8. CASE AccessSrc(c) \/ AccessDest(c) \/ OpenSrc(c)
    BY <1>5, <1>6, <1>7, <1>8 DEF AccessSrc, AccessDest, OpenSrc
<1>9. CASE Remove(c)
    <2>1. /\ pc[c] = "remove" /\ UNCHANGED <<created, outcome>>
          /\ dest' = Absent \/ dest' = dest
        BY <1>9 DEF Remove
    <2>2. CASE dest' = Absent
        <3>1. Phase(c)' = "called"
            BY <1>2, <1>4, <2>1 DEF Phase
        <3>2. Phases' = Phases
            BY <1>2, <1>3, <3>1 DEF Phases
        <3>3. D!Clear(c)
            BY <1>2, <1>4, <2>1, <2>2, <3>2 DEF D!Clear, LoopState
        <3>4. QED BY <1>1, <3>3, CallStep
    <2>3. QED BY <1>5, <2>1, <2>2
<1>10. CASE OpenDest(c)
    <2>1. CASE /\ dest = Absent /\ dest' = c /\ created' = created \cup {c}
               /\ UNCHANGED outcome
        <3>1. Phase(c)' = "writing"
            BY <1>2, <1>4, <2>1 DEF Phase
        <3>2. D!Create(c)
            BY <1>2, <1>3, <1>4, <2>1, <3>1 DEF D!Create, D!Enter
        <3>3. QED BY <1>1, <3>2, CallStep
    <2>2. \/ dest = Absent /\ dest' = c /\ created' = created \cup {c} /\ UNCHANGED outcome
          \/ dest # Absent /\ UNCHANGED <<dest, created>> /\ outcome'[c] = "exists"
          \/ UNCHANGED <<dest, created>> /\ outcome'[c] = "failed"
        BY <1>10 DEF OpenDest
    <2>3. QED BY <1>6, <1>7, <2>1, <2>2
<1>11. QED BY <1>8, <1>9, <1>10

\* Behind the loop everything has been written, unless read() failed.
LEMMA AllCopied ==
    ASSUME IInv, NEW c \in Copiers, pc[c] = "close", c \notin cutShort
    PROVE  file[c] = Source[c]
<1>1. /\ Source[c] \in Seq(STRING) /\ file[c] \in Seq(STRING) /\ Len(buf[c]) = 0
      /\ Len(file[c]) + Len(buf[c]) = Len(Source[c])
      /\ \A i \in 1..Len(file[c]) : file[c][i] = Source[c][i]
    BY SourceType DEF IInv, TypeOK, LoopState, PrefixCopied, Splits
<1>2. Len(file[c]) = Len(Source[c])
    BY <1>1
<1>3. QED BY <1>1, <1>2

LEMMA LateStep ==
    ASSUME IInv, Placed, NEW c \in Copiers, Read(c) \/ Close(c) \/ Vanish(c)
    PROVE  [D!Next]_(D!vars)
<1>1. Phases' = [Phases EXCEPT ![c] = Phase(c)']
    BY PhaseMoves DEF Step
<1>2. UNCHANGED <<dest, file, created>>
    BY DEF Read, Close, Vanish, ioVars
<1> USE DEF Goto, Return, ioVars, TypeOK, IInv
<1>3. CASE UNCHANGED <<outcome, cutShort>>
    <2>1. Phase(c)' = Phases[c]
        BY <1>2, <1>3 DEF Phase, Phases
    <2>2. QED BY <1>2, <2>1, CallStep DEF Step
<1>4. CASE Read(c)
    <2>1. /\ outcome[c] = "none" /\ Phases[c] = "writing" /\ c \in created
        BY <1>4, PhaseNow DEF Read
    <2>2. CASE cutShort' = cutShort \cup {c}
        <3>1. Phase(c)' = "cut"
            BY <1>4, <2>1, <2>2 DEF Read, Phase
        <3>2. D!Cut(c)
            BY <1>1, <1>2, <2>1, <3>1 DEF D!Cut, D!Enter
        <3>3. QED BY <1>4, <3>2, CallStep DEF Step
    <2>3. QED BY <1>3, <1>4, <2>2 DEF Read
<1>5. CASE Close(c)
    <2>1. /\ pc[c] = "close" /\ outcome'[c] \in {"copied", "failed"}
          /\ Phases[c] = IF c \in cutShort THEN "cut" ELSE "writing"
        BY <1>5, PhaseNow DEF Close
    <2>2. CASE outcome'[c] = "failed"
        <3>1. Phase(c)' = "failed"
            BY <2>2 DEF Phase
        <3>2. D!Fail(c)
            BY <1>1, <1>2, <2>1, <3>1 DEF D!Fail, D!Enter
        <3>3. QED BY <1>5, <3>2, CallStep DEF Step
    <2>3. CASE outcome'[c] = "copied"
        <3>1. Phase(c)' = "copied"
            BY <2>3 DEF Phase
        <3>2. c \notin cutShort => file[c] = Source[c]
            BY <2>1, AllCopied
        <3>3. D!Finish(c)
            BY <1>1, <1>2, <2>1, <3>1, <3>2 DEF D!Finish, D!Enter
        <3>4. QED BY <1>5, <3>3, CallStep DEF Step
    <2>4. QED BY <2>1, <2>2, <2>3
<1>6. QED BY <1>3, <1>4, <1>5 DEF Vanish

LEMMA GrowStep ==
    ASSUME IInv, Placed, NEW c \in Copiers, Write(c)
    PROVE  [D!Next]_(D!vars)
<1>1. Phases' = [Phases EXCEPT ![c] = Phase(c)']
    BY PhaseMoves DEF Step
<1>2. /\ pc[c] = "write" /\ outcome[c] = "none" /\ Phases[c] = "writing"
      /\ c \in created /\ c \notin cutShort /\ UNCHANGED <<dest, created, cutShort>>
    BY PhaseNow DEF Write, Goto, Return
<1>3. CASE UNCHANGED <<file, outcome>>
    <2>1. Phase(c)' = Phases[c]
        BY <1>2, <1>3 DEF Phase, Phases
    <2>2. QED BY <1>2, <1>3, <2>1, CallStep DEF Step
<1>4. CASE UNCHANGED file /\ Return(c, "write", "failed")
    <2>1. Phase(c)' = "failed"
        BY <1>4 DEF Phase, Return, IInv, TypeOK
    <2>2. D!Fail(c)
        BY <1>1, <1>2, <1>4, <2>1 DEF D!Fail, D!Enter
    <2>3. QED BY <2>2, CallStep DEF Step
<1>5. ASSUME NEW n \in 1..Len(buf[c]), UNCHANGED outcome,
             file' = [file EXCEPT ![c] = @ \o SubSeq(buf[c], 1, n)]
      PROVE  [D!Next]_(D!vars)
    <2>1. /\ Source[c] \in Seq(STRING) /\ file[c] \in Seq(STRING) /\ buf[c] \in Seq(STRING)
          /\ off[c] \in Nat /\ Splits(file[c], buf[c], off[c], Source[c])
        BY SourceType DEF IInv, TypeOK, PrefixCopied
    <2>2. n \in 0..Len(buf[c]) /\ n >= 1 /\ Len(file[c]) \in Nat /\ Len(Source[c]) \in Nat
        BY <2>1
    <2>3. PICK m \in (Len(file[c]) + 1)..Len(Source[c]) :
             file[c] \o SubSeq(buf[c], 1, n) = SubSeq(Source[c], 1, m)
        <3>1. /\ Len(file[c]) + n \in Nat /\ Len(file[c]) + n <= Len(Source[c])
              /\ file[c] \o SubSeq(buf[c], 1, n) = SubSeq(Source[c], 1, Len(file[c]) + n)
            BY <2>1, <2>2, PrefixGrows
        <3>2. Len(file[c]) + n \in (Len(file[c]) + 1)..Len(Source[c])
            BY <2>2, <3>1
        <3>3. QED BY <3>1, <3>2
    <2>4. file' = [file EXCEPT ![c] = SubSeq(Source[c], 1, m)]
        BY <1>5, <2>3
    <2>5. Phases' = Phases
        BY <1>1, <1>2, <1>5 DEF Phase, Phases
    <2>6. D!Grow(c)
        BY <1>2, <2>4, <2>5 DEF D!Grow
    <2>7. QED BY <2>6, CallStep DEF Step
<1>6. QED BY <1>3, <1>4, <1>5 DEF Write

LEMMA CopyStep ==
    IInv /\ Placed /\ [Next]_vars => [D!Next]_(D!vars)
<1> SUFFICES ASSUME IInv, Placed, [Next]_vars PROVE [D!Next]_(D!vars)
    OBVIOUS
<1>1. CASE UNCHANGED vars
    <2>1. \A c \in Copiers : Phase(c)' = Phase(c)
        BY <1>1 DEF vars, ioVars, Phase
    <2>2. QED BY <1>1, <2>1 DEF vars, ioVars, Phases, D!vars
<1>2. ASSUME NEW c \in Copiers, Step(c) \/ Vanish(c) PROVE [D!Next]_(D!vars)
    <2>1. CASE AccessSrc(c) \/ AccessDest(c) \/ Remove(c) \/ OpenSrc(c) \/ OpenDest(c)
        BY <2>1, EarlyStep
    <2>2. CASE Read(c) \/ Close(c) \/ Vanish(c)
        BY <2>2, LateStep
    <2>3. CASE Write(c)
        BY <2>3, GrowStep
    <2>4. QED BY <1>2, <2>1, <2>2, <2>3 DEF Step
<1>3. QED BY <1>1, <1>2 DEF Next

\* Path::copy copies as Copy promises, for any number of calls: each of their steps
\* is a step of Copy, or changes none of what it speaks of.
THEOREM Copies == Spec => CopySteps
<1>1. Spec => []Placed
    BY PlacedInit, PlacedStep, Inductive, PTL DEF Spec
<1>2. QED BY <1>1, CopyInit, CopyStep, Inductive, PTL DEF Spec, CopySteps, D!Spec
-----------------------------------------------------------------------------
\* What a call has left to do: bytes to read, bytes to write, calls to make, and
\* the interruptions still to come.
Rank == [p \in Steps |-> CASE p = "access"     -> 7 [] p = "accessDest" -> 6
                           [] p = "remove"     -> 5 [] p = "openSrc"    -> 4
                           [] p = "openDest"   -> 3 [] p \in {"read", "write"} -> 2
                           [] p = "close"      -> 1 [] p = "done"       -> 0]

Left(c) == 2 * (Len(Source[c]) - off[c]) + Len(buf[c]) + (MaxEINTR - eintr) + Rank[pc[c]]

LeftOK(c) ==
    /\ off[c] \in Nat /\ off[c] <= Len(Source[c]) /\ Len(Source[c]) \in Nat
    /\ Len(buf[c]) \in Nat /\ eintr \in Nat /\ MaxEINTR \in Nat /\ eintr <= MaxEINTR
    /\ Rank[pc[c]] \in Nat /\ Left(c) \in Nat

LeftsOK == \A c \in Copiers : LeftOK(c)

LEMMA LeftType == IInv => LeftsOK
<1> SUFFICES ASSUME IInv, NEW c \in Copiers PROVE LeftOK(c) BY DEF LeftsOK
<1>1. /\ off[c] \in Nat /\ off[c] <= Len(Source[c]) /\ Len(Source[c]) \in Nat
      /\ Len(buf[c]) \in Nat /\ eintr \in Nat /\ MaxEINTR \in Nat /\ eintr <= MaxEINTR
    BY SourceType, SizeAssumption DEF IInv, TypeOK, PrefixCopied, Splits
<1>2. pc[c] \in Steps
    BY DEF IInv, TypeOK
<1>3. Rank[pc[c]] \in Nat
    BY <1>2 DEF Rank, Steps
<1>4. PICK s \in Nat, o \in Nat, b \in Nat, m \in Nat, e \in Nat, r \in Nat :
         /\ s = Len(Source[c]) /\ o = off[c] /\ b = Len(buf[c]) /\ e = eintr /\ m = MaxEINTR
         /\ r = Rank[pc[c]] /\ o <= s /\ e <= m
    BY <1>1, <1>3
<1>5. Left(c) = 2 * (s - o) + b + (m - e) + r
    BY <1>4 DEF Left
<1>6. o <= s /\ e <= m
    BY <1>4
<1>7. 2 * (s - o) + b + (m - e) + r \in Nat
    BY <1>6
<1>8. QED BY <1>1, <1>3, <1>5, <1>7 DEF LeftOK

LEMMA LeftTypeNext == IInv' => LeftsOK'
BY LeftType, PTL

LEMMA LeftFalls ==
    ASSUME IInv, IInv', NEW c \in Copiers, Step(c)
    PROVE  Left(c)' < Left(c) /\ eintr <= eintr'
<1>1. PICK s \in Nat, o \in Nat, b \in Nat, e \in Nat, m \in Nat, r \in Nat :
         /\ s = Len(Source[c]) /\ o = off[c] /\ b = Len(buf[c]) /\ e = eintr /\ m = MaxEINTR
         /\ r = Rank[pc[c]]
    BY LeftType DEF LeftsOK, LeftOK
<1>2. PICK p \in Nat, d \in Nat, f \in Nat, q \in Nat :
         p = off'[c] /\ d = Len(buf'[c]) /\ f = eintr' /\ q = Rank[pc'[c]]
    BY LeftTypeNext DEF LeftsOK, LeftOK
<1> SUFFICES 2 * (s - p) + d + (m - f) + q < 2 * (s - o) + b + (m - e) + r /\ e <= f
    BY <1>1, <1>2 DEF Left
<1> USE DEF Goto, Return, ioVars
<1>4. CASE AccessSrc(c) \/ AccessDest(c) \/ Remove(c) \/ OpenSrc(c) \/ OpenDest(c) \/ Close(c)
    <2>1. UNCHANGED <<off, buf, eintr>>
        BY <1>4 DEF AccessSrc, AccessDest, Remove, OpenSrc, OpenDest, Close
    <2>2. \/ pc[c] = "access" /\ pc'[c] \in {"accessDest", "done"}
          \/ pc[c] = "accessDest" /\ pc'[c] \in {"remove", "openSrc", "done"}
          \/ pc[c] = "remove" /\ pc'[c] = "openSrc"
          \/ pc[c] = "openSrc" /\ pc'[c] \in {"openDest", "done"}
          \/ pc[c] = "openDest" /\ pc'[c] \in {"read", "done"}
          \/ pc[c] = "close" /\ pc'[c] = "done"
        BY <1>4
        DEF AccessSrc, AccessDest, Remove, OpenSrc, OpenDest, Close, IInv, TypeOK
    <2>3. q < r
        BY <1>1, <1>2, <2>2 DEF Rank, Steps
    <2>4. o = p /\ b = d /\ e = f
        BY <1>1, <1>2, <2>1
    <2>5. QED BY <2>3, <2>4
<1>5. CASE Read(c)
    <2>1. pc[c] = "read" /\ eintr' = eintr /\ r = 2 /\ b = 0
        BY <1>1, <1>5 DEF Read, IInv, LoopState, Rank, Steps
    <2>2. CASE UNCHANGED <<off, buf>> /\ pc'[c] = "close"
        <3>1. q = 1
            BY <1>2, <2>2 DEF Rank, Steps
        <3>2. o = p /\ b = d /\ e = f
            BY <1>1, <1>2, <2>1, <2>2
        <3>3. QED BY <2>1, <3>1, <3>2
    <2>3. ASSUME NEW n \in 1..BufSize, off[c] + n <= Len(Source[c]), pc'[c] = "write",
                 buf' = [buf EXCEPT ![c] = SubSeq(Source[c], off[c] + 1, off[c] + n)],
                 off' = [off EXCEPT ![c] = @ + n]
          PROVE  2 * (s - p) + d + (m - f) + q < 2 * (s - o) + b + (m - e) + r /\ e <= f
        <3>1. n \in Nat /\ n >= 1 /\ p = o + n
            BY <1>1, <1>2, <2>3, SizeAssumption DEF IInv, TypeOK
        <3>2. buf'[c] = SubSeq(Source[c], off[c] + 1, off[c] + n)
            BY <2>3 DEF IInv, TypeOK
        <3>3. off[c] \in Nat /\ Len(SubSeq(Source[c], off[c] + 1, off[c] + n)) = n
            BY <1>1, <2>3, <3>1, SourceType, SubSeqFacts
        <3>4. d = n /\ q = 2 /\ e = f
            BY <1>1, <1>2, <2>1, <2>3, <3>2, <3>3 DEF Rank, Steps
        <3>5. QED BY <2>1, <3>1, <3>4
    <2>4. QED BY <1>5, <2>2, <2>3 DEF Read, IInv, TypeOK
<1>6. CASE Write(c)
    <2>1. pc[c] = "write" /\ p = o /\ r = 2
        BY <1>1, <1>2, <1>6 DEF Write, Rank, Steps
    <2>2. CASE pc' = pc /\ buf' = buf /\ eintr' = eintr + 1
        <3>1. q = r /\ d = b /\ f = e + 1
            BY <1>1, <1>2, <2>2
        <3>2. QED BY <2>1, <3>1
    <2>3. CASE pc'[c] = "done" /\ buf' = buf /\ eintr' = eintr
        <3>1. q = 0 /\ d = b /\ f = e
            BY <1>1, <1>2, <2>3 DEF Rank, Steps
        <3>2. QED BY <2>1, <3>1
    <2>4. ASSUME NEW n \in 1..Len(buf[c]), buf' = [buf EXCEPT ![c] = Advance(buf[c], n)],
                 pc'[c] \in {"read", "write"}, eintr' = eintr
          PROVE  2 * (s - p) + d + (m - f) + q < 2 * (s - o) + b + (m - e) + r /\ e <= f
        <3>1. buf[c] \in Seq(STRING) /\ n \in 0..Len(buf[c]) /\ n \in 1..b
            BY <1>1, <2>4 DEF IInv, TypeOK
        <3>2. Len(Advance(buf[c], n)) = Len(buf[c]) - n /\ buf'[c] = Advance(buf[c], n)
            BY <2>4, <3>1, AdvanceFacts DEF IInv, TypeOK
        <3>3. d = b - n /\ q = 2 /\ f = e
            BY <1>1, <1>2, <2>4, <3>2 DEF Rank, Steps
        <3>4. QED BY <2>1, <3>1, <3>3
    <2>5. \/ pc' = pc /\ buf' = buf /\ eintr' = eintr + 1
          \/ pc'[c] = "done" /\ buf' = buf /\ eintr' = eintr
          \/ \E n \in 1..Len(buf[c]) : /\ buf' = [buf EXCEPT ![c] = Advance(buf[c], n)]
                                       /\ pc'[c] \in {"read", "write"} /\ eintr' = eintr
        BY <1>6 DEF Write, IInv, TypeOK
    <2>6. QED BY <2>2, <2>3, <2>4, <2>5
<1>7. QED BY <1>4, <1>5, <1>6 DEF Step

\* No call goes on for ever: what it has left to do falls
\* with each of its steps and no other call, nor the loss of its source, adds to it.
\* (That it takes its steps is the fairness, which CallsEnd leaves to TLC.)
THEOREM CallsShrink ==
    Spec => [][\A c \in Copiers : /\ Left(c) \in Nat /\ Left(c)' \in Nat
                                  /\ Left(c)' <= Left(c)
                                  /\ Step(c) => Left(c)' < Left(c)]_vars
<1>1. ASSUME IInv, IInv', Next, NEW c \in Copiers
      PROVE  /\ Left(c) \in Nat /\ Left(c)' \in Nat /\ Left(c)' <= Left(c)
             /\ Step(c) => Left(c)' < Left(c)
    <2>1. LeftOK(c) /\ LeftOK(c)'
        BY <1>1, LeftType, LeftTypeNext DEF LeftsOK
    <2>2. Step(c) => Left(c)' < Left(c)
        BY <1>1, LeftFalls
    <2>3. ASSUME NEW d \in Copiers, Step(d) \/ Vanish(d), ~Step(c) PROVE Left(c)' <= Left(c)
        <3>1. CASE Vanish(d)
            <4>1. UNCHANGED <<off, buf, pc, eintr>>
                BY <3>1 DEF Vanish, ioVars
            <4>2. Left(c)' = Left(c)
                BY <4>1 DEF Left
            <4>3. QED BY <2>1, <4>2 DEF LeftOK
        <3>2. CASE Step(d)
            <4>1. d # c
                BY <2>3, <3>2
            <4>2. eintr <= eintr' /\ eintr' <= MaxEINTR
                BY <1>1, <2>1, <3>2, LeftFalls DEF LeftOK
            <4>3. off'[c] = off[c] /\ buf'[c] = buf[c] /\ pc'[c] = pc[c]
                BY <1>1, <3>2, <4>1 DEF Step, AccessSrc, AccessDest, Remove, OpenSrc, OpenDest,
                   Read, Write, Close, Goto, Return, ioVars, IInv, TypeOK
            <4>4. PICK s \in Nat, o \in Nat, b \in Nat, m \in Nat, e \in Nat, f \in Nat,
                       r \in Nat :
                     /\ s = Len(Source[c]) /\ o = off[c] /\ b = Len(buf[c]) /\ m = MaxEINTR
                     /\ e = eintr /\ f = eintr' /\ r = Rank[pc[c]]
                BY <2>1 DEF LeftOK
            <4>5. /\ Left(c) = 2 * (s - o) + b + (m - e) + r
                  /\ Left(c)' = 2 * (s - o) + b + (m - f) + r
                BY <4>3, <4>4 DEF Left
            <4>6. e <= f
                BY <4>2, <4>4
            <4>7. QED BY <4>5, <4>6
        <3>3. QED BY <2>3, <3>1, <3>2
    <2>4. QED BY <1>1, <2>1, <2>2, <2>3 DEF Next, LeftOK
<1>2. IInv /\ IInv' /\ [Next]_vars =>
          [\A c \in Copiers : /\ Left(c) \in Nat /\ Left(c)' \in Nat
                              /\ Left(c)' <= Left(c)
                              /\ Step(c) => Left(c)' < Left(c)]_vars
    BY <1>1
<1>3. QED BY <1>2, Inductive, PTL DEF Spec
=============================================================================
