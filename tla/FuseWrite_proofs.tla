------------------------- MODULE FuseWrite_proofs -------------------------
(***************************************************************************)
(* Proofs about FuseWrite, for any handles, owners, bytes, names and       *)
(* bounds.                                                                 *)
(*                                                                         *)
(* LockInv is inductive while the windows of the lock table are shut: the  *)
(* table agrees with what the owners were told (TableInv), and a handle    *)
(* past its use owns and waits for nothing (HandleInv).  Where the filter  *)
(* copies, and where it removes an owner in place, what it leaves is the   *)
(* table without the bytes given up (Carved): that is by induction over    *)
(* the records, for which Least and UpTo stand in.                         *)
(*                                                                         *)
(* PathInv is inductive while the windows of the names are shut: what the  *)
(* mount tracks is what the file is called (Named, Under), a handle shares *)
(* the current state or one that is poisoned (Slotted), a commit holds the *)
(* current state and sends to a name of the file or of nothing (Sends),    *)
(* and the times tell the bytes of the file (Stamped).                     *)
(***************************************************************************)
EXTENDS FuseWrite, SequenceTheorems, FiniteSetTheorems, WellFoundedInduction, TLAPS

-----------------------------------------------------------------------------
(* Induction, from the well-foundedness of < on Nat.                       *)

LEMMA Least ==
    ASSUME NEW S, S \subseteq Nat, S # {}
    PROVE  \E m \in S : \A n \in S : m <= n
    <1>1. IsWellFoundedOn(OpToRel(<, Nat), Nat) BY NatLessThanWellFounded
    <1> DEFINE R == OpToRel(<, Nat)
    <1>2. \E x \in S : \A y \in S : ~ (<<y, x>> \in R) BY <1>1, WFMin
    <1>3. \A x, y \in Nat : y < x => <<y, x>> \in R BY DEF OpToRel
    <1> HIDE DEF R
    <1>4. PICK x \in S : \A y \in S : ~ (<<y, x>> \in R) BY <1>2
    <1>5. \A y \in S : ~(y < x) BY <1>3, <1>4
    <1>6. \A y \in S : x <= y BY <1>5
    <1> QED BY <1>6

LEMMA UpTo ==
    ASSUME NEW n \in Nat, NEW S, 0 \in S, \A k \in 0..(n - 1) : k \in S => k + 1 \in S
    PROVE  \A k \in 0..n : k \in S
    <1> SUFFICES ASSUME (0..n) \ S # {} PROVE FALSE OBVIOUS
    <1>0. (0..n) \ S \subseteq Nat OBVIOUS
    <1>1. PICK m \in (0..n) \ S : \A k \in (0..n) \ S : m <= k BY <1>0, Least
    <1>2. m # 0 /\ m - 1 \in 0..(n - 1) BY <1>1
    <1>3. m - 1 \in S BY <1>1, <1>2
    <1>4. m - 1 + 1 = m BY <1>1
    <1> QED BY <1>1, <1>2, <1>3, <1>4

-----------------------------------------------------------------------------
(* Sequences.                                                              *)

LEMMA Joined ==
    ASSUME NEW D, NEW s \in Seq(D), NEW t \in Seq(D)
    PROVE  Range(s \o t) = Range(s) \cup Range(t)
    <1>1. Len(s) \in Nat /\ Len(t) \in Nat /\ DOMAIN s = 1..Len(s) /\ DOMAIN t = 1..Len(t) OBVIOUS
    <1>2. /\ DOMAIN (s \o t) = 1..(Len(s) + Len(t))
          /\ \A i \in 1..(Len(s) + Len(t)) : (s \o t)[i] = IF i <= Len(s) THEN s[i] ELSE t[i - Len(s)]
        BY ConcatProperties
    <1>3. \A i \in 1..Len(s) : i \in DOMAIN (s \o t) /\ (s \o t)[i] = s[i] BY <1>1, <1>2
    <1>4. \A i \in 1..Len(t) : i + Len(s) \in DOMAIN (s \o t) /\ (s \o t)[i + Len(s)] = t[i]
        BY <1>1, <1>2
    <1>5. \A i \in DOMAIN (s \o t) : (i \in 1..Len(s) /\ (s \o t)[i] = s[i])
                                   \/ (i - Len(s) \in 1..Len(t) /\ (s \o t)[i] = t[i - Len(s)])
        BY <1>1, <1>2
    <1>6. Range(s) \subseteq Range(s \o t) BY <1>1, <1>3 DEF Range
    <1>7. Range(t) \subseteq Range(s \o t) BY <1>1, <1>4 DEF Range
    <1>8. Range(s \o t) \subseteq Range(s) \cup Range(t) BY <1>1, <1>5 DEF Range
    <1> QED BY <1>6, <1>7, <1>8

\* The recursive function of FlattenSeq exists, and collects every element.
LEMMA Flattened ==
    ASSUME NEW D, NEW seqs \in Seq(Seq(D))
    PROVE  /\ FlattenSeq(seqs) \in Seq(D)
           /\ Range(FlattenSeq(seqs)) = UNION {Range(seqs[i]) : i \in 1..Len(seqs)}
    <1> DEFINE n == Len(seqs)
               Body(f, i) == IF i = 1 THEN seqs[i] ELSE f[i - 1] \o seqs[i]
               Sum(i) == UNION {Range(seqs[j]) : j \in 1..i}
    <1>0. n \in Nat /\ \A i \in 1..n : seqs[i] \in Seq(D) OBVIOUS
    <1>1. CASE n = 0
        <2>1. seqs = <<>> BY <1>1
        <2>2. FlattenSeq(seqs) = <<>> BY <2>1 DEF FlattenSeq
        <2>3. Range(<<>>) = {} BY DEF Range
        <2>4. {Range(seqs[i]) : i \in 1..Len(seqs)} = {} BY <1>1
        <2> QED BY <2>2, <2>3, <2>4
    <1>2. CASE n # 0
        <2> DEFINE Built == {k \in 0..n : \E f : f = [i \in 1..k |-> Body(f, i)]}
        <2>1. 0 \in Built
            <3> HIDE DEF Body
            <3> DEFINE none == <<>>
            <3>1. none = [i \in 1..0 |-> Body(none, i)] OBVIOUS
            <3> HIDE DEF none
            <3>2. \E f : f = [i \in 1..0 |-> Body(f, i)] BY <3>1
            <3>3. 0 \in 0..n BY <1>0
            <3> QED BY <3>2, <3>3
        <2>2. ASSUME NEW k \in 0..(n - 1), k \in Built PROVE k + 1 \in Built
            <3>1. PICK f : f = [i \in 1..k |-> Body(f, i)] BY <2>2
            <3> DEFINE g == [i \in 1..(k + 1) |-> IF i = k + 1 THEN Body(f, k + 1) ELSE f[i]]
            <3>2. ASSUME NEW i \in 1..(k + 1) PROVE Body(g, i) = g[i]
                <4>1. CASE i = 1 /\ k = 0 BY <4>1
                <4>2. CASE i = 1 /\ k > 0
                    <5>1. g[1] = f[1] BY <4>2
                    <5>2. f[1] = Body(f, 1) BY <3>1, <4>2
                    <5> QED BY <4>2, <5>1, <5>2
                <4>3. CASE i # 1
                    <5>1. i - 1 \in 1..k BY <4>3
                    <5>2. g[i - 1] = f[i - 1] BY <5>1
                    <5>3. Body(g, i) = Body(f, i) BY <5>2
                    <5>4. i # k + 1 => f[i] = Body(f, i)
                        <6> SUFFICES ASSUME i # k + 1 PROVE f[i] = Body(f, i) OBVIOUS
                        <6>1. i \in 1..k OBVIOUS
                        <6> HIDE DEF Body
                        <6> QED BY <3>1, <6>1
                    <5>5. g[i] = Body(f, i) BY <5>4
                    <5> QED BY <5>3, <5>5
                <4> QED BY <4>1, <4>2, <4>3
            <3> HIDE DEF Body
            <3>3. g = [i \in 1..(k + 1) |-> Body(g, i)] BY <3>2
            <3>4. k + 1 \in 0..n BY <1>0
            <3> HIDE DEF g
            <3> QED BY <3>3, <3>4
        <2> HIDE DEF Body
        <2>3. n \in Built
            <3> HIDE DEF Built, n
            <3>1. \A k \in 0..n : k \in Built BY <1>0, <2>1, <2>2, UpTo
            <3> QED BY <1>0, <3>1
        <2> DEFINE flatten == CHOOSE f : f = [i \in 1..n |-> Body(f, i)]
        <2>4. flatten = [i \in 1..n |-> Body(flatten, i)] BY <2>3
        <2> USE DEF Body
        <2>5. FlattenSeq(seqs) = flatten[n] BY <1>2 DEF FlattenSeq
        <2> HIDE DEF flatten, Body
        <2> DEFINE Good == {k \in 0..n : k > 0 => flatten[k] \in Seq(D) /\ Range(flatten[k]) = Sum(k)}
        <2>6. ASSUME NEW k \in 0..(n - 1), k \in Good PROVE k + 1 \in Good
            <3>1. flatten[k + 1] = Body(flatten, k + 1)
                <4>1. k + 1 \in 1..n BY <1>0
                <4> QED BY <2>4, <4>1
            <3>2. Sum(k + 1) = Sum(k) \cup Range(seqs[k + 1]) 
                <4>1. 1..(k + 1) = (1..k) \cup {k + 1} OBVIOUS
                <4> QED BY <4>1
            <3>3. seqs[k + 1] \in Seq(D) BY <1>0
            <3>4. CASE k = 0
                <4>1. Sum(0) = {} OBVIOUS
                <4>2. flatten[1] = seqs[1] BY <3>1, <3>4 DEF Body
                <4>3. k + 1 \in 0..n BY <1>0
                <4> HIDE DEF Sum
                <4>4. Range(flatten[k + 1]) = Sum(k + 1)
                    <5>1. k + 1 = 1 /\ Sum(k) = {} BY <3>4, <4>1
                    <5>2. Range(flatten[k + 1]) = Range(seqs[k + 1]) BY <4>2, <5>1
                    <5> QED BY <3>2, <5>1, <5>2
                <4>5. flatten[k + 1] \in Seq(D) BY <3>3, <3>4, <4>2
                <4> QED BY <4>3, <4>4, <4>5
            <3>5. CASE k > 0
                <4>1. flatten[k + 1] = flatten[k] \o seqs[k + 1]
                    <5>1. k + 1 # 1 /\ (k + 1) - 1 = k BY <3>5
                    <5> QED BY <3>1, <5>1 DEF Body
                <4>2. flatten[k] \in Seq(D) /\ Range(flatten[k]) = Sum(k) BY <2>6, <3>5
                <4>4. k + 1 \in 0..n BY <1>0
                <4> HIDE DEF Sum
                <4>3. Range(flatten[k] \o seqs[k + 1]) = Range(flatten[k]) \cup Range(seqs[k + 1])
                    BY <3>3, <4>2, Joined
                <4>5. Range(flatten[k + 1]) = Sum(k + 1) BY <3>2, <4>1, <4>2, <4>3
                <4>6. flatten[k + 1] \in Seq(D) BY <3>3, <4>1, <4>2
                <4> QED BY <4>4, <4>5, <4>6
            <3> QED BY <3>4, <3>5
        <2>7. 0 \in Good OBVIOUS
        <2>8. n \in Good
            <3> HIDE DEF Good, n
            <3>1. \A k \in 0..n : k \in Good BY <1>0, <2>6, <2>7, UpTo
            <3> QED BY <1>0, <3>1
        <2> QED BY <1>2, <2>5, <2>8
    <1> QED BY <1>1, <1>2

-----------------------------------------------------------------------------
(* What a filter leaves of the records.                                    *)

Cut == {l \in [owner : Owners, typ : {"rd", "wr", "un"}, start : ByteSet, end : Ends] : l.start < Stop(l)}
Lock == {l \in Cut : l.typ # "un"}

\* `after` is `before` without the bytes its owner gives up in `cut`.
Carved(before, cut, after) ==
    /\ after \in Seq(Lock)
    /\ \A x \in Range(after) : \E r \in Range(before) :
          /\ x.owner = r.owner /\ x.typ = r.typ
          /\ \A b \in ByteSet : Covers(x, b) => Covers(r, b) /\ ~(r.owner = cut.owner /\ Covers(cut, b))
    /\ \A r \in Range(before), b \in ByteSet :
          Covers(r, b) /\ ~(r.owner = cut.owner /\ Covers(cut, b)) =>
              \E x \in Range(after) : x.owner = r.owner /\ x.typ = r.typ /\ Covers(x, b)

\* One record leaves the parts before and after the cut.
LEMMA KeptCarved ==
    ASSUME NEW r \in Lock, NEW cut \in Cut
    PROVE  Kept(r, cut) \in Seq(Lock) /\ Carved(<<r>>, cut, Kept(r, cut))
    <1>0. LastByte \in Nat /\ Range(<<r>>) = {r} BY LocksAssumption DEF Range
    <1> DEFINE head == [r EXCEPT !.end = cut.start]
               rest == [r EXCEPT !.start = Stop(cut)]
    <1>1. /\ r.start \in ByteSet /\ r.end \in Ends /\ r.start < Stop(r) /\ r.typ \in {"rd", "wr"}
          /\ cut.start \in ByteSet /\ cut.end \in Ends /\ cut.start < Stop(cut)
          /\ r.owner \in Owners
        BY DEF Lock, Cut
    <1>2. Stop(r) \in 1..Infinity /\ Stop(cut) \in 1..Infinity /\ r.start \in Nat /\ cut.start \in Nat
        BY <1>0, <1>1 DEF Stop, Ends, ByteSet, Infinity
    <1>3. ASSUME cut.start > r.start PROVE head \in Lock /\ Stop(head) = cut.start /\ head.start = r.start
        <2>1. head.end = cut.start /\ head.start = r.start BY DEF Lock, Cut
        <2>2. cut.start \in Ends \ {0} BY <1>0, <1>1, <1>2, <1>3 DEF Ends, ByteSet
        <2>3. Stop(head) = cut.start BY <2>1, <2>2 DEF Stop
        <2>4. head \in [owner : Owners, typ : {"rd", "wr", "un"}, start : ByteSet, end : Ends] /\ head.typ = r.typ
            BY <1>1, <2>2 DEF Lock, Cut
        <2> QED BY <1>1, <1>3, <2>1, <2>3, <2>4 DEF Lock, Cut
    <1>4. ASSUME Stop(cut) < Stop(r) PROVE rest \in Lock /\ Stop(rest) = Stop(r) /\ rest.start = Stop(cut)
        <2>1. rest.end = r.end /\ rest.start = Stop(cut) BY DEF Lock, Cut
        <2>2. Stop(cut) \in ByteSet BY <1>0, <1>2, <1>4 DEF ByteSet, Infinity
        <2>3. Stop(rest) = Stop(r) BY <2>1 DEF Stop
        <2>4. rest \in [owner : Owners, typ : {"rd", "wr", "un"}, start : ByteSet, end : Ends] /\ rest.typ = r.typ
            BY <1>1, <2>2 DEF Lock, Cut
        <2> QED BY <1>1, <1>4, <2>1, <2>3, <2>4 DEF Lock, Cut
    <1>5. \A x \in {head, rest} : x.owner = r.owner /\ x.typ = r.typ BY DEF Lock, Cut
    <1> HIDE DEF head, rest
    <1>6. CASE r.owner # cut.owner \/ ~LocksOverlap(r, cut)
        <2>1. Kept(r, cut) = <<r>> BY <1>6 DEF Kept, SubtractLock
        <2>2. \A b \in ByteSet : ~LocksOverlap(r, cut) => ~(Covers(r, b) /\ Covers(cut, b))
            BY <1>0, <1>1, <1>2 DEF LocksOverlap, Covers, ByteSet
        <2> QED BY <1>0, <1>6, <2>1, <2>2 DEF Carved
    <1>7. CASE r.owner = cut.owner /\ LocksOverlap(r, cut)
        <2> DEFINE kept == {x \in {head, rest} : (x = head /\ cut.start > r.start) \/ (x = rest /\ Stop(cut) < Stop(r))}
        <2>1. Kept(r, cut) = (IF cut.start > r.start THEN <<head>> ELSE <<>>)
                             \o (IF Stop(cut) < Stop(r) THEN <<rest>> ELSE <<>>)
            BY <1>7 DEF Kept, SubtractLock, head, rest
        <2>2. Kept(r, cut) \in Seq(Lock) /\ Range(Kept(r, cut)) = kept
            <3>1. CASE cut.start > r.start /\ Stop(cut) < Stop(r)
                <4>1. Kept(r, cut) = <<head>> \o <<rest>> BY <2>1, <3>1
                <4>2. <<head>> \in Seq(Lock) /\ <<rest>> \in Seq(Lock) BY <1>3, <1>4, <3>1
                <4>3. \A x : Range(<<x>>) = {x} BY DEF Range
                <4> DEFINE s == <<head>>
                           t == <<rest>>
                <4>4. Range(s) = {head} /\ Range(t) = {rest} BY <4>3
                <4> HIDE DEF s, t
                <4>5. Kept(r, cut) = s \o t /\ s \in Seq(Lock) /\ t \in Seq(Lock) BY <4>1, <4>2 DEF s, t
                <4>6. s \o t \in Seq(Lock) BY <4>5, ConcatProperties
                <4>7. Range(s \o t) = Range(s) \cup Range(t) BY <4>5, Joined
                <4> QED BY <3>1, <4>4, <4>5, <4>6, <4>7
            <3>2. CASE cut.start > r.start /\ ~(Stop(cut) < Stop(r))
                <4>1. Kept(r, cut) = <<head>> BY <2>1, <3>2
                <4> QED BY <1>3, <3>2, <4>1 DEF Range
            <3>3. CASE ~(cut.start > r.start) /\ Stop(cut) < Stop(r)
                <4>1. Kept(r, cut) = <<rest>> BY <2>1, <3>3
                <4> QED BY <1>4, <3>3, <4>1 DEF Range
            <3>4. CASE ~(cut.start > r.start) /\ ~(Stop(cut) < Stop(r))
                <4>1. Kept(r, cut) = <<>> BY <2>1, <3>4
                <4> QED BY <3>4, <4>1 DEF Range
            <3> QED BY <3>1, <3>2, <3>3, <3>4
        <2>3. ASSUME NEW x \in kept, NEW b \in ByteSet, Covers(x, b) PROVE Covers(r, b) /\ ~Covers(cut, b)
            <3>1. b \in Nat BY DEF ByteSet
            <3>2. CASE x = head /\ cut.start > r.start BY <1>1, <1>2, <1>3, <1>7, <2>3, <3>1, <3>2 DEF Covers, LocksOverlap
            <3>3. CASE x = rest /\ Stop(cut) < Stop(r) BY <1>1, <1>2, <1>4, <1>7, <2>3, <3>1, <3>3 DEF Covers, LocksOverlap
            <3> QED BY <3>2, <3>3
        <2>4. ASSUME NEW b \in ByteSet, Covers(r, b), ~Covers(cut, b) PROVE \E x \in kept : Covers(x, b)
            BY <1>0, <1>1, <1>2, <1>3, <1>4, <2>4 DEF Covers, ByteSet
        <2> HIDE DEF kept
        <2>5. \A x \in kept : x.owner = r.owner /\ x.typ = r.typ BY <1>5 DEF kept
        <2> QED BY <1>0, <1>7, <2>2, <2>3, <2>4, <2>5 DEF Carved
    <1> QED BY <1>6, <1>7

LEMMA CopyCarves ==
    ASSUME NEW locks \in Seq(Lock), NEW cut \in Cut
    PROVE  Carved(locks, cut, FilterCopy(locks, cut))
    <1> DEFINE parts == [i \in DOMAIN locks |-> Kept(locks[i], cut)]
    <1>1. \A i \in DOMAIN locks : locks[i] \in Lock OBVIOUS
    <1>2. \A i \in DOMAIN locks : parts[i] \in Seq(Lock) /\ Carved(<<locks[i]>>, cut, parts[i]) BY <1>1, KeptCarved
    <1>3. parts \in Seq(Seq(Lock)) /\ Len(parts) = Len(locks) /\ DOMAIN locks = 1..Len(locks)
        <2>1. DOMAIN locks = 1..Len(locks) /\ Len(locks) \in Nat OBVIOUS
        <2>2. parts \in [1..Len(locks) -> Seq(Lock)] BY <1>2, <2>1
        <2> HIDE DEF parts
        <2> QED BY <2>1, <2>2
    <1> HIDE DEF parts
    <1>4. FilterCopy(locks, cut) \in Seq(Lock)
          /\ Range(FilterCopy(locks, cut)) = UNION {Range(parts[i]) : i \in DOMAIN locks}
        BY <1>3, Flattened DEF FilterCopy, parts
    <1>5. \A r : Range(<<r>>) = {r} BY DEF Range
    <1>6. ASSUME NEW x \in Range(FilterCopy(locks, cut))
          PROVE  \E r \in Range(locks) :
                    /\ x.owner = r.owner /\ x.typ = r.typ
                    /\ \A b \in ByteSet : Covers(x, b) => Covers(r, b) /\ ~(r.owner = cut.owner /\ Covers(cut, b))
        <2>1. PICK i \in DOMAIN locks : x \in Range(parts[i]) BY <1>4
        <2>2. locks[i] \in Range(locks) BY DEF Range
        <2>3. \E r \in Range(<<locks[i]>>) :
                    /\ x.owner = r.owner /\ x.typ = r.typ
                    /\ \A b \in ByteSet : Covers(x, b) => Covers(r, b) /\ ~(r.owner = cut.owner /\ Covers(cut, b))
            BY <1>2, <2>1 DEF Carved
        <2>4. Range(<<locks[i]>>) \subseteq Range(locks) BY <1>5, <2>2
        <2> HIDE DEF Covers
        <2> QED BY <2>3, <2>4
    <1>7. ASSUME NEW r \in Range(locks), NEW b \in ByteSet, Covers(r, b), ~(r.owner = cut.owner /\ Covers(cut, b))
          PROVE  \E x \in Range(FilterCopy(locks, cut)) : x.owner = r.owner /\ x.typ = r.typ /\ Covers(x, b)
        <2>1. PICK i \in DOMAIN locks : r = locks[i] BY DEF Range
        <2>2. \E x \in Range(parts[i]) : x.owner = r.owner /\ x.typ = r.typ /\ Covers(x, b)
            <3>1. r \in Range(<<locks[i]>>) BY <1>5, <2>1
            <3> QED BY <1>2, <1>7, <3>1 DEF Carved
        <2> QED BY <1>4, <2>2
    <1> QED BY <1>4, <1>6, <1>7 DEF Carved

\* A release removes whole records, so the filter never writes where it has yet to read.
LEMMA ReleaseCarves ==
    ASSUME NEW locks \in Seq(Lock), NEW o \in Owners
    PROVE  Carved(locks, WholeFile(o, "un"), FilterInPlace(locks, WholeFile(o, "un")))
    <1> DEFINE n == Len(locks)
               cut == WholeFile(o, "un")
               Left(i) == {locks[j] : j \in {j \in 1..i : locks[j].owner # o}}
               Base == [arr |-> locks, n |-> 0]
               Step(before, i) == LET recs == Kept(before.arr[i], cut)
                                  IN  [arr |-> Overwrite(before.arr, before.n, recs), n |-> before.n + Len(recs)]
               Body(f, i) == IF i = 0 THEN Base ELSE Step(f[i - 1], i)
    <1>0. n \in Nat /\ LastByte \in Nat /\ (\A i \in 1..n : locks[i] \in Lock) /\ DOMAIN locks = 1..n
        BY LocksAssumption
    <1> DEFINE Built == {k \in 0..n : \E f : f = [i \in 0..k |-> Body(f, i)]}
    <1>1. 0 \in Built
        <2> HIDE DEF Step, Base, n
        <2> DEFINE f0 == [i \in 0..0 |-> Base]
        <2>1. f0 = [i \in 0..0 |-> Body(f0, i)] OBVIOUS
        <2> HIDE DEF f0, Body
        <2>2. \E f : f = [i \in 0..0 |-> Body(f, i)] BY <2>1
        <2>3. 0 \in 0..n BY <1>0
        <2> QED BY <2>2, <2>3
    <1>2. ASSUME NEW k \in 0..(n - 1), k \in Built PROVE k + 1 \in Built
        <2> HIDE DEF Step, Base
        <2>1. PICK f : f = [i \in 0..k |-> Body(f, i)] BY <1>2
        <2> DEFINE g == [i \in 0..(k + 1) |-> IF i = k + 1 THEN Body(f, k + 1) ELSE f[i]]
        <2>2. ASSUME NEW i \in 0..(k + 1) PROVE Body(g, i) = g[i]
            <3>1. i # 0 => i - 1 \in 0..k /\ g[i - 1] = f[i - 1] OBVIOUS
            <3>2. Body(g, i) = Body(f, i) BY <3>1
            <3>3. i # k + 1 => f[i] = Body(f, i)
                <4> SUFFICES ASSUME i # k + 1 PROVE f[i] = Body(f, i) OBVIOUS
                <4>1. i \in 0..k OBVIOUS
                <4> HIDE DEF Body
                <4> QED BY <2>1, <4>1
            <3>4. g[i] = Body(f, i) BY <3>3
            <3> QED BY <3>2, <3>4
        <2> HIDE DEF Body
        <2>3. g = [i \in 0..(k + 1) |-> Body(g, i)] BY <2>2
        <2>4. k + 1 \in 0..n BY <1>0
        <2> HIDE DEF g
        <2> QED BY <2>3, <2>4
    <1>3. n \in Built
        <2> HIDE DEF Built, n
        <2>1. \A k \in 0..n : k \in Built BY <1>0, <1>1, <1>2, UpTo
        <2> QED BY <1>0, <2>1
    <1> HIDE DEF Body
    <1> DEFINE pass == CHOOSE f : f = [i \in 0..n |-> Body(f, i)]
    <1>4. pass = [i \in 0..n |-> Body(pass, i)] BY <1>3
    <1> USE DEF Body
    <1>5. FilterInPlace(locks, cut) = SubSeq(pass[n].arr, 1, pass[n].n) BY DEF FilterInPlace
    <1> HIDE DEF pass, Body, cut, Built
    <1>6. \A r \in Lock : Kept(r, cut) = IF r.owner = o THEN <<>> ELSE <<r>>
        <2> SUFFICES ASSUME NEW r \in Lock PROVE Kept(r, cut) = IF r.owner = o THEN <<>> ELSE <<r>> OBVIOUS
        <2>1. cut.owner = o /\ cut.start = 0 /\ Stop(cut) = Infinity BY DEF cut, WholeFile, Stop
        <2>2. r.start \in 0..LastByte /\ Stop(r) \in 1..Infinity
            BY <1>0 DEF Lock, Cut, ByteSet, Ends, Stop, Infinity
        <2>3. LocksOverlap(r, cut) /\ ~(cut.start > r.start) /\ ~(Stop(cut) < Stop(r))
            BY <1>0, <2>1, <2>2 DEF LocksOverlap, Infinity
        <2> QED BY <2>1, <2>3 DEF Kept, SubtractLock
    <1> DEFINE Good == {k \in 0..n :
                    /\ pass[k].arr \in Seq(Lock) /\ Len(pass[k].arr) = n /\ pass[k].n \in 0..k
                    /\ \A j \in (k + 1)..n : pass[k].arr[j] = locks[j]
                    /\ {pass[k].arr[j] : j \in 1..pass[k].n} = Left(k)}
    <1>7. 0 \in Good
        <2>1. pass[0] = Base BY <1>0, <1>4 DEF Body
        <2>2. pass[0].arr = locks /\ pass[0].n = 0 BY <2>1
        <2> QED BY <1>0, <2>2
    <1>8. ASSUME NEW k \in 0..(n - 1), k \in Good PROVE k + 1 \in Good
        <2> DEFINE arr == pass[k].arr
                   m == pass[k].n
                   recs == Kept(arr[k + 1], cut)
        <2>1. k + 1 \in 1..n /\ k + 1 \in 0..n /\ (k + 1) - 1 = k BY <1>0
        <2>2. pass[k + 1] = Step(pass[k], k + 1)
            <3>1. pass[k + 1] = Body(pass, k + 1) BY <1>4, <2>1
            <3> HIDE DEF Step
            <3> QED BY <2>1, <3>1 DEF Body
        <2>3. pass[k + 1].arr = Overwrite(arr, m, recs) /\ pass[k + 1].n = m + Len(recs) BY <2>2
        <2>4. /\ arr \in Seq(Lock) /\ Len(arr) = n /\ m \in 0..k /\ arr[k + 1] = locks[k + 1]
              /\ \A j \in (k + 1)..n : arr[j] = locks[j]
              /\ {arr[j] : j \in 1..m} = Left(k)
            <3> HIDE DEF Left, n
            <3>1. k + 1 \in (k + 1)..n BY <2>1
            <3> QED BY <1>8, <3>1
        <2>5. locks[k + 1] \in Lock BY <1>0, <2>1
        <2> HIDE DEF arr, m, recs, pass
        <2>6. CASE locks[k + 1].owner = o
            <3>1. recs = <<>> BY <1>6, <2>4, <2>5, <2>6 DEF recs
            <3>2. Overwrite(arr, m, recs) = arr
                <4>1. Len(recs) = 0 BY <3>1
                <4>2. (IF m + Len(recs) > Len(arr) THEN m + Len(recs) ELSE Len(arr)) = n BY <2>1, <2>4, <4>1
                <4>3. \A i \in 1..n : ~(i > m /\ i <= m + Len(recs)) BY <2>4, <4>1
                <4>4. \A i \in 1..n : (IF i > m /\ i <= m + Len(recs) THEN recs[i - m] ELSE arr[i]) = arr[i]
                    BY <4>3
                <4>5. Overwrite(arr, m, recs) = [i \in 1..n |-> arr[i]] BY <4>2, <4>4 DEF Overwrite
                <4> QED BY <2>4, <4>5
            <3>3. Left(k + 1) = Left(k)
                <4>1. {j \in 1..(k + 1) : locks[j].owner # o} = {j \in 1..k : locks[j].owner # o} BY <2>6
                <4> QED BY <4>1
            <3>4. pass[k + 1].arr = arr /\ pass[k + 1].n = m BY <2>3, <3>1, <3>2, <2>4
            <3> HIDE DEF Left
            <3> QED BY <2>1, <2>4, <3>3, <3>4
        <2>7. CASE locks[k + 1].owner # o
            <3>1. recs = <<locks[k + 1]>> /\ Len(recs) = 1 BY <1>6, <2>4, <2>5, <2>7 DEF recs
            <3>2. Overwrite(arr, m, recs) = [i \in 1..n |-> IF i = m + 1 THEN locks[k + 1] ELSE arr[i]]
                <4>1. (IF m + Len(recs) > Len(arr) THEN m + Len(recs) ELSE Len(arr)) = n BY <2>1, <2>4, <3>1
                <4>2. \A i \in 1..n : (i > m /\ i <= m + Len(recs)) <=> i = m + 1 BY <2>4, <3>1
                <4>3. recs[1] = locks[k + 1] BY <3>1
                <4>4. \A i \in 1..n : (IF i > m /\ i <= m + Len(recs) THEN recs[i - m] ELSE arr[i])
                                       = IF i = m + 1 THEN locks[k + 1] ELSE arr[i]
                    <5> SUFFICES ASSUME NEW i \in 1..n
                                 PROVE (IF i > m /\ i <= m + Len(recs) THEN recs[i - m] ELSE arr[i])
                                       = IF i = m + 1 THEN locks[k + 1] ELSE arr[i]
                        OBVIOUS
                    <5>1. i = m + 1 => i - m = 1 BY <2>4
                    <5> QED BY <4>2, <4>3, <5>1
                <4> QED BY <4>1, <4>4 DEF Overwrite
            <3> DEFINE new == [i \in 1..n |-> IF i = m + 1 THEN locks[k + 1] ELSE arr[i]]
            <3>3. Left(k + 1) = Left(k) \cup {locks[k + 1]}
                <4>1. {j \in 1..(k + 1) : locks[j].owner # o} = {j \in 1..k : locks[j].owner # o} \cup {k + 1}
                    BY <2>7, <2>1
                <4> QED BY <4>1
            <3>4. pass[k + 1].arr = new /\ pass[k + 1].n = m + 1 BY <2>3, <3>1, <3>2
            <3>5. \A i \in 1..n : arr[i] \in Lock BY <2>4
            <3>6. new \in [1..n -> Lock] BY <2>5, <3>5
            <3>7. new \in Seq(Lock) /\ Len(new) = n BY <1>0, <3>6
            <3>8. m + 1 \in 0..(k + 1) /\ m + 1 \in 1..n BY <2>1, <2>4
            <3>9. \A j \in (k + 2)..n : new[j] = locks[j] BY <2>4, <2>1
            <3>10. {new[j] : j \in 1..(m + 1)} = {arr[j] : j \in 1..m} \cup {locks[k + 1]}
                <4>1. \A j \in 1..m : j \in 1..n /\ j # m + 1 /\ new[j] = arr[j] BY <2>4, <2>1
                <4>2. new[m + 1] = locks[k + 1] BY <3>8
                <4>3. 1..(m + 1) = (1..m) \cup {m + 1} BY <2>4
                <4> HIDE DEF new
                <4> QED BY <4>1, <4>2, <4>3
            <3>11. (k + 1) + 1 = k + 2 OBVIOUS
            <3> HIDE DEF new, Left
            <3>12. {pass[k + 1].arr[j] : j \in 1..pass[k + 1].n} = Left(k + 1) BY <2>4, <3>3, <3>4, <3>10
            <3>13. \A j \in ((k + 1) + 1)..n : pass[k + 1].arr[j] = locks[j] BY <3>4, <3>9, <3>11
            <3> QED BY <2>1, <3>4, <3>7, <3>8, <3>12, <3>13
        <2> QED BY <2>6, <2>7
    <1>9. n \in Good
        <2> HIDE DEF Good, n
        <2>1. \A k \in 0..n : k \in Good BY <1>0, <1>7, <1>8, UpTo
        <2> QED BY <1>0, <2>1
    <1> DEFINE after == FilterInPlace(locks, cut)
    <1>10. after \in Seq(Lock) /\ Range(after) = Left(n)
        <2> DEFINE arr == pass[n].arr
                   m == pass[n].n
        <2>1. arr \in Seq(Lock) /\ Len(arr) = n /\ m \in 0..n /\ {arr[j] : j \in 1..m} = Left(n) BY <1>9
        <2> HIDE DEF arr, m
        <2>2. after = SubSeq(arr, 1, m) BY <1>5 DEF arr, m
        <2>3. after = [i \in 1..m |-> arr[i]] BY <2>1, <2>2
        <2>4. \A i \in 1..m : arr[i] \in Lock BY <2>1
        <2>5. after \in Seq(Lock) BY <2>1, <2>3, <2>4
        <2>6. Range(after) = {arr[j] : j \in 1..m} BY <2>3 DEF Range
        <2> QED BY <2>1, <2>5, <2>6
    <1> HIDE DEF after
    <1>11. Left(n) = {r \in Range(locks) : r.owner # o} BY <1>0 DEF Range
    <1>12. cut.owner = o BY DEF cut, WholeFile
    <1>13. \A b \in ByteSet : Covers(cut, b) BY <1>0 DEF cut, WholeFile, Covers, Stop, ByteSet, Infinity
    <1>14. Carved(locks, cut, after) BY <1>10, <1>11, <1>12, <1>13 DEF Carved
    <1> QED BY <1>14 DEF after, cut

-----------------------------------------------------------------------------
(* The lock table.                                                         *)

Call == [lk : Cut, woken : BOOLEAN, cancelled : BOOLEAN]
Mark == [owner : Owners, typ : {"rd", "wr", "un"}]
LocksTypeOK ==
    /\ lockTable \in Seq(Lock)
    /\ lockOwners \in [Handles -> SUBSET Owners]
    /\ waiting \in [Handles -> SUBSET Call]
    /\ tracking \in [Handles -> SUBSET Mark]
    /\ granted \in [Owners -> [ByteSet -> {"none", "rd", "wr"}]]

\* The table and the owners agree: no record says more than was granted, and nothing
\* granted is without a record.
Agree ==
    /\ \A r \in Range(lockTable), b \in ByteSet : Covers(r, b) => granted[r.owner][b] = r.typ
    /\ \A o \in Owners, b \in ByteSet :
          granted[o][b] # "none" => \E r \in Range(lockTable) : r.owner = o /\ Covers(r, b)
Tracked == \A r \in Range(lockTable) : \E h \in Handles : r.owner \in WillUnlock(h)

\* An owner is parked in one call at most, the call gives nothing up, and no other call of
\* the owner is still to be recorded.
Solo ==
    \A g, h \in Handles : \A v \in waiting[g], w \in waiting[h] : g # h => v.lk.owner # w.lk.owner
Unparked == \A g, h \in Handles : \A w \in waiting[g], t \in tracking[h] : t.owner # w.lk.owner
Greedy == \A h \in Handles : \A w \in waiting[h] : ~GivesUp(w.lk)
TableInv == LocksTypeOK /\ Agree /\ LockExclusion /\ Tracked /\ Solo /\ Unparked /\ Greedy /\ NoLostWakeup

-----------------------------------------------------------------------------
(* The handles: which of them may hold, or wait for, a lock.               *)

Sync == {"check", "verb", "trim", "finish"}
HandlesShaped ==
    /\ DOMAIN handle = Handles
    /\ \A h \in Handles : {"pc", "why"} \subseteq DOMAIN handle[h]
    /\ \A h \in Handles : handle[h].pc \in Sync => handle[h].why \in {"flush", "release"}
    /\ \A h \in Handles : handle[h].pc = "making" => handle[h].why \in {"open", "trunc"}
Owning == \A h \in Handles : lockOwners[h] # {} => handle[h].pc \in Sync \cup {"open", "unlock"}
Waiting ==
    \A h \in Handles : ~Answered(h) =>
        handle[h].pc = "open" \/ (handle[h].pc \in Sync /\ handle[h].why = "flush")
Emptied ==
    \A h \in Handles : handle[h].pc = "locks" => \A g \in Handles : lockOwners[g] = {} /\ Answered(g)
HandleInv == HandlesShaped /\ Owning /\ Waiting /\ Emptied

LockInv == TableInv /\ HandleInv

Shut == {"alias", "quiet", "forget", "lastclose", "threads"} \cap Races = {}

LEMMA Bounded == LastByte \in Nat BY LocksAssumption

\* A request is granted: what it carves out of the table and adds to it.
LEMMA GrantExact ==
    ASSUME LocksTypeOK, Agree, NEW lk \in Cut, NEW after, Carved(lockTable, lk, after),
           lockTable' = IF lk.typ = "un" THEN after ELSE Append(after, lk), granted' = GrantedAfter(lk)
    PROVE  /\ lockTable' \in Seq(Lock)
           /\ Range(lockTable') = Range(after) \cup (IF lk.typ = "un" THEN {} ELSE {lk})
           /\ granted' \in [Owners -> [ByteSet -> {"none", "rd", "wr"}]]
           /\ \A o \in Owners, b \in ByteSet :
                 granted'[o][b] = IF o = lk.owner /\ Covers(lk, b)
                                  THEN IF lk.typ = "un" THEN "none" ELSE lk.typ ELSE granted[o][b]
           /\ Agree'
    <1>1. lk.owner \in Owners /\ lk.typ \in {"rd", "wr", "un"} /\ after \in Seq(Lock) BY DEF Cut, Carved
    <1>2. lockTable' \in Seq(Lock) /\ Range(lockTable') = Range(after) \cup (IF lk.typ = "un" THEN {} ELSE {lk})
        <2>1. CASE lk.typ = "un" BY <1>1, <2>1
        <2>2. CASE lk.typ # "un"
            <3>1. lk \in Lock BY <2>2 DEF Lock
            <3>2. lockTable' = Append(after, lk) BY <2>2
            <3> HIDE DEF Lock
            <3> DEFINE n == Len(after)
            <3>3. n \in Nat /\ DOMAIN after = 1..n /\ n = Len(after) BY <1>1
            <3> HIDE DEF n
            <3>4. lockTable' \in Seq(Lock) /\ Len(lockTable') = n + 1 /\ lockTable'[n + 1] = lk
                  /\ \A i \in 1..n : lockTable'[i] = after[i]
                BY <1>1, <3>1, <3>2, <3>3, AppendProperties
            <3>5. DOMAIN lockTable' = 1..(n + 1) BY <3>4
            <3>6. Range(lockTable') = Range(after) \cup {lk}
                <4>1. 1..(n + 1) = (1..n) \cup {n + 1} BY <3>3
                <4> QED BY <3>3, <3>4, <3>5, <4>1 DEF Range
            <3> QED BY <2>2, <3>4, <3>6
        <2> QED BY <2>1, <2>2
    <1>3. /\ granted' \in [Owners -> [ByteSet -> {"none", "rd", "wr"}]]
          /\ \A o \in Owners, b \in ByteSet :
                 granted'[o][b] = IF o = lk.owner /\ Covers(lk, b)
                                  THEN IF lk.typ = "un" THEN "none" ELSE lk.typ ELSE granted[o][b]
        <2> DEFINE row == [b \in ByteSet |-> IF ~Covers(lk, b) THEN granted[lk.owner][b]
                                             ELSE IF lk.typ = "un" THEN "none" ELSE lk.typ]
        <2>1. granted' = [granted EXCEPT ![lk.owner] = row] BY DEF GrantedAfter
        <2>2. row \in [ByteSet -> {"none", "rd", "wr"}]
            <3>1. \A b \in ByteSet : granted[lk.owner][b] \in {"none", "rd", "wr"} BY <1>1 DEF LocksTypeOK
            <3> HIDE DEF Covers
            <3> QED BY <1>1, <3>1
        <2>3. \A b \in ByteSet : row[b] = IF Covers(lk, b) THEN IF lk.typ = "un" THEN "none" ELSE lk.typ
                                           ELSE granted[lk.owner][b]
            OBVIOUS
        <2> HIDE DEF row, Covers
        <2> QED BY <1>1, <2>1, <2>2, <2>3 DEF LocksTypeOK
    <1>4. \A r \in Range(lockTable) : r \in Lock /\ r.owner \in Owners /\ r.typ \in {"rd", "wr"}
        BY DEF LocksTypeOK, Range, Lock, Cut
    <1> HIDE DEF Covers, GrantedAfter
    <1>5. ASSUME NEW r \in Range(lockTable'), NEW b \in ByteSet, Covers(r, b) PROVE granted'[r.owner][b] = r.typ
        <2>1. CASE r \in Range(after)
            <3>1. PICK q \in Range(lockTable) :
                      /\ r.owner = q.owner /\ r.typ = q.typ
                      /\ Covers(r, b) => Covers(q, b) /\ ~(q.owner = lk.owner /\ Covers(lk, b))
                BY <2>1 DEF Carved
            <3>2. granted[q.owner][b] = q.typ BY <1>5, <3>1 DEF Agree
            <3> QED BY <1>3, <1>4, <1>5, <3>1, <3>2
        <2>2. CASE r = lk /\ lk.typ # "un" BY <1>1, <1>3, <1>5, <2>2
        <2> QED BY <1>2, <2>1, <2>2
    <1>6. ASSUME NEW o \in Owners, NEW b \in ByteSet, granted'[o][b] # "none"
          PROVE  \E r \in Range(lockTable') : r.owner = o /\ Covers(r, b)
        <2>1. CASE o = lk.owner /\ Covers(lk, b) BY <1>2, <1>3, <1>6, <2>1
        <2>2. CASE ~(o = lk.owner /\ Covers(lk, b))
            <3>1. granted[o][b] # "none" BY <1>3, <1>6, <2>2
            <3>2. PICK q \in Range(lockTable) : q.owner = o /\ Covers(q, b) BY <3>1 DEF Agree
            <3>3. \E x \in Range(after) : x.owner = q.owner /\ Covers(x, b) BY <2>2, <3>2 DEF Carved
            <3> QED BY <1>2, <3>2, <3>3
        <2> QED BY <2>1, <2>2
    <1>7. Agree' BY <1>5, <1>6 DEF Agree
    <1> QED BY <1>2, <1>3, <1>7

\* Two records overlap exactly where a byte is in both.
LEMMA Overlapping ==
    ASSUME NEW r \in Cut, NEW l \in Cut
    PROVE  LocksOverlap(r, l) <=> \E b \in ByteSet : Covers(r, b) /\ Covers(l, b)
    <1>1. LastByte \in Nat BY Bounded
    <1>2. /\ r.start \in 0..LastByte /\ Stop(r) \in 1..Infinity /\ r.start < Stop(r)
          /\ l.start \in 0..LastByte /\ Stop(l) \in 1..Infinity /\ l.start < Stop(l)
        BY <1>1 DEF Cut, Stop, ByteSet, Ends, Infinity
    <1>3. ASSUME LocksOverlap(r, l) PROVE \E b \in ByteSet : Covers(r, b) /\ Covers(l, b)
        <2>1. CASE r.start <= l.start
            <3>1. Covers(r, l.start) /\ Covers(l, l.start) BY <1>1, <1>2, <1>3, <2>1 DEF LocksOverlap, Covers
            <3> QED BY <1>2, <3>1 DEF ByteSet
        <2>2. CASE l.start <= r.start
            <3>1. Covers(r, r.start) /\ Covers(l, r.start) BY <1>1, <1>2, <1>3, <2>2 DEF LocksOverlap, Covers
            <3> QED BY <1>2, <3>1 DEF ByteSet
        <2> QED BY <1>1, <1>2, <2>1, <2>2
    <1>4. ASSUME NEW b \in ByteSet, Covers(r, b), Covers(l, b) PROVE LocksOverlap(r, l)
        BY <1>1, <1>2, <1>4 DEF Covers, LocksOverlap, ByteSet, Infinity
    <1> QED BY <1>3, <1>4

LEMMA Refusals ==
    ASSUME LocksTypeOK, NEW v \in Cut
    PROVE  Grantable(v) <=> (v.typ = "un" \/ \A r \in Range(lockTable) : ~Conflicts(r, v))
    BY DEF Grantable, Range

LEMMA StillExclusive ==
    ASSUME LocksTypeOK, Agree, LockExclusion, NEW lk \in Cut, Grantable(lk),
           \A o \in Owners, b \in ByteSet :
                 granted'[o][b] = IF o = lk.owner /\ Covers(lk, b)
                                  THEN IF lk.typ = "un" THEN "none" ELSE lk.typ ELSE granted[o][b]
    PROVE  LockExclusion'
    <1> HIDE DEF Covers
    <1>1. lk.owner \in Owners /\ lk.typ \in {"rd", "wr", "un"} BY DEF Cut
    <1>2. \A r \in Range(lockTable) : r \in Cut /\ r.owner \in Owners /\ r.typ \in {"rd", "wr"}
        BY DEF LocksTypeOK, Range, Lock, Cut
    <1>3. ASSUME NEW q \in Owners, q # lk.owner, NEW b \in ByteSet, Covers(lk, b), lk.typ # "un",
                 granted[q][b] # "none"
          PROVE  lk.typ = "rd" /\ granted[q][b] = "rd"
        <2>1. PICK r \in Range(lockTable) : r.owner = q /\ Covers(r, b) BY <1>3 DEF Agree
        <2>2. granted[q][b] = r.typ BY <2>1 DEF Agree
        <2>3. LocksOverlap(r, lk) BY <1>2, <1>3, <2>1, Overlapping
        <2>4. ~Conflicts(r, lk) BY <1>3, Refusals
        <2> QED BY <1>1, <1>2, <1>3, <2>1, <2>2, <2>3, <2>4 DEF Conflicts
    <1>4. ASSUME NEW o \in Owners, NEW q \in Owners, NEW b \in ByteSet, o # q, granted'[o][b] = "wr"
          PROVE  granted'[q][b] = "none"
        <2>1. granted[o][b] = "wr" => granted[q][b] = "none" BY <1>4 DEF LockExclusion
        <2>2. CASE o = lk.owner /\ Covers(lk, b)
            <3>1. lk.typ = "wr" BY <1>1, <1>4, <2>2
            <3>2. granted'[q][b] = granted[q][b] BY <1>4, <2>2
            <3> QED BY <1>3, <1>4, <2>2, <3>1, <3>2
        <2>3. CASE q = lk.owner /\ Covers(lk, b)
            <3>1. granted[o][b] = "wr" BY <1>4, <2>3
            <3> QED BY <1>3, <1>4, <2>3, <3>1
        <2>4. CASE ~(o = lk.owner /\ Covers(lk, b)) /\ ~(q = lk.owner /\ Covers(lk, b))
            BY <1>4, <2>1, <2>4
        <2> QED BY <2>2, <2>3, <2>4
    <1> QED BY <1>4 DEF LockExclusion

\* A grant that gives nothing up leaves every refused call refused.
LEMMA StillRefused ==
    ASSUME LocksTypeOK, lockTable' \in Seq(Lock), Agree, NEW lk \in Cut, NEW after, Carved(lockTable, lk, after), ~GivesUp(lk),
           Range(lockTable') = Range(after) \cup (IF lk.typ = "un" THEN {} ELSE {lk}),
           NEW v \in Cut, ~Grantable(v)
    PROVE  ~Grantable(v)'
    <1> HIDE DEF Covers
    <1>1. PICK r \in Range(lockTable) : Conflicts(r, v) /\ v.typ # "un" BY Refusals
    <1>2. \A s \in Range(lockTable) : s \in Cut /\ s.owner \in Owners /\ s.typ \in {"rd", "wr"}
        BY DEF LocksTypeOK, Range, Lock, Cut
    <1>3. \A s \in Range(lockTable') : s \in Cut BY DEF Range, Lock
    <1>4. PICK b \in ByteSet : Covers(r, b) /\ Covers(v, b) BY <1>1, <1>2, Overlapping DEF Conflicts
    <1>5. ASSUME NEW x \in Range(lockTable'), x.owner = r.owner, x.typ \in {r.typ, "wr"}, Covers(x, b)
          PROVE  \E s \in Range(lockTable') : Conflicts(s, v)
        <2>1. LocksOverlap(x, v) BY <1>3, <1>4, <1>5, Overlapping
        <2> QED BY <1>1, <1>5, <2>1 DEF Conflicts
    <1>6. ASSUME ~(r.owner = lk.owner /\ Covers(lk, b)) PROVE \E s \in Range(lockTable') : Conflicts(s, v)
        <2>1. PICK x \in Range(after) : x.owner = r.owner /\ x.typ = r.typ /\ Covers(x, b)
            BY <1>4, <1>6 DEF Carved
        <2>2. x \in Range(lockTable') /\ x.typ \in {r.typ, "wr"} BY <2>1
        <2> QED BY <1>5, <2>1, <2>2
    <1>7. ASSUME r.owner = lk.owner, Covers(lk, b) PROVE \E s \in Range(lockTable') : Conflicts(s, v)
        <2>1. granted[lk.owner][b] = r.typ BY <1>4, <1>7 DEF Agree
        <2>2. b \in Holds(lk.owner) BY <1>2, <2>1 DEF Holds
        <2>3. r.typ = lk.typ \/ lk.typ = "wr" BY <1>7, <2>1, <2>2 DEF GivesUp
        <2>4. lk.typ # "un" BY <1>2, <2>3
        <2>5. lk \in Range(lockTable') /\ lk.typ \in {r.typ, "wr"} BY <2>3, <2>4
        <2> QED BY <1>5, <1>7, <2>5
    <1>8. \E s \in Range(lockTable') : Conflicts(s, v) BY <1>6, <1>7
    <1>9. Grantable(v)' <=> (v.typ = "un" \/ \A i \in DOMAIN lockTable' : ~Conflicts(lockTable'[i], v)) BY DEF Grantable
    <1> QED BY <1>1, <1>8, <1>9 DEF Range

LEMMA TableFrame ==
    ASSUME TableInv, UNCHANGED <<lockTable, lockOwners, waiting, tracking, granted>>
    PROVE  TableInv'
    <1> HIDE DEF Cut, Lock, Call, Mark
    <1>1. LocksTypeOK' BY DEF TableInv, LocksTypeOK
    <1>2. Agree' BY DEF TableInv, Agree
    <1>3. LockExclusion' BY DEF TableInv, LockExclusion
    <1>4. Tracked' BY DEF TableInv, Tracked, WillUnlock
    <1>5. Solo' /\ Unparked' BY DEF TableInv, Solo, Unparked
    <1>6. \A l : GivesUp(l)' = GivesUp(l) BY DEF GivesUp, Holds
    <1>7. Greedy' BY <1>6 DEF TableInv, Greedy
    <1>8. NoLostWakeup' BY DEF TableInv, NoLostWakeup, Grantable
    <1> QED BY <1>1, <1>2, <1>3, <1>4, <1>5, <1>7, <1>8 DEF TableInv

\* What a request that is granted does to the table, the owners and the other calls.
LEMMA Granting ==
    ASSUME TableInv, Shut, NEW h \in Handles, NEW lk \in Cut, Allowed(h, lk), Grantable(lk), Grant(h, lk),
           \A t \in tracking[h] : t.owner # lk.owner
    PROVE  /\ lockTable' \in Seq(Lock)
           /\ granted' \in [Owners -> [ByteSet -> {"none", "rd", "wr"}]]
           /\ lockOwners' \in [Handles -> SUBSET Owners] /\ tracking' \in [Handles -> SUBSET Mark]
           /\ \A g \in Handles : \A t \in tracking'[g] : t \in tracking[g] \/ t.owner = lk.owner
           /\ Agree' /\ LockExclusion' /\ Tracked'
           /\ \A v \in Cut : v.owner # lk.owner /\ ~GivesUp(v) => ~GivesUp(v)'
           /\ ~GivesUp(lk) => \A v \in Cut : ~Grantable(v) => ~Grantable(v)'
    <1> DEFINE after == FilterInPlace(lockTable, lk)
               mark == [owner |-> lk.owner, typ |-> lk.typ]
    <1>0. /\ lockTable' = TableAfter(lk) /\ granted' = GrantedAfter(lk) /\ lockOwners' = lockOwners
          /\ tracking' = [tracking EXCEPT ![h] = @ \cup {mark}]
        BY DEF Grant
    <1>1. LocksTypeOK /\ Agree /\ LockExclusion /\ Tracked BY DEF TableInv
    <1>2. lk.owner \in Owners /\ lk.typ \in {"rd", "wr", "un"} BY DEF Cut
    <1>3. after = FilterCopy(lockTable, lk) BY DEF Allowed, Shut, Racing
    <1>4. Carved(lockTable, lk, after) BY <1>1, <1>3, CopyCarves DEF LocksTypeOK
    <1>5. lockTable' = IF lk.typ = "un" THEN after ELSE Append(after, lk) BY <1>0 DEF TableAfter
    <1>m. mark \in Mark /\ mark.owner = lk.owner /\ mark.typ = lk.typ BY <1>2 DEF Mark
    <1> HIDE DEF after, mark, Cut, Lock, Mark
    <1>6. /\ lockTable' \in Seq(Lock)
          /\ Range(lockTable') = Range(after) \cup (IF lk.typ = "un" THEN {} ELSE {lk})
          /\ granted' \in [Owners -> [ByteSet -> {"none", "rd", "wr"}]]
          /\ \A o \in Owners, b \in ByteSet :
                 granted'[o][b] = IF o = lk.owner /\ Covers(lk, b)
                                  THEN IF lk.typ = "un" THEN "none" ELSE lk.typ ELSE granted[o][b]
          /\ Agree'
        BY <1>0, <1>1, <1>4, <1>5, GrantExact
    <1>7. LockExclusion' BY <1>1, <1>6, StillExclusive
    <1>8. /\ lockOwners' \in [Handles -> SUBSET Owners] /\ tracking' \in [Handles -> SUBSET Mark]
          /\ \A g \in Handles : tracking'[g] = IF g = h THEN tracking[h] \cup {mark} ELSE tracking[g]
        BY <1>0, <1>1, <1>m DEF LocksTypeOK
    <1>w. ASSUME NEW g \in Handles, NEW o \in WillUnlock(g), o # lk.owner PROVE o \in WillUnlock(g)'
        <2>1. [owner |-> o, typ |-> "un"] # mark BY <1>m, <1>w
        <2> QED BY <1>0, <1>8, <1>w, <2>1 DEF WillUnlock
    <1>9. ASSUME NEW r \in Range(lockTable') PROVE \E g \in Handles : r.owner \in WillUnlock(g)'
        <2>1. CASE r.owner = lk.owner /\ lk.typ # "un"
            <3>1. [owner |-> lk.owner, typ |-> "un"] \notin tracking'[h]
                <4>1. [owner |-> lk.owner, typ |-> "un"] \notin tracking[h] OBVIOUS
                <4>2. [owner |-> lk.owner, typ |-> "un"] # mark BY <1>m, <2>1
                <4> QED BY <1>8, <4>1, <4>2
            <3>2. mark \in tracking'[h] BY <1>8
            <3>3. lk.owner \in WillUnlock(h)' BY <1>m, <3>1, <3>2 DEF WillUnlock
            <3> QED BY <2>1, <3>3
        <2>2. CASE r.owner = lk.owner /\ lk.typ = "un"
            <3>1. r \in Lock BY <1>6 DEF Range
            <3>2. r.start \in ByteSet /\ Covers(r, r.start)
                BY <3>1, Bounded DEF Lock, Cut, Covers, ByteSet, Ends, Stop
            <3>3. granted'[lk.owner][r.start] = r.typ BY <1>6, <2>2, <3>2 DEF Agree
            <3>4. r.typ # "none" BY <3>1 DEF Lock, Cut
            <3>5. ~Covers(lk, r.start) BY <1>2, <1>6, <2>2, <3>2, <3>3, <3>4
            <3>6. granted[lk.owner][r.start] # "none" BY <1>2, <1>6, <3>2, <3>3, <3>4, <3>5
            <3>7. r.start \in Holds(lk.owner) BY <3>2, <3>6 DEF Holds
            <3>8. Covers(lk, r.start) BY <2>2, <3>7 DEF Allowed, Shut, Racing
            <3> QED BY <3>5, <3>8
        <2>3. CASE r.owner # lk.owner
            <3>1. r \in Range(after) BY <1>6, <2>3
            <3>2. PICK q \in Range(lockTable) : r.owner = q.owner BY <1>4, <3>1 DEF Carved
            <3>3. PICK g \in Handles : q.owner \in WillUnlock(g) BY <1>1 DEF Tracked
            <3>4. r.owner \in WillUnlock(g)' BY <1>w, <2>3, <3>2, <3>3
            <3> QED BY <3>4
        <2> QED BY <2>1, <2>2, <2>3
    <1>10. Tracked' BY <1>9 DEF Tracked
    <1>11. ASSUME NEW v \in Cut, v.owner # lk.owner, ~GivesUp(v) PROVE ~GivesUp(v)'
        <2>1. v.owner \in Owners BY DEF Cut
        <2>2. \A b \in ByteSet : granted'[v.owner][b] = granted[v.owner][b] BY <1>6, <1>11, <2>1
        <2>3. Holds(v.owner)' = Holds(v.owner) BY <2>2 DEF Holds
        <2> HIDE DEF Covers
        <2> QED BY <1>11, <2>2, <2>3 DEF GivesUp, Holds
    <1>12. ASSUME ~GivesUp(lk), NEW v \in Cut, ~Grantable(v) PROVE ~Grantable(v)'
        <2> HIDE DEF Grantable
        <2> QED BY <1>1, <1>4, <1>6, <1>12, StillRefused
    <1> QED BY <1>6, <1>7, <1>8, <1>m, <1>10, <1>11, <1>12

LEMMA WokenCalls ==
    ASSUME LocksTypeOK
    PROVE  /\ Woken \in [Handles -> SUBSET Call]
           /\ \A g \in Handles : Woken[g] = {} <=> waiting[g] = {}
           /\ \A g \in Handles : \A v \in Woken[g] : v.woken /\ \E w \in waiting[g] : v.lk = w.lk
    <1> HIDE DEF Cut
    <1>1. ASSUME NEW g \in Handles, NEW w \in waiting[g]
          PROVE  [w EXCEPT !.woken = TRUE] \in Call /\ [w EXCEPT !.woken = TRUE].woken
                 /\ [w EXCEPT !.woken = TRUE].lk = w.lk
        <2>1. w \in Call BY DEF LocksTypeOK
        <2> QED BY <2>1 DEF Call
    <1>2. \A g \in Handles : Woken[g] = {[w EXCEPT !.woken = TRUE] : w \in waiting[g]} BY DEF Woken
    <1>3. \A g \in Handles : Woken[g] \subseteq Call
        <2> SUFFICES ASSUME NEW g \in Handles, NEW v \in Woken[g] PROVE v \in Call OBVIOUS
        <2>1. PICK w \in waiting[g] : v = [w EXCEPT !.woken = TRUE] BY <1>2
        <2> QED BY <1>1, <2>1
    <1>4. Woken \in [Handles -> SUBSET Call] BY <1>2, <1>3 DEF Woken
    <1>5. ASSUME NEW g \in Handles, NEW v \in Woken[g] PROVE v.woken /\ \E w \in waiting[g] : v.lk = w.lk
        <2>1. PICK w \in waiting[g] : v = [w EXCEPT !.woken = TRUE] BY <1>2
        <2> QED BY <1>1, <2>1
    <1>6. ASSUME NEW g \in Handles PROVE Woken[g] = {} <=> waiting[g] = {}
        <2>1. \A w \in waiting[g] : [w EXCEPT !.woken = TRUE] \in Woken[g] BY <1>2
        <2>2. \A v \in Woken[g] : \E w \in waiting[g] : TRUE BY <1>5
        <2> QED BY <2>1, <2>2
    <1> QED BY <1>4, <1>5, <1>6

\* What the parked calls need, once the table and the owners are known to be sound.
LEMMA Parking ==
    ASSUME lockTable' \in Seq(Lock), granted' \in [Owners -> [ByteSet -> {"none", "rd", "wr"}]],
           lockOwners' \in [Handles -> SUBSET Owners], tracking' \in [Handles -> SUBSET Mark],
           Agree', LockExclusion', Tracked', waiting' \in [Handles -> SUBSET Call],
           \A g, h \in Handles : \A w \in waiting'[g], t \in tracking'[h] : t.owner # w.lk.owner,
           \A g, h \in Handles : \A v \in waiting'[g], w \in waiting'[h] : g # h => v.lk.owner # w.lk.owner,
           \A h \in Handles : \A w \in waiting'[h] : ~GivesUp(w.lk)',
           \A h \in Handles : \A w \in waiting'[h] : Grantable(w.lk)' => w.woken
    PROVE  TableInv'
    BY DEF TableInv, LocksTypeOK, Solo, Unparked, Greedy, NoLostWakeup

LEMMA SetlkKeeps ==
    ASSUME TableInv, Shut, NEW h \in Handles, NEW lk \in Cut, Setlk(h, lk)
    PROVE  TableInv'
    <1>1. LocksTypeOK /\ Solo /\ Unparked /\ Greedy BY DEF TableInv
    <1> HIDE DEF Cut, Lock, Mark
    <1>2. CASE Grantable(lk)
        <2>1. Grant(h, lk) /\ waiting' = Woken /\ Allowed(h, lk) BY <1>2 DEF Setlk
        <2>0. /\ \A g \in Handles : \A w \in waiting[g] : w.lk.owner # lk.owner
              /\ \A g \in Handles : \A t \in tracking[g] : t.owner # lk.owner
            BY DEF Setlk, Running, Busy, Shut, Racing
        <2>2. /\ waiting' \in [Handles -> SUBSET Call]
              /\ \A g \in Handles : \A v \in waiting'[g] : v.woken /\ \E w \in waiting[g] : v.lk = w.lk
            BY <1>1, <2>1, WokenCalls
        <2>3. ASSUME NEW g \in Handles, NEW v \in waiting'[g] PROVE ~GivesUp(v.lk)'
            <3>1. PICK w \in waiting[g] : v.lk = w.lk BY <2>2
            <3>2. w.lk \in Cut BY <1>1 DEF LocksTypeOK, Call
            <3>3. w.lk.owner # lk.owner BY <2>0
            <3>4. ~GivesUp(w.lk) BY <1>1 DEF Greedy
            <3>5. ~GivesUp(w.lk)' BY <1>2, <2>0, <2>1, <3>2, <3>3, <3>4, Granting
            <3> QED BY <3>1, <3>5 DEF GivesUp
        <2>4. \A g, k \in Handles : \A v \in waiting'[g], w \in waiting'[k] : g # k => v.lk.owner # w.lk.owner
            BY <1>1, <2>2 DEF Solo
        <2>5. \A g, k \in Handles : \A v \in waiting'[g], t \in tracking'[k] : t.owner # v.lk.owner
            <3>1. \A k \in Handles : \A t \in tracking'[k] : t \in tracking[k] \/ t.owner = lk.owner
                BY <1>2, <2>0, <2>1, Granting
            <3> QED BY <1>1, <2>0, <2>2, <3>1 DEF Unparked
        <2> QED BY <1>2, <2>0, <2>1, <2>2, <2>3, <2>4, <2>5, Granting, Parking
    <1>3. CASE ~Grantable(lk)
        <2>1. UNCHANGED <<lockTable, granted, tracking, lockOwners, waiting>> BY <1>3 DEF Setlk
        <2> QED BY <2>1, TableFrame
    <1> QED BY <1>2, <1>3

LEMMA SetlkwKeeps ==
    ASSUME TableInv, Shut, NEW h \in Handles, NEW lk \in Cut, Setlkw(h, lk)
    PROVE  TableInv'
    <1>1. LocksTypeOK /\ Solo /\ Unparked /\ Greedy /\ NoLostWakeup BY DEF TableInv
    <1>2. ~GivesUp(lk) /\ ~Busy(lk.owner) BY DEF Setlkw, Running, Shut, Racing
    <1> HIDE DEF Cut, Lock, Mark, GivesUp
    <1>3. \A g \in Handles : \A w \in waiting[g] : w.lk \in Cut /\ w.lk.owner # lk.owner
        BY <1>1, <1>2 DEF LocksTypeOK, Call, Busy
    <1>t. \A g \in Handles : \A t \in tracking[g] : t.owner # lk.owner BY <1>2 DEF Busy
    <1>4. CASE Grantable(lk)
        <2>1. Grant(h, lk) /\ waiting' = waiting /\ Allowed(h, lk) BY <1>4 DEF Setlkw
        <2>2. ASSUME NEW g \in Handles, NEW w \in waiting'[g]
              PROVE  ~GivesUp(w.lk)' /\ (Grantable(w.lk)' => w.woken)
            <3>1. w \in waiting[g] BY <2>1
            <3>2. w.lk \in Cut /\ w.lk.owner # lk.owner BY <1>3, <3>1
            <3>3. ~GivesUp(w.lk) BY <1>1, <3>1 DEF Greedy
            <3>4. ~GivesUp(w.lk)' BY <1>4, <1>t, <2>1, <3>2, <3>3, Granting
            <3>5. ~Grantable(w.lk) => ~Grantable(w.lk)' BY <1>2, <1>4, <1>t, <2>1, <3>2, Granting
            <3>6. Grantable(w.lk) => w.woken BY <1>1, <3>1 DEF NoLostWakeup
            <3> QED BY <3>4, <3>5, <3>6
        <2>3. \A g, k \in Handles : \A v \in waiting'[g], w \in waiting'[k] : g # k => v.lk.owner # w.lk.owner
            BY <1>1, <2>1 DEF Solo
        <2>4. waiting' \in [Handles -> SUBSET Call] BY <1>1, <2>1 DEF LocksTypeOK
        <2>5. \A g, k \in Handles : \A v \in waiting'[g], t \in tracking'[k] : t.owner # v.lk.owner
            <3>1. \A k \in Handles : \A t \in tracking'[k] : t \in tracking[k] \/ t.owner = lk.owner
                BY <1>4, <1>t, <2>1, Granting
            <3> QED BY <1>1, <1>3, <2>1, <3>1 DEF Unparked
        <2> QED BY <1>4, <1>t, <2>1, <2>2, <2>3, <2>4, <2>5, Granting, Parking
    <1>5. CASE ~Grantable(lk)
        <2> DEFINE parked == [lk |-> lk, woken |-> FALSE, cancelled |-> FALSE]
        <2>1. /\ UNCHANGED <<lockTable, granted, tracking, lockOwners>>
              /\ waiting' = [waiting EXCEPT ![h] = {parked}]
            BY <1>5 DEF Setlkw
        <2>2. parked \in Call /\ parked.lk = lk BY DEF Call
        <2> HIDE DEF parked
        <2>3. waiting' \in [Handles -> SUBSET Call] BY <1>1, <2>1, <2>2 DEF LocksTypeOK
        <2>4. \A g \in Handles : waiting'[g] = IF g = h THEN {parked} ELSE waiting[g] BY <1>1, <2>1 DEF LocksTypeOK
        <2>5. \A g, k \in Handles : \A v \in waiting'[g], w \in waiting'[k] : g # k => v.lk.owner # w.lk.owner
            BY <1>1, <1>3, <2>2, <2>4 DEF Solo
        <2>6. \A l : (GivesUp(l)' <=> GivesUp(l)) /\ (Grantable(l)' <=> Grantable(l))
            BY <2>1 DEF GivesUp, Holds, Grantable
        <2>7. ASSUME NEW g \in Handles, NEW w \in waiting'[g]
              PROVE  ~GivesUp(w.lk)' /\ (Grantable(w.lk)' => w.woken)
            <3>1. CASE g = h
                <4>1. w.lk = lk BY <2>2, <2>4, <3>1
                <4>2. ~GivesUp(w.lk) /\ ~Grantable(w.lk) BY <1>2, <1>5, <4>1
                <4> QED BY <2>6, <4>2
            <3>2. CASE g # h
                <4>1. w \in waiting[g] BY <2>4, <3>2
                <4>2. ~GivesUp(w.lk) /\ (Grantable(w.lk) => w.woken) BY <1>1, <4>1 DEF Greedy, NoLostWakeup
                <4> QED BY <2>6, <4>2
            <3> QED BY <3>1, <3>2
        <2>8. LocksTypeOK' /\ Agree' /\ LockExclusion' /\ Tracked'
            <3> HIDE DEF Call
            <3> QED BY <1>1, <2>1, <2>3 DEF TableInv, LocksTypeOK, Agree, LockExclusion, Tracked, WillUnlock
        <2>9. \A g, k \in Handles : \A v \in waiting'[g], t \in tracking'[k] : t.owner # v.lk.owner
            BY <1>1, <1>t, <2>1, <2>2, <2>4 DEF Unparked
        <2> QED BY <2>5, <2>7, <2>8, <2>9, Parking DEF LocksTypeOK
    <1> QED BY <1>4, <1>5

\* The parked calls of another handle, and those of h, when only those of h change.
LEMMA RetryKeeps ==
    ASSUME TableInv, Shut, NEW h \in Handles, Retry(h)
    PROVE  TableInv'
    <1>1. LocksTypeOK /\ Solo /\ Unparked /\ Greedy /\ NoLostWakeup BY DEF TableInv
    <1> HIDE DEF Cut, Lock, Mark, GivesUp
    <1>2. PICK w \in waiting[h] :
              /\ w.woken /\ Allowed(h, w.lk)
              /\ IF Grantable(w.lk)
                 THEN Grant(h, w.lk) /\ waiting' = [waiting EXCEPT ![h] = {}]
                 ELSE /\ waiting' = [waiting EXCEPT ![h] =
                                       IF w.cancelled THEN {} ELSE {[w EXCEPT !.woken = FALSE]}]
                      /\ UNCHANGED <<lockTable, granted, tracking, lockOwners>>
        BY DEF Retry
    <1>3. w \in Call /\ w.lk \in Cut /\ ~GivesUp(w.lk) BY <1>1 DEF LocksTypeOK, Call, Greedy
    <1>t. \A g \in Handles : \A t \in tracking[g] : t.owner # w.lk.owner BY <1>1, <1>2 DEF Unparked
    <1>4. CASE Grantable(w.lk)
        <2>1. Grant(h, w.lk) /\ waiting' = [waiting EXCEPT ![h] = {}] BY <1>2, <1>4
        <2>2. waiting' \in [Handles -> SUBSET Call]
              /\ \A g \in Handles : waiting'[g] = IF g = h THEN {} ELSE waiting[g]
            BY <1>1, <2>1 DEF LocksTypeOK
        <2>3. ASSUME NEW g \in Handles, NEW v \in waiting'[g]
              PROVE  ~GivesUp(v.lk)' /\ (Grantable(v.lk)' => v.woken)
            <3>1. v \in waiting[g] /\ g # h BY <2>2
            <3>2. v.lk \in Cut /\ v.lk.owner # w.lk.owner BY <1>1, <3>1 DEF LocksTypeOK, Call, Solo
            <3>3. ~GivesUp(v.lk) BY <1>1, <3>1 DEF Greedy
            <3>4. ~GivesUp(v.lk)' BY <1>2, <1>3, <1>4, <1>t, <2>1, <3>2, <3>3, Granting
            <3>5. ~Grantable(v.lk) => ~Grantable(v.lk)' BY <1>2, <1>3, <1>4, <1>t, <2>1, <3>2, Granting
            <3>6. Grantable(v.lk) => v.woken BY <1>1, <3>1 DEF NoLostWakeup
            <3> QED BY <3>4, <3>5, <3>6
        <2>4. \A g, k \in Handles : \A v \in waiting'[g], u \in waiting'[k] : g # k => v.lk.owner # u.lk.owner
            BY <1>1, <2>2 DEF Solo
        <2>5. \A g, k \in Handles : \A v \in waiting'[g], t \in tracking'[k] : t.owner # v.lk.owner
            <3>1. \A k \in Handles : \A t \in tracking'[k] : t \in tracking[k] \/ t.owner = w.lk.owner
                BY <1>2, <1>3, <1>4, <1>t, <2>1, Granting
            <3>2. \A g \in Handles : \A v \in waiting'[g] : v \in waiting[g] /\ v.lk.owner # w.lk.owner
                BY <1>1, <2>2 DEF Solo
            <3> QED BY <1>1, <3>1, <3>2 DEF Unparked
        <2> QED BY <1>2, <1>3, <1>4, <1>t, <2>1, <2>2, <2>3, <2>4, <2>5, Granting, Parking
    <1>5. CASE ~Grantable(w.lk)
        <2> DEFINE parked == [w EXCEPT !.woken = FALSE]
                   stays == IF w.cancelled THEN {} ELSE {parked}
        <2>1. UNCHANGED <<lockTable, granted, tracking, lockOwners>> /\ waiting' = [waiting EXCEPT ![h] = stays]
            BY <1>2, <1>5
        <2>2. parked \in Call /\ parked.lk = w.lk BY <1>3 DEF Call
        <2> HIDE DEF parked
        <2>3. stays \subseteq {parked} OBVIOUS
        <2> HIDE DEF stays
        <2>4. waiting' \in [Handles -> SUBSET Call]
              /\ \A g \in Handles : waiting'[g] = IF g = h THEN stays ELSE waiting[g]
            BY <1>1, <2>1, <2>2, <2>3 DEF LocksTypeOK
        <2>5. \A g, k \in Handles : \A v \in waiting'[g], u \in waiting'[k] : g # k => v.lk.owner # u.lk.owner
            BY <1>1, <2>2, <2>3, <2>4 DEF Solo
        <2>6. \A l : (GivesUp(l)' <=> GivesUp(l)) /\ (Grantable(l)' <=> Grantable(l))
            BY <2>1 DEF GivesUp, Holds, Grantable
        <2>7. ASSUME NEW g \in Handles, NEW v \in waiting'[g]
              PROVE  ~GivesUp(v.lk)' /\ (Grantable(v.lk)' => v.woken)
            <3>1. CASE g = h
                <4>1. v.lk = w.lk BY <2>2, <2>3, <2>4, <3>1
                <4>2. ~GivesUp(v.lk) /\ ~Grantable(v.lk) BY <1>3, <1>5, <4>1
                <4> QED BY <2>6, <4>2
            <3>2. CASE g # h
                <4>1. v \in waiting[g] BY <2>4, <3>2
                <4>2. ~GivesUp(v.lk) /\ (Grantable(v.lk) => v.woken) BY <1>1, <4>1 DEF Greedy, NoLostWakeup
                <4> QED BY <2>6, <4>2
            <3> QED BY <3>1, <3>2
        <2>8. LocksTypeOK' /\ Agree' /\ LockExclusion' /\ Tracked'
            <3> HIDE DEF Call
            <3> QED BY <1>1, <2>1, <2>4 DEF TableInv, LocksTypeOK, Agree, LockExclusion, Tracked, WillUnlock
        <2>9. \A g, k \in Handles : \A v \in waiting'[g], t \in tracking'[k] : t.owner # v.lk.owner
            BY <1>1, <1>t, <2>1, <2>2, <2>3, <2>4 DEF Unparked
        <2> QED BY <2>5, <2>7, <2>8, <2>9, Parking DEF LocksTypeOK
    <1> QED BY <1>4, <1>5

\* trackLockOwner only makes sure that the release finds the owner.
LEMMA TrackKeeps ==
    ASSUME TableInv, NEW h \in Handles, Track(h)
    PROVE  TableInv'
    <1>1. LocksTypeOK /\ Agree /\ LockExclusion /\ Tracked /\ Solo /\ Unparked /\ Greedy /\ NoLostWakeup
        BY DEF TableInv
    <1>2. PICK t \in tracking[h] :
              /\ tracking' = [tracking EXCEPT ![h] = @ \ {t}]
              /\ lockOwners' = [lockOwners EXCEPT ![h] = IF t.typ = "un" THEN @ \ {t.owner} ELSE @ \cup {t.owner}]
        BY DEF Track
    <1>3. UNCHANGED <<lockTable, waiting, granted>> BY DEF Track
    <1>4. t \in Mark /\ t.owner \in Owners /\ t = [owner |-> t.owner, typ |-> t.typ] BY <1>1 DEF LocksTypeOK, Mark
    <1> HIDE DEF Cut, Lock, Mark, Call
    <1>5. /\ tracking' \in [Handles -> SUBSET Mark]
          /\ \A g \in Handles : tracking'[g] = IF g = h THEN tracking[h] \ {t} ELSE tracking[g]
        BY <1>1, <1>2 DEF LocksTypeOK
    <1>6. /\ lockOwners' \in [Handles -> SUBSET Owners]
          /\ \A g \in Handles : lockOwners'[g] =
                 IF g # h THEN lockOwners[g]
                 ELSE IF t.typ = "un" THEN lockOwners[h] \ {t.owner} ELSE lockOwners[h] \cup {t.owner}
        BY <1>1, <1>2, <1>4 DEF LocksTypeOK
    <1>7. ASSUME NEW g \in Handles, NEW o \in WillUnlock(g) PROVE o \in WillUnlock(g)'
        <2>1. [owner |-> o, typ |-> "un"] \notin tracking[g] BY <1>7 DEF WillUnlock
        <2>2. [owner |-> o, typ |-> "un"] \notin tracking'[g] BY <1>5, <2>1
        <2>3. o \in lockOwners[g] \/ \E u \in tracking[g] : u.owner = o BY <1>7 DEF WillUnlock
        <2>4. o \in lockOwners'[g] \/ \E u \in tracking'[g] : u.owner = o
            <3>1. CASE g # h BY <1>5, <1>6, <2>3, <3>1
            <3>2. CASE g = h /\ o # t.owner BY <1>5, <1>6, <2>3, <3>2
            <3>3. CASE g = h /\ o = t.owner
                <4>1. t.typ # "un" BY <1>2, <1>4, <2>1, <3>3
                <4> QED BY <1>6, <3>3, <4>1
            <3> QED BY <3>1, <3>2, <3>3
        <2> QED BY <2>2, <2>4 DEF WillUnlock
    <1>8. Tracked' BY <1>1, <1>3, <1>7 DEF Tracked
    <1>9. Agree' /\ LockExclusion' /\ Solo' /\ NoLostWakeup'
        BY <1>1, <1>3 DEF Agree, LockExclusion, Solo, NoLostWakeup, Grantable
    <1>10. LocksTypeOK' BY <1>1, <1>3, <1>5, <1>6 DEF LocksTypeOK
    <1>11. Unparked' BY <1>1, <1>3, <1>5 DEF Unparked
    <1>12. \A l : GivesUp(l)' = GivesUp(l) BY <1>3 DEF GivesUp, Holds
    <1>13. Greedy' BY <1>1, <1>3, <1>12 DEF Greedy
    <1> QED BY <1>8, <1>9, <1>10, <1>11, <1>13 DEF TableInv

LEMMA InterruptKeeps ==
    ASSUME TableInv, NEW h \in Handles, Interrupt(h)
    PROVE  TableInv'
    <1>1. LocksTypeOK /\ Solo /\ Unparked /\ Greedy BY DEF TableInv
    <1> HIDE DEF Cut, Lock, Mark, GivesUp
    <1>2. PICK w \in waiting[h] :
              waiting' = [Woken EXCEPT ![h] = {[w EXCEPT !.woken = TRUE, !.cancelled = TRUE]}]
        BY DEF Interrupt
    <1>3. UNCHANGED <<lockTable, granted, tracking, lockOwners>> BY DEF Interrupt
    <1> DEFINE torn == [w EXCEPT !.woken = TRUE, !.cancelled = TRUE]
    <1>4. w \in Call BY <1>1 DEF LocksTypeOK
    <1>5. torn \in Call /\ torn.lk = w.lk /\ torn.woken BY <1>4 DEF Call
    <1> HIDE DEF torn
    <1>6. waiting' = [Woken EXCEPT ![h] = {torn}] BY <1>2 DEF torn
    <1>7. /\ Woken \in [Handles -> SUBSET Call]
          /\ \A g \in Handles : \A v \in Woken[g] : v.woken /\ \E u \in waiting[g] : v.lk = u.lk
        BY <1>1, WokenCalls
    <1> HIDE DEF Woken
    <1>8. waiting' \in [Handles -> SUBSET Call]
          /\ \A g \in Handles : waiting'[g] = IF g = h THEN {torn} ELSE Woken[g]
        BY <1>5, <1>6, <1>7
    <1>9. \A g \in Handles : \A v \in waiting'[g] : v.woken /\ \E u \in waiting[g] : v.lk = u.lk
        BY <1>5, <1>7, <1>8
    <1>10. \A g, k \in Handles : \A v \in waiting'[g], u \in waiting'[k] : g # k => v.lk.owner # u.lk.owner
        BY <1>1, <1>9 DEF Solo
    <1>11. \A l : GivesUp(l)' <=> GivesUp(l) BY <1>3 DEF GivesUp, Holds
    <1>12. \A g \in Handles : \A v \in waiting'[g] : ~GivesUp(v.lk)'
        <2> SUFFICES ASSUME NEW g \in Handles, NEW v \in waiting'[g] PROVE ~GivesUp(v.lk)' OBVIOUS
        <2>1. PICK u \in waiting[g] : v.lk = u.lk BY <1>9
        <2>2. ~GivesUp(v.lk) BY <1>1, <2>1 DEF Greedy
        <2> QED BY <1>11, <2>2
    <1>13. LocksTypeOK' /\ Agree' /\ LockExclusion' /\ Tracked'
        <2>1. \A g \in Handles : WillUnlock(g)' = WillUnlock(g) BY <1>3 DEF WillUnlock
        <2>2. Agree' /\ LockExclusion' /\ Tracked' BY <1>3, <2>1 DEF TableInv, Agree, LockExclusion, Tracked
        <2> HIDE DEF Call
        <2> QED BY <1>1, <1>3, <1>8, <2>2 DEF LocksTypeOK
    <1>14. \A g, k \in Handles : \A v \in waiting'[g], t \in tracking'[k] : t.owner # v.lk.owner
        BY <1>1, <1>3, <1>9 DEF Unparked
    <1> QED BY <1>9, <1>10, <1>12, <1>13, <1>14, Parking DEF LocksTypeOK

LEMMA ReleaseKeeps ==
    ASSUME TableInv, NEW h \in Handles, ReleaseOwner(h)
    PROVE  TableInv'
    <1>1. LocksTypeOK /\ Agree /\ LockExclusion /\ Tracked /\ Solo /\ Unparked /\ Greedy BY DEF TableInv
    <1>2. PICK o \in lockOwners[h] :
              /\ lockTable' = FilterInPlace(lockTable, WholeFile(o, "un"))
              /\ granted' = GrantedAfter(WholeFile(o, "un"))
              /\ lockOwners' = [lockOwners EXCEPT ![h] = @ \ {o}]
        BY DEF ReleaseOwner
    <1>3. waiting' = Woken /\ tracking' = tracking BY DEF ReleaseOwner
    <1>4. o \in Owners BY <1>1 DEF LocksTypeOK
    <1> DEFINE cut == WholeFile(o, "un")
    <1>5. cut \in Cut /\ cut.typ = "un" /\ cut.owner = o /\ \A b \in ByteSet : Covers(cut, b)
        BY <1>4, Bounded DEF cut, WholeFile, Cut, ByteSet, Ends, Stop, Infinity, Covers
    <1>6. Carved(lockTable, cut, lockTable') BY <1>1, <1>2, <1>4, ReleaseCarves DEF LocksTypeOK
    <1>7. granted' = GrantedAfter(cut) BY <1>2
    <1> HIDE DEF cut, Cut, Lock, Mark, GivesUp
    <1>8. /\ lockTable' \in Seq(Lock)
          /\ granted' \in [Owners -> [ByteSet -> {"none", "rd", "wr"}]]
          /\ \A q \in Owners, b \in ByteSet :
                 granted'[q][b] = IF q = cut.owner /\ Covers(cut, b)
                                  THEN IF cut.typ = "un" THEN "none" ELSE cut.typ ELSE granted[q][b]
          /\ Agree'
        <2>1. lockTable' = IF cut.typ = "un" THEN lockTable' ELSE Append(lockTable', cut) BY <1>5
        <2> QED BY <1>1, <1>5, <1>6, <1>7, <2>1, GrantExact
    <1>9. Grantable(cut) BY <1>5 DEF Grantable
    <1>10. LockExclusion' BY <1>1, <1>5, <1>8, <1>9, StillExclusive
    <1>11. lockOwners' \in [Handles -> SUBSET Owners]
           /\ \A g \in Handles : lockOwners'[g] = IF g = h THEN lockOwners[h] \ {o} ELSE lockOwners[g]
        BY <1>1, <1>2 DEF LocksTypeOK
    <1>12. ASSUME NEW r \in Range(lockTable') PROVE \E g \in Handles : r.owner \in WillUnlock(g)'
        <2>1. r \in Lock BY <1>8 DEF Range
        <2>2. r.start \in ByteSet /\ Covers(r, r.start)
            BY <2>1, Bounded DEF Lock, Cut, Covers, ByteSet, Ends, Stop
        <2>3. PICK q \in Range(lockTable) :
                 /\ r.owner = q.owner
                 /\ \A b \in ByteSet : Covers(r, b) => Covers(q, b) /\ ~(q.owner = cut.owner /\ Covers(cut, b))
            BY <1>6 DEF Carved
        <2>4. r.owner # o BY <1>5, <2>2, <2>3
        <2>5. PICK g \in Handles : q.owner \in WillUnlock(g) BY <1>1 DEF Tracked
        <2>6. r.owner \in WillUnlock(g)' BY <1>3, <1>11, <2>3, <2>4, <2>5 DEF WillUnlock
        <2> QED BY <2>6
    <1>13. Tracked' BY <1>12 DEF Tracked
    <1>14. /\ waiting' \in [Handles -> SUBSET Call]
           /\ \A g \in Handles : \A v \in waiting'[g] : v.woken /\ \E w \in waiting[g] : v.lk = w.lk
        BY <1>1, <1>3, WokenCalls
    <1>15. \A g, k \in Handles : \A v \in waiting'[g], w \in waiting'[k] : g # k => v.lk.owner # w.lk.owner
        BY <1>1, <1>14 DEF Solo
    <1>16. ASSUME NEW g \in Handles, NEW v \in waiting'[g] PROVE ~GivesUp(v.lk)'
        <2>1. PICK w \in waiting[g] : v.lk = w.lk BY <1>14
        <2>2. v.lk \in Cut BY <1>14 DEF Call
        <2>3. v.lk.owner \in Owners BY <2>2 DEF Cut
        <2>4. ~GivesUp(v.lk) BY <1>1, <2>1 DEF Greedy
        <2> HIDE DEF Covers
        <2>5. CASE v.lk.owner = o
            <3>1. \A b \in ByteSet : granted'[o][b] = "none" BY <1>4, <1>5, <1>8
            <3> QED BY <2>5, <3>1 DEF GivesUp, Holds
        <2>6. CASE v.lk.owner # o
            <3>1. \A b \in ByteSet : granted'[v.lk.owner][b] = granted[v.lk.owner][b] BY <1>5, <1>8, <2>3, <2>6
            <3> QED BY <2>4, <3>1 DEF GivesUp, Holds
        <2> QED BY <2>5, <2>6
    <1>17. tracking' \in [Handles -> SUBSET Mark] BY <1>1, <1>3 DEF LocksTypeOK
    <1>18. \A g, k \in Handles : \A v \in waiting'[g], t \in tracking'[k] : t.owner # v.lk.owner
        BY <1>1, <1>3, <1>14 DEF Unparked
    <1> QED BY <1>8, <1>10, <1>11, <1>13, <1>14, <1>15, <1>16, <1>17, <1>18, Parking

\* An empty table, nothing granted and nobody parked: the start, and every end.
LEMMA EmptyTable ==
    ASSUME lockTable' = <<>>, lockOwners' \in [Handles -> SUBSET Owners], waiting' = [g \in Handles |-> {}],
           tracking' \in [Handles -> SUBSET Mark], granted' = [o \in Owners |-> [b \in ByteSet |-> "none"]]
    PROVE  TableInv'
    <1>1. lockTable' \in Seq(Lock) /\ Range(lockTable') = {} BY DEF Range
    <1>2. granted' \in [Owners -> [ByteSet -> {"none", "rd", "wr"}]]
          /\ \A o \in Owners, b \in ByteSet : granted'[o][b] = "none"
        OBVIOUS
    <1>3. waiting' \in [Handles -> SUBSET Call] /\ \A g \in Handles : waiting'[g] = {} OBVIOUS
    <1> HIDE DEF Cut, Lock, Call, Mark
    <1>4. Agree' /\ LockExclusion' /\ Tracked' BY <1>1, <1>2 DEF Agree, LockExclusion, Tracked
    <1> QED BY <1>1, <1>2, <1>3, <1>4, Parking

\* Every handle has given its owners up before the last one takes the locks.
LEMMA DropKeeps ==
    ASSUME TableInv, DropAllLocks, \A g \in Handles : lockOwners[g] = {} /\ Answered(g)
    PROVE  TableInv'
    <1>1. LocksTypeOK BY DEF TableInv
    <1>2. lockTable' = <<>> /\ waiting' = Woken /\ lockOwners' = lockOwners /\ tracking' = tracking
        BY DEF DropAllLocks
    <1>3. granted' = [o \in Owners |-> [b \in ByteSet |-> "none"]]
        <2>1. \A g \in Handles : WillUnlock(g) = {} BY DEF WillUnlock, Answered
        <2> QED BY <2>1 DEF DropAllLocks
    <1>4. waiting' = [g \in Handles |-> {}]
        <2>1. \A g \in Handles : waiting'[g] = {} BY <1>1, <1>2, WokenCalls DEF Answered
        <2>2. waiting' \in [Handles -> SUBSET Call] BY <1>1, <1>2, WokenCalls
        <2> HIDE DEF Call
        <2> QED BY <2>1, <2>2
    <1> HIDE DEF Cut, Lock, Call, Mark
    <1>5. lockOwners' \in [Handles -> SUBSET Owners] /\ tracking' \in [Handles -> SUBSET Mark] BY <1>1, <1>2 DEF LocksTypeOK
    <1> QED BY <1>2, <1>3, <1>4, <1>5, EmptyTable

\* TableInv is what LocksSound says, and more.
LEMMA SoundTable == TableInv => LocksSound
    <1> SUFFICES ASSUME TableInv PROVE LocksSound OBVIOUS
    <1>1. LocksTypeOK /\ Agree /\ LockExclusion /\ Tracked /\ NoLostWakeup BY DEF TableInv
    <1>2. LocksExact
        <2> SUFFICES ASSUME NEW o \in Owners, NEW b \in ByteSet
                     PROVE  {lockTable[i].typ : i \in {i \in DOMAIN lockTable :
                                   lockTable[i].owner = o /\ Covers(lockTable[i], b)}}
                            = {granted[o][b]} \ {"none"}
            BY DEF LocksExact
        <2>1. \A i \in DOMAIN lockTable : lockTable[i] \in Range(lockTable) BY DEF Range
        <2>2. \A i \in DOMAIN lockTable : lockTable[i].typ # "none" BY <1>1 DEF LocksTypeOK, Lock, Cut
        <2>3. granted[o][b] # "none" =>
                 \E i \in DOMAIN lockTable : lockTable[i].owner = o /\ Covers(lockTable[i], b)
            BY <1>1 DEF Agree, Range
        <2> HIDE DEF Covers
        <2>4. \A i \in DOMAIN lockTable : lockTable[i].owner = o /\ Covers(lockTable[i], b)
                 => lockTable[i].typ = granted[o][b]
            BY <1>1, <2>1 DEF Agree
        <2> QED BY <2>2, <2>3, <2>4
    <1>3. LocksDieWithHandle BY <1>1 DEF Tracked, LocksDieWithHandle, Range
    <1> QED BY <1>1, <1>2, <1>3 DEF LocksSound

-----------------------------------------------------------------------------
(* The steps of the handles.                                               *)

LEMMA HandleFrame ==
    ASSUME HandleInv, UNCHANGED <<handle, lockOwners, waiting, tracking>>
    PROVE  HandleInv'
    BY DEF HandleInv, HandlesShaped, Owning, Waiting, Emptied, Answered

\* A step of h alone: no other handle moves, and what h may no longer do it has given up.
LEMMA Stepping ==
    ASSUME HandleInv, NEW h \in Handles, DOMAIN handle' = Handles, UNCHANGED <<lockOwners, waiting, tracking>>,
           \A g \in Handles \ {h} : handle'[g] = handle[g],
           {"pc", "why"} \subseteq DOMAIN handle'[h],
           handle'[h].pc \in Sync => handle'[h].why \in {"flush", "release"},
           handle'[h].pc = "making" => handle'[h].why \in {"open", "trunc"},
           handle'[h].pc \in Sync \cup {"open", "unlock"} \/ lockOwners[h] = {},
           Answered(h) \/ handle'[h].pc = "open" \/ (handle'[h].pc \in Sync /\ handle'[h].why = "flush"),
           handle'[h].pc = "locks" => \A g \in Handles : lockOwners[g] = {} /\ Answered(g)
    PROVE  HandleInv'
    <1>0. \A g \in Handles : Answered(g)' <=> Answered(g) BY DEF Answered
    <1>1. HandlesShaped' BY DEF HandleInv, HandlesShaped
    <1>2. Owning' BY DEF HandleInv, Owning
    <1>3. Waiting' BY <1>0 DEF HandleInv, Waiting
    <1>4. Emptied'
        <2> SUFFICES ASSUME NEW k \in Handles, handle'[k].pc = "locks"
                     PROVE  \A g \in Handles : lockOwners'[g] = {} /\ Answered(g)'
            BY DEF Emptied
        <2>1. CASE k = h BY <1>0, <2>1
        <2>2. CASE k # h BY <1>0, <2>2 DEF HandleInv, Emptied
        <2> QED BY <2>1, <2>2
    <1> QED BY <1>1, <1>2, <1>3, <1>4 DEF HandleInv

Idle == {"closed", "making", "trunc", "failed", "saving", "drop", "locks", "ref"}

\* A handle that is not in use owns nothing and waits for nothing.
LEMMA IdleHandles ==
    ASSUME HandleInv, NEW h \in Handles, handle[h].pc \in Idle
    PROVE  lockOwners[h] = {} /\ Answered(h)
    BY DEF HandleInv, Owning, Waiting, Idle, Sync

\* Between two idle places.
LEMMA Moving ==
    ASSUME HandleInv, NEW h \in Handles, handle[h].pc \in Idle, UNCHANGED <<lockOwners, waiting, tracking>>,
           DOMAIN handle' = Handles, \A g \in Handles \ {h} : handle'[g] = handle[g],
           {"pc", "why"} \subseteq DOMAIN handle'[h],
           handle'[h].pc \in (Idle \ {"locks"}) \cup {"open"},
           handle'[h].pc = "making" => handle'[h].why \in {"open", "trunc"}
    PROVE  HandleInv'
    <1>1. lockOwners[h] = {} /\ Answered(h) BY IdleHandles
    <1> QED BY <1>1, Stepping DEF Idle, Sync

LEMMA OpenSteps ==
    ASSUME HandleInv, NEW h \in Handles, NEW trunc \in BOOLEAN,
           Open(h, trunc) \/ Materialize(h) \/ TruncateOpen(h)
    PROVE  HandleInv'
    <1>1. DOMAIN handle = Handles /\ {"pc", "why"} \subseteq DOMAIN handle[h]
          /\ (handle[h].pc = "making" => handle[h].why \in {"open", "trunc"})
        BY DEF HandleInv, HandlesShaped
    <1>2. UNCHANGED <<lockOwners, waiting, tracking>> BY DEF Open, Materialize, TruncateOpen, lockVars
    <1>3. \A x, y, z : /\ {"pc", "why"} \subseteq DOMAIN [Rest EXCEPT !.pc = x, !.path = y, !.slot = z]
                       /\ [Rest EXCEPT !.pc = x, !.path = y, !.slot = z].pc = x
        BY DEF Rest
    <1>4. \A x, y, z, u : /\ {"pc", "why"} \subseteq DOMAIN [Rest EXCEPT !.pc = x, !.path = y, !.slot = z, !.why = u]
                          /\ [Rest EXCEPT !.pc = x, !.path = y, !.slot = z, !.why = u].pc = x
                          /\ [Rest EXCEPT !.pc = x, !.path = y, !.slot = z, !.why = u].why = u
        BY DEF Rest
    <1>5. {"pc", "why"} \subseteq DOMAIN Rest /\ Rest.pc = "closed" BY DEF Rest
    <1>6. CASE Open(h, trunc)
        <2>1. handle[h].pc = "closed" BY <1>6 DEF Open
        <2>2. \E y, z :
                 \/ handle' = [handle EXCEPT ![h] =
                        [Rest EXCEPT !.pc = IF trunc THEN "trunc" ELSE "open", !.path = y, !.slot = z]]
                 \/ handle' = [handle EXCEPT ![h] =
                        [Rest EXCEPT !.pc = "making", !.path = y, !.slot = z,
                                     !.why = IF trunc THEN "trunc" ELSE "open"]]
            <3> HIDE DEF Rest
            <3>1. CASE current # 0
                <4>1. \E p \in tracked : handle' = [handle EXCEPT ![h] =
                        [Rest EXCEPT !.pc = IF trunc THEN "trunc" ELSE "open", !.path = p, !.slot = current]]
                    BY <1>6, <3>1 DEF Open
                <4> QED BY <4>1
            <3>2. CASE current = 0
                <4>1. \E p \in tracked, s \in Slots : handle' = [handle EXCEPT ![h] =
                        [Rest EXCEPT !.pc = "making", !.path = p, !.slot = s,
                                     !.why = IF trunc THEN "trunc" ELSE "open"]]
                    BY <1>6, <3>2 DEF Open
                <4> QED BY <4>1
            <3> QED BY <3>1, <3>2
        <2> HIDE DEF Rest
        <2>3. PICK y, z :
                 \/ handle' = [handle EXCEPT ![h] =
                        [Rest EXCEPT !.pc = IF trunc THEN "trunc" ELSE "open", !.path = y, !.slot = z]]
                 \/ handle' = [handle EXCEPT ![h] =
                        [Rest EXCEPT !.pc = "making", !.path = y, !.slot = z,
                                     !.why = IF trunc THEN "trunc" ELSE "open"]]
            BY <2>2
        <2> DEFINE a == [Rest EXCEPT !.pc = IF trunc THEN "trunc" ELSE "open", !.path = y, !.slot = z]
                   b == [Rest EXCEPT !.pc = "making", !.path = y, !.slot = z,
                                     !.why = IF trunc THEN "trunc" ELSE "open"]
        <2>4. {"pc", "why"} \subseteq DOMAIN a /\ a.pc \in {"trunc", "open"} BY <1>3
        <2>5. {"pc", "why"} \subseteq DOMAIN b /\ b.pc = "making" /\ b.why \in {"trunc", "open"} BY <1>4
        <2> HIDE DEF a, b
        <2>6. handle' = [handle EXCEPT ![h] = a] \/ handle' = [handle EXCEPT ![h] = b] BY <2>3 DEF a, b
        <2> QED BY <1>1, <1>2, <2>1, <2>4, <2>5, <2>6, Moving DEF Idle
    <1>7. CASE Materialize(h)
        <2>1. handle[h].pc = "making" BY <1>7 DEF Materialize
        <2>2. handle' = [handle EXCEPT ![h].pc = handle[h].why] \/ handle' = [handle EXCEPT ![h] = Rest]
            BY <1>7 DEF Materialize
        <2> HIDE DEF Rest
        <2> QED BY <1>1, <1>2, <1>5, <2>1, <2>2, Moving DEF Idle
    <1>8. CASE TruncateOpen(h)
        <2>1. handle[h].pc = "trunc" /\ handle' = [handle EXCEPT ![h].pc = "open"] BY <1>8 DEF TruncateOpen
        <2> QED BY <1>1, <1>2, <2>1, Moving DEF Idle
    <1> QED BY <1>6, <1>7, <1>8

LEMMA DataSteps ==
    ASSUME HandleInv, NEW h \in Handles,
           \/ \E w \in Writes : Write(h, w[1], w[2])
           \/ \E n \in Sizes : SetSize(h, n) \/ Allocate(h, n)
           \/ StageMode(h)
    PROVE  HandleInv'
    <1>1. UNCHANGED <<handle, lockOwners, waiting, tracking>> BY DEF Write, SetSize, Allocate, StageMode, Change, lockVars
    <1> QED BY <1>1, HandleFrame

\* A commit goes on, or returns to where it was called from.
LEMMA Committed ==
    ASSUME HandleInv, NEW h \in Handles, handle[h].pc \in Sync, UNCHANGED <<lockOwners, waiting, tracking>>,
           DOMAIN handle' = Handles, \A g \in Handles \ {h} : handle'[g] = handle[g],
           {"pc", "why"} \subseteq DOMAIN handle'[h],
           \/ handle'[h].pc \in Sync /\ handle'[h].why = handle[h].why
           \/ handle'[h].pc = IF handle[h].why = "release" THEN "unlock" ELSE "open"
    PROVE  HandleInv'
    <1>1. handle[h].why \in {"flush", "release"} BY DEF HandleInv, HandlesShaped
    <1>2. Answered(h) \/ handle[h].why = "flush" BY DEF HandleInv, Waiting, Sync
    <1>3. "open" \notin Sync /\ "unlock" \notin Sync /\ "making" \notin Sync /\ "locks" \notin Sync BY DEF Sync
    <1>4. CASE handle'[h].pc \in Sync /\ handle'[h].why = handle[h].why BY <1>1, <1>2, <1>3, <1>4, Stepping
    <1>5. CASE handle'[h].pc = IF handle[h].why = "release" THEN "unlock" ELSE "open"
        BY <1>1, <1>2, <1>3, <1>5, Stepping
    <1> QED BY <1>4, <1>5

LEMMA Returned ==
    ASSUME NEW h \in Handles, NEW failed, DOMAIN handle = Handles, {"pc", "why"} \subseteq DOMAIN handle[h]
    PROVE  /\ DOMAIN Return(h, failed) = Handles
           /\ \A g \in Handles \ {h} : Return(h, failed)[g] = handle[g]
           /\ {"pc", "why"} \subseteq DOMAIN Return(h, failed)[h]
           /\ Return(h, failed)[h].pc = IF handle[h].why = "release" THEN "unlock" ELSE "open"
    <1> DEFINE p == IF handle[h].why = "release" THEN "unlock" ELSE "open"
    <1>1. Return(h, failed) =
            [handle EXCEPT ![h].pc = p, ![h].why = "", ![h].failed = failed, ![h].verb = NoVerb, ![h].cpath = "",
                           ![h].cpend = 0]
        BY DEF Return
    <1> HIDE DEF p
    <1>2. DOMAIN Return(h, failed) = Handles /\ \A g \in Handles \ {h} : Return(h, failed)[g] = handle[g] BY <1>1
    <1>3. {"pc", "why"} \subseteq DOMAIN Return(h, failed)[h] /\ Return(h, failed)[h].pc = p
        <2>1. \A r : {"pc", "why"} \subseteq DOMAIN r =>
                 LET q == [r EXCEPT !.pc = p, !.why = "", !.failed = failed, !.verb = NoVerb, !.cpath = "", !.cpend = 0]
                 IN  {"pc", "why"} \subseteq DOMAIN q /\ q.pc = p
            OBVIOUS
        <2>2. Return(h, failed)[h] = [handle[h] EXCEPT !.pc = p, !.why = "", !.failed = failed, !.verb = NoVerb,
                                                       !.cpath = "", !.cpend = 0]
            BY <1>1
        <2> QED BY <2>1, <2>2
    <1> QED BY <1>2, <1>3 DEF p

LEMMA CommitSteps ==
    ASSUME HandleInv, NEW h \in Handles,
           CommitPlan(h) \/ CommitVerb(h) \/ CommitTrim(h) \/ CommitFinish(h)
    PROVE  HandleInv'
    <1>1. DOMAIN handle = Handles /\ {"pc", "why"} \subseteq DOMAIN handle[h] BY DEF HandleInv, HandlesShaped
    <1>2. UNCHANGED <<lockOwners, waiting, tracking>> BY DEF CommitPlan, CommitVerb, CommitTrim, CommitFinish, lockVars
    <1>3. handle[h].pc \in Sync BY DEF CommitPlan, CommitVerb, CommitTrim, CommitFinish, Sync
    <1>4. \/ \E failed : handle' = Return(h, failed)
          \/ \E p \in Sync : handle' = [handle EXCEPT ![h].pc = p]
          \/ \E p \in Sync : \E v, c : handle' = [handle EXCEPT ![h].pc = p, ![h].verb = v, ![h].cpend = c]
        <2>1. CASE CommitPlan(h)
            <3> DEFINE w == State(h)
                       v == Sent(w)
                       gone == w.deleted \/ handle[h].path = "" \/ w.path = ""
                       p == IF v.kind = "none" THEN "finish" ELSE "verb"
            <3>1. \/ handle' = Return(h, w.poisoned \/ ~gone)
                  \/ handle' = [handle EXCEPT ![h].pc = p, ![h].verb = v, ![h].cpend = w.pending]
                BY <2>1 DEF CommitPlan
            <3>2. p \in Sync BY DEF Sync
            <3> HIDE DEF w, v, gone, p
            <3> QED BY <3>1, <3>2
        <2>2. CASE CommitVerb(h) BY <2>2 DEF CommitVerb, Fail, Sync
        <2>3. CASE CommitTrim(h) BY <2>3 DEF CommitTrim, Sync
        <2>4. CASE CommitFinish(h) BY <2>4 DEF CommitFinish, Fail
        <2> QED BY <2>1, <2>2, <2>3, <2>4
    <1>5. /\ DOMAIN handle' = Handles /\ \A g \in Handles \ {h} : handle'[g] = handle[g]
          /\ {"pc", "why"} \subseteq DOMAIN handle'[h]
          /\ \/ handle'[h].pc \in Sync /\ handle'[h].why = handle[h].why
             \/ handle'[h].pc = IF handle[h].why = "release" THEN "unlock" ELSE "open"
        <2>1. CASE \E failed : handle' = Return(h, failed) BY <1>1, <2>1, Returned
        <2>2. CASE \E p \in Sync : handle' = [handle EXCEPT ![h].pc = p] BY <1>1, <2>2
        <2>3. CASE \E p \in Sync : \E v, c : handle' = [handle EXCEPT ![h].pc = p, ![h].verb = v, ![h].cpend = c]
            BY <1>1, <2>3
        <2> QED BY <1>4, <2>1, <2>2, <2>3
    <1> QED BY <1>2, <1>3, <1>5, Committed

LEMMA StartStep ==
    ASSUME HandleInv, NEW h \in Handles, NEW why \in {"flush", "release"}, CommitStart(h, why),
           why = "release" => Answered(h)
    PROVE  HandleInv'
    <1>1. DOMAIN handle = Handles /\ {"pc", "why"} \subseteq DOMAIN handle[h] BY DEF HandleInv, HandlesShaped
    <1>2. UNCHANGED <<lockOwners, waiting, tracking>> /\ handle[h].pc = "open" BY DEF CommitStart, lockVars
    <1>3. \/ /\ why = "release"
             /\ \E failed : handle' = [handle EXCEPT ![h].pc = "unlock", ![h].failed = failed]
          \/ \E p : handle' = [handle EXCEPT ![h].pc = "check", ![h].why = why, ![h].failed = FALSE, ![h].cpath = p]
        BY DEF CommitStart
    <1>4. CASE why = "release" /\ \E failed : handle' = [handle EXCEPT ![h].pc = "unlock", ![h].failed = failed]
        <2>1. /\ DOMAIN handle' = Handles /\ \A g \in Handles \ {h} : handle'[g] = handle[g]
              /\ {"pc", "why"} \subseteq DOMAIN handle'[h] /\ handle'[h].pc = "unlock"
            BY <1>1, <1>4
        <2> QED BY <1>2, <1>4, <2>1, Stepping DEF Sync
    <1>5. CASE \E p : handle' = [handle EXCEPT ![h].pc = "check", ![h].why = why, ![h].failed = FALSE, ![h].cpath = p]
        <2>1. /\ DOMAIN handle' = Handles /\ \A g \in Handles \ {h} : handle'[g] = handle[g]
              /\ {"pc", "why"} \subseteq DOMAIN handle'[h] /\ handle'[h].pc = "check" /\ handle'[h].why = why
            BY <1>1, <1>5
        <2> QED BY <1>2, <2>1, Stepping DEF Sync
    <1> QED BY <1>3, <1>4, <1>5

LEMMA CloseSteps ==
    ASSUME HandleInv, NEW h \in Handles,
           Unlock(h) \/ QuarantineStart(h) \/ QuarantineSave(h) \/ Delete(h) \/ Drop(h)
    PROVE  HandleInv'
    <1>1. DOMAIN handle = Handles /\ {"pc", "why"} \subseteq DOMAIN handle[h] BY DEF HandleInv, HandlesShaped
    <1>2. UNCHANGED <<lockOwners, waiting, tracking>>
        BY DEF Unlock, QuarantineStart, QuarantineSave, Delete, Drop, lockVars
    <1>3. CASE Unlock(h)
        <2>1. handle[h].pc = "unlock" /\ lockOwners[h] = {} BY <1>3 DEF Unlock
        <2>2. Answered(h) BY <2>1 DEF HandleInv, Waiting, Sync
        <2>3. \E p \in {"failed", "drop"} : handle' = [handle EXCEPT ![h].pc = p] BY <1>3 DEF Unlock
        <2> QED BY <1>1, <1>2, <2>1, <2>2, <2>3, Stepping DEF Sync
    <1>4. CASE QuarantineStart(h)
        <2>1. handle[h].pc = "failed" BY <1>4 DEF QuarantineStart
        <2>2. \/ \E f, t : handle' = [handle EXCEPT ![h].pc = "saving", ![h].full = f, ![h].stamp = t]
              \/ handle' = [handle EXCEPT ![h].pc = "drop"]
            <3> DEFINE f == WholeImage(State(h))
                       t == Fingerprint(State(h).path)
            <3>1. \/ handle' = [handle EXCEPT ![h].pc = "saving", ![h].full = f, ![h].stamp = t]
                  \/ handle' = [handle EXCEPT ![h].pc = "drop"]
                BY <1>4 DEF QuarantineStart
            <3> HIDE DEF f, t
            <3> QED BY <3>1
        <2>3. /\ DOMAIN handle' = Handles /\ \A g \in Handles \ {h} : handle'[g] = handle[g]
              /\ {"pc", "why"} \subseteq DOMAIN handle'[h] /\ handle'[h].pc \in {"saving", "drop"}
            <3>1. CASE \E f, t : handle' = [handle EXCEPT ![h].pc = "saving", ![h].full = f, ![h].stamp = t]
                <4>1. PICK f, t : handle' = [handle EXCEPT ![h].pc = "saving", ![h].full = f, ![h].stamp = t]
                    BY <3>1
                <4> QED BY <1>1, <4>1
            <3>2. CASE handle' = [handle EXCEPT ![h].pc = "drop"] BY <1>1, <3>2
            <3> QED BY <2>2, <3>1, <3>2
        <2> QED BY <1>2, <2>1, <2>3, Moving DEF Idle
    <1>5. CASE QuarantineSave(h)
        <2>1. handle[h].pc = "saving" /\ handle' = [handle EXCEPT ![h].pc = "drop"] BY <1>5 DEF QuarantineSave
        <2> QED BY <1>1, <1>2, <2>1, Moving DEF Idle
    <1>6. CASE Delete(h)
        <2> DEFINE others == {g \in Handles \ {h} : handle[g].pc \notin {"closed", "making", "locks", "ref"}}
        <2>1. /\ handle[h].pc = "drop"
              /\ handle' = [handle EXCEPT ![h].pc = IF others = {} THEN "locks" ELSE "ref"]
            BY <1>6 DEF Delete
        <2>2. lockOwners[h] = {} /\ Answered(h) BY <2>1, IdleHandles DEF Idle
        <2>3. CASE others = {}
            <3>1. \A g \in Handles \ {h} : handle[g].pc \in Idle BY <2>3 DEF Idle
            <3>2. \A g \in Handles : lockOwners[g] = {} /\ Answered(g) BY <2>2, <3>1, IdleHandles
            <3>3. handle' = [handle EXCEPT ![h].pc = "locks"] BY <2>1, <2>3
            <3> QED BY <1>1, <1>2, <2>2, <3>2, <3>3, Stepping DEF Sync
        <2>4. CASE others # {}
            <3>1. handle' = [handle EXCEPT ![h].pc = "ref"] BY <2>1, <2>4
            <3> QED BY <1>1, <1>2, <2>1, <3>1, Moving DEF Idle
        <2> QED BY <2>3, <2>4
    <1>7. CASE Drop(h)
        <2>1. handle[h].pc = "ref" /\ handle' = [handle EXCEPT ![h] = Rest] BY <1>7 DEF Drop
        <2>2. {"pc", "why"} \subseteq DOMAIN Rest /\ Rest.pc = "closed" BY DEF Rest
        <2> HIDE DEF Rest
        <2> QED BY <1>1, <1>2, <2>1, <2>2, Moving DEF Idle
    <1> QED BY <1>3, <1>4, <1>5, <1>6, <1>7

LEMMA LastCloseStep ==
    ASSUME LockInv, NEW h \in Handles, LastClose(h)
    PROVE  LockInv'
    <1>1. TableInv /\ HandleInv BY DEF LockInv
    <1>2. handle[h].pc = "locks" /\ DropAllLocks /\ handle' = [handle EXCEPT ![h].pc = "ref"] BY DEF LastClose
    <1>3. \A g \in Handles : lockOwners[g] = {} /\ Answered(g) BY <1>1, <1>2 DEF HandleInv, Emptied
    <1>4. TableInv' BY <1>1, <1>2, <1>3, DropKeeps
    <1>5. lockOwners' = lockOwners /\ tracking' = tracking BY <1>2 DEF DropAllLocks
    <1>6. \A g \in Handles : Answered(g)'
        <2>1. LocksTypeOK BY <1>1 DEF TableInv
        <2> QED BY <1>2, <1>3, <1>5, <2>1, WokenCalls DEF DropAllLocks, Answered
    <1>7. DOMAIN handle = Handles /\ \A g \in Handles : {"pc", "why"} \subseteq DOMAIN handle[g]
        BY <1>1 DEF HandleInv, HandlesShaped
    <1>8. /\ DOMAIN handle' = Handles /\ \A g \in Handles \ {h} : handle'[g] = handle[g]
          /\ {"pc", "why"} \subseteq DOMAIN handle'[h] /\ handle'[h].pc = "ref"
        BY <1>2, <1>7
    <1>9. HandlesShaped' BY <1>1, <1>8 DEF HandleInv, HandlesShaped, Sync
    <1>10. Owning' /\ Waiting' /\ Emptied' BY <1>3, <1>5, <1>6 DEF Owning, Waiting, Emptied
    <1> QED BY <1>4, <1>9, <1>10 DEF LockInv, HandleInv

\* A lock call of h leaves every handle where it is.
LEMMA Holding ==
    ASSUME HandleInv, NEW h \in Handles, UNCHANGED handle,
           handle[h].pc \in Sync \cup {"open", "unlock"},
           \A g \in Handles \ {h} : lockOwners'[g] = lockOwners[g] /\ (Answered(g) => Answered(g)'),
           ~Answered(h)' => handle[h].pc = "open" \/ (handle[h].pc \in Sync /\ handle[h].why = "flush"),
           lockOwners'[h] = {} \/ lockOwners[h] # {} \/ \A k \in Handles : handle[k].pc # "locks",
           Answered(h)' \/ ~Answered(h) \/ \A k \in Handles : handle[k].pc # "locks"
    PROVE  HandleInv'
    <1>1. HandlesShaped' BY DEF HandleInv, HandlesShaped
    <1>2. Owning' BY DEF HandleInv, Owning
    <1>3. Waiting' BY DEF HandleInv, Waiting
    <1>4. Emptied'
        <2> SUFFICES ASSUME NEW k \in Handles, handle[k].pc = "locks", NEW g \in Handles
                     PROVE  lockOwners'[g] = {} /\ Answered(g)'
            BY DEF Emptied
        <2>1. lockOwners[g] = {} /\ Answered(g) /\ lockOwners[h] = {} /\ Answered(h)
            BY DEF HandleInv, Emptied
        <2> QED BY <2>1
    <1> QED BY <1>1, <1>2, <1>3, <1>4 DEF HandleInv

LEMMA LockSteps ==
    ASSUME LockInv, Shut, NEW h \in Handles, Locking(h) \/ Parked(h) \/ ReleaseLocks(h)
    PROVE  LockInv'
    <1>1. TableInv /\ HandleInv /\ LocksTypeOK BY DEF LockInv, TableInv
    <1>2. UNCHANGED handle BY DEF Locking, Parked, ReleaseLocks, fileVars
    <1>3. \A g \in Handles : Woken[g] = {} <=> waiting[g] = {} BY <1>1, WokenCalls
    <1>4. Woken \in [Handles -> SUBSET Call] BY <1>1, WokenCalls
    <1>5. \A k \in Handles : \A lk : Grant(k, lk) =>
              lockOwners' = lockOwners /\ \A g \in Handles \ {k} : tracking'[g] = tracking[g]
        BY <1>1 DEF LocksTypeOK, Grant
    <1> HIDE DEF Woken, Call, Cut, Lock, Mark
    <1>6. CASE Locking(h)
        <2>0. PICK o \in Owners : \E lk \in Requests(o) : Setlk(h, lk) \/ Setlkw(h, lk) BY <1>6 DEF Locking
        <2>1. PICK lk \in Requests(o) : Setlk(h, lk) \/ Setlkw(h, lk) BY <2>0
        <2>2. lk \in Cut
            <3>1. lk \in [owner : {o}, typ : {"rd", "wr", "un"}, start : ByteSet, end : Ends] /\ lk.start < Stop(lk)
                BY <2>1 DEF Requests
            <3> QED BY <3>1 DEF Cut
        <2>3. TableInv' BY <1>1, <2>1, <2>2, SetlkKeeps, SetlkwKeeps
        <2>4. handle[h].pc = "open" /\ \A k \in Handles : handle[k].pc # "locks"
            BY <1>6 DEF Locking, LastClosing, Shut, Racing
        <2>5. \A g \in Handles \ {h} : lockOwners'[g] = lockOwners[g] /\ (Answered(g) => Answered(g)')
            <3>1. CASE Setlk(h, lk) BY <1>1, <1>3, <1>5, <3>1 DEF Setlk, Answered
            <3>2. CASE Setlkw(h, lk) BY <1>1, <1>5, <3>2 DEF Setlkw, LocksTypeOK, Answered
            <3> QED BY <2>1, <3>1, <3>2
        <2> QED BY <1>1, <1>2, <2>3, <2>4, <2>5, Holding DEF LockInv
    <1>7. CASE Retry(h)
        <2>1. TableInv' BY <1>1, <1>7, RetryKeeps
        <2>2. ~Answered(h) BY <1>7 DEF Retry, Answered
        <2>3. \A g \in Handles \ {h} : lockOwners'[g] = lockOwners[g] /\ (Answered(g) => Answered(g)')
            BY <1>1, <1>5, <1>7 DEF Retry, LocksTypeOK, Answered
        <2>4. handle[h].pc = "open" \/ (handle[h].pc \in Sync /\ handle[h].why = "flush")
            BY <1>1, <2>2 DEF HandleInv, Waiting
        <2>5. \A k \in Handles : handle[k].pc # "locks" BY <1>1, <2>2 DEF HandleInv, Emptied
        <2> QED BY <1>1, <1>2, <2>1, <2>3, <2>4, <2>5, Holding DEF LockInv
    <1>t. CASE Track(h)
        <2>1. TableInv' BY <1>1, <1>t, TrackKeeps
        <2>2. ~Answered(h) BY <1>t DEF Track, Answered
        <2>3. \A g \in Handles \ {h} : lockOwners'[g] = lockOwners[g] /\ (Answered(g) => Answered(g)')
            BY <1>1, <1>t DEF Track, LocksTypeOK, Answered
        <2>4. handle[h].pc = "open" \/ (handle[h].pc \in Sync /\ handle[h].why = "flush")
            BY <1>1, <2>2 DEF HandleInv, Waiting
        <2>5. \A k \in Handles : handle[k].pc # "locks" BY <1>1, <2>2 DEF HandleInv, Emptied
        <2> QED BY <1>1, <1>2, <2>1, <2>3, <2>4, <2>5, Holding DEF LockInv
    <1>8. CASE Interrupt(h)
        <2>1. TableInv' BY <1>1, <1>8, InterruptKeeps
        <2>2. ~Answered(h) BY <1>8 DEF Interrupt, Answered
        <2>3. \A g \in Handles \ {h} : lockOwners'[g] = lockOwners[g] /\ (Answered(g) => Answered(g)')
            BY <1>1, <1>3, <1>4, <1>8 DEF Interrupt, Answered
        <2>4. handle[h].pc = "open" \/ (handle[h].pc \in Sync /\ handle[h].why = "flush")
            BY <1>1, <2>2 DEF HandleInv, Waiting
        <2>5. \A k \in Handles : handle[k].pc # "locks" BY <1>1, <2>2 DEF HandleInv, Emptied
        <2> QED BY <1>1, <1>2, <2>1, <2>3, <2>4, <2>5, Holding DEF LockInv
    <1>9. CASE ReleaseLocks(h)
        <2>1. handle[h].pc = "unlock" /\ ReleaseOwner(h) BY <1>9 DEF ReleaseLocks
        <2>2. TableInv' BY <1>1, <2>1, ReleaseKeeps
        <2>3. waiting' = Woken /\ tracking' = tracking /\ \E o \in lockOwners[h] : lockOwners' = [lockOwners EXCEPT ![h] = @ \ {o}]
            BY <2>1 DEF ReleaseOwner
        <2>4. lockOwners[h] # {} BY <2>3
        <2>5. \A g \in Handles \ {h} : lockOwners'[g] = lockOwners[g] /\ (Answered(g) => Answered(g)')
            BY <1>1, <1>3, <2>3 DEF LocksTypeOK, Answered
        <2>6. Answered(h)' BY <1>1, <1>3, <2>1, <2>3 DEF HandleInv, Waiting, Sync, Answered
        <2> QED BY <1>1, <1>2, <2>1, <2>2, <2>4, <2>5, <2>6, Holding DEF LockInv
    <1> QED BY <1>6, <1>7, <1>t, <1>8, <1>9 DEF Parked

\* Every handle is closed and the table empty: the start, a close of the mount and a crash.
LEMMA Reset ==
    ASSUME lockTable' = <<>>, lockOwners' = [h \in Handles |-> {}], waiting' = [h \in Handles |-> {}],
           tracking' = [h \in Handles |-> {}], granted' = [o \in Owners |-> [b \in ByteSet |-> "none"]], handle' = [h \in Handles |-> Rest]
    PROVE  LockInv'
    <1>1. TableInv'
        <2>1. lockOwners' \in [Handles -> SUBSET Owners] /\ tracking' \in [Handles -> SUBSET Mark] OBVIOUS
        <2> QED BY <2>1, EmptyTable
    <1>2. {"pc", "why"} \subseteq DOMAIN Rest /\ Rest.pc = "closed" BY DEF Rest
    <1> HIDE DEF Rest
    <1>3. HandleInv' BY <1>2 DEF HandleInv, HandlesShaped, Owning, Waiting, Emptied, Answered, Sync
    <1> QED BY <1>1, <1>3 DEF LockInv

LEMMA MountSteps ==
    ASSUME LockInv,
           \/ \E src, dst \in Names, kind \in {"unlink", "rename"} : DirStart(kind, src, dst)
           \/ DirHub \/ DirHandles \/ DirStates \/ \E n \in Names : Link(n)
           \/ Close \/ Crash \/ Rival \/ Mount \/ \E e \in recovery : Redrive(e)
    PROVE  LockInv'
    <1>1. TableInv /\ HandleInv BY DEF LockInv
    <1>2. CASE Close \/ Crash
        <2>1. Ended BY <1>2 DEF Close, Crash
        <2> HIDE DEF Rest
        <2> QED BY <2>1, Reset DEF Ended, LocksGone
    <1>3. CASE DirHandles
        <2>1. UNCHANGED <<lockTable, lockOwners, waiting, tracking, granted>> BY <1>3 DEF DirHandles, lockVars
        <2>2. TableInv' BY <1>1, <2>1, TableFrame
        <2>3. DOMAIN handle = Handles /\ \A h \in Handles : {"pc", "why"} \subseteq DOMAIN handle[h]
            BY <1>1 DEF HandleInv, HandlesShaped
        <2>4. PICK next : handle' = [h \in Handles |->
                   IF handle[h].slot # 0 /\ handle[h].path = Moves THEN [handle[h] EXCEPT !.path = next]
                   ELSE handle[h]]
            BY <1>3 DEF DirHandles
        <2>5. DOMAIN handle' = Handles
              /\ \A h \in Handles : {"pc", "why"} \subseteq DOMAIN handle'[h]
                    /\ handle'[h].pc = handle[h].pc /\ handle'[h].why = handle[h].why
            BY <2>3, <2>4
        <2>6. HandleInv' BY <1>1, <2>1, <2>5 DEF HandleInv, HandlesShaped, Owning, Waiting, Emptied, Answered
        <2> QED BY <2>2, <2>6 DEF LockInv
    <1>4. CASE \/ \E src, dst \in Names, kind \in {"unlink", "rename"} : DirStart(kind, src, dst)
               \/ DirHub \/ DirStates \/ \E n \in Names : Link(n)
               \/ Rival \/ Mount \/ \E e \in recovery : Redrive(e)
        <2>1. UNCHANGED <<handle, lockTable, lockOwners, waiting, tracking, granted>>
            BY <1>4 DEF DirStart, DirHub, DirStates, Link, Rival, Mount, Redrive, lockVars
        <2> QED BY <1>1, <2>1, TableFrame, HandleFrame DEF LockInv
    <1> QED BY <1>2, <1>3, <1>4

LEMMA LockInit == FileInit => LockInv
    <1> SUFFICES ASSUME FileInit PROVE LockInv OBVIOUS
    <1>1. /\ lockTable = <<>> /\ lockOwners = [h \in Handles |-> {}] /\ waiting = [h \in Handles |-> {}]
          /\ tracking = [h \in Handles |-> {}]
          /\ granted = [o \in Owners |-> [b \in ByteSet |-> "none"]] /\ handle = [h \in Handles |-> Rest]
        BY DEF FileInit, LocksInit
    <1>2. lockTable \in Seq(Lock) /\ Range(lockTable) = {} BY <1>1 DEF Range
    <1>3. granted \in [Owners -> [ByteSet -> {"none", "rd", "wr"}]]
          /\ \A o \in Owners, b \in ByteSet : granted[o][b] = "none"
        BY <1>1
    <1>4. /\ waiting \in [Handles -> SUBSET Call] /\ tracking \in [Handles -> SUBSET Mark]
          /\ \A g \in Handles : waiting[g] = {} /\ tracking[g] = {}
        BY <1>1
    <1>5. lockOwners \in [Handles -> SUBSET Owners] /\ \A g \in Handles : lockOwners[g] = {} BY <1>1
    <1> HIDE DEF Cut, Lock, Call, Mark
    <1>6. TableInv BY <1>2, <1>3, <1>4, <1>5
        DEF TableInv, LocksTypeOK, Agree, LockExclusion, Tracked, Solo, Unparked, Greedy, NoLostWakeup
    <1>7. {"pc", "why"} \subseteq DOMAIN Rest /\ Rest.pc = "closed" BY DEF Rest
    <1> HIDE DEF Rest
    <1>8. HandleInv BY <1>1, <1>7 DEF HandleInv, HandlesShaped, Owning, Waiting, Emptied, Answered, Sync
    <1> QED BY <1>6, <1>8 DEF LockInv

LEMMA LockStep == Shut /\ LockInv /\ [Next]_vars => LockInv'
    <1> SUFFICES ASSUME Shut, LockInv, [Next]_vars PROVE LockInv' OBVIOUS
    <1>1. TableInv /\ HandleInv BY DEF LockInv
    <1>2. ASSUME NEW h \in Handles, NEW trunc \in BOOLEAN, Open(h, trunc) \/ Materialize(h) \/ TruncateOpen(h)
          PROVE  LockInv'
        <2>1. UNCHANGED <<lockTable, lockOwners, waiting, tracking, granted>>
            BY <1>2 DEF Open, Materialize, TruncateOpen, lockVars
        <2> QED BY <1>1, <1>2, <2>1, OpenSteps, TableFrame DEF LockInv
    <1>3. ASSUME NEW h \in Handles,
                 \/ \E w \in Writes : Write(h, w[1], w[2])
                 \/ \E n \in Sizes : SetSize(h, n) \/ Allocate(h, n)
                 \/ StageMode(h)
          PROVE  LockInv'
        <2>1. UNCHANGED <<lockTable, lockOwners, waiting, tracking, granted>>
            BY <1>3 DEF Write, SetSize, Allocate, StageMode, Change, lockVars
        <2> QED BY <1>1, <1>3, <2>1, DataSteps, TableFrame DEF LockInv
    <1>4. ASSUME NEW h \in Handles, CommitPlan(h) \/ CommitVerb(h) \/ CommitTrim(h) \/ CommitFinish(h)
          PROVE  LockInv'
        <2>1. UNCHANGED <<lockTable, lockOwners, waiting, tracking, granted>>
            BY <1>4 DEF CommitPlan, CommitVerb, CommitTrim, CommitFinish, lockVars
        <2> QED BY <1>1, <1>4, <2>1, CommitSteps, TableFrame DEF LockInv
    <1>5. ASSUME NEW h \in Handles, CommitStart(h, "flush") \/ (Answered(h) /\ CommitStart(h, "release"))
          PROVE  LockInv'
        <2>1. UNCHANGED <<lockTable, lockOwners, waiting, tracking, granted>> BY <1>5 DEF CommitStart, lockVars
        <2>2. HandleInv' BY <1>1, <1>5, StartStep
        <2> QED BY <1>1, <2>1, <2>2, TableFrame DEF LockInv
    <1>6. ASSUME NEW h \in Handles,
                 Unlock(h) \/ QuarantineStart(h) \/ QuarantineSave(h) \/ Delete(h) \/ Drop(h)
          PROVE  LockInv'
        <2>1. UNCHANGED <<lockTable, lockOwners, waiting, tracking, granted>>
            BY <1>6 DEF Unlock, QuarantineStart, QuarantineSave, Delete, Drop, lockVars
        <2> QED BY <1>1, <1>6, <2>1, CloseSteps, TableFrame DEF LockInv
    <1>7. CASE UNCHANGED vars
        <2>1. UNCHANGED <<handle, lockTable, lockOwners, waiting, tracking, granted>>
            BY <1>7 DEF vars, fileVars, lockVars
        <2> QED BY <1>1, <2>1, TableFrame, HandleFrame DEF LockInv
    <1> QED BY <1>2, <1>3, <1>4, <1>5, <1>6, <1>7, LastCloseStep, LockSteps, MountSteps DEF Next

-----------------------------------------------------------------------------
(* The theorem.                                                            *)

\* Whatever is locked, split, downgraded, released, interrupted and closed, in any order: the
\* table holds exactly what the owners were told, writers exclude each other, a parked call
\* whose lock is free has been woken, and no lock outlives its handles (fuse_lock.go).
THEOREM LocksAlwaysSound ==
    ASSUME Shut PROVE Spec => []LocksSound
    <1>1. FileInit => LockInv BY LockInit
    <1>2. LockInv /\ [Next]_vars => LockInv' BY LockStep
    <1>3. LockInv => LocksSound BY SoundTable DEF LockInv
    <1> QED BY <1>1, <1>2, <1>3, PTL DEF Spec

-----------------------------------------------------------------------------
(* The names.                                                              *)

Fields == {"path", "refs", "closed", "poisoned", "made", "held"}
Places == {"pc", "path", "slot", "cpath", "why", "stamp"}
Shapes ==
    /\ DOMAIN states = Slots /\ \A s \in Slots : Fields \subseteq DOMAIN states[s]
    /\ DOMAIN handle = Handles /\ \A h \in Handles : Places \subseteq DOMAIN handle[h]
    /\ ns \in [Names -> Files \cup {"none"}] /\ stamp \in [Files -> Nat] /\ tracked \subseteq Names
    /\ Files \subseteq DOMAIN stored /\ Files \subseteq DOMAIN mode
    /\ current \in Slots \cup {0}
    /\ {"pc", "kind", "src", "dst", "rest"} \subseteq DOMAIN dir

Filed == {n \in Names : ns[n] = "file"}
\* What the mount tracks is what the file is called, up to the operation in progress.
Named ==
    /\ dir.pc \in {"idle", "hub", "handles", "states"}
    /\ dir.pc = "idle" \/ (mounted /\ dir.kind \in {"unlink", "rename"})
    /\ dir.pc # "idle" => dir.src \in Names
    /\ dir.pc \in {"hub", "handles"} =>
          dir.src \in Names /\ dir.dst \in Names /\ (dir.kind = "rename" => dir.src # dir.dst)
    /\ dir.pc = "hub" /\ dir.kind = "rename" => ns[dir.src] # "none" /\ ns[dir.src] # ns[dir.dst]
    /\ dir.pc = "handles" => ns[dir.src] = "none"
    /\ dir.pc = "states" => dir.rest \in tracked \cup {""}
    /\ mounted => Filed = IF dir.pc # "handles" THEN tracked
                          ELSE IF dir.kind = "rename" /\ dir.src \in tracked THEN (tracked \ {dir.src}) \cup {dir.dst}
                          ELSE tracked \ {Moves}
    /\ ~mounted => current = 0 /\ \A h \in Handles : handle[h].pc = "closed"

\* A handle is alone with the state it makes or saves; the current state counts its handles.
Slotted ==
    /\ \A h \in Handles : handle[h].slot \in Slots \cup {0}
    /\ \A h \in Handles : handle[h].slot = 0 <=> handle[h].pc = "closed"
    /\ \A h \in Handles : handle[h].slot # 0 => handle[h].slot = current \/ states[handle[h].slot].poisoned
    /\ \A g, h \in Handles : g # h /\ handle[h].pc \in {"making", "saving"} => handle[g].slot # handle[h].slot
    /\ \A h \in Handles : handle[h].pc = "making" => ~states[handle[h].slot].made /\ handle[h].why \in {"open", "trunc"}
    /\ \A h \in Handles : handle[h].pc = "saving" => states[handle[h].slot].closed
    /\ current # 0 => states[current].refs = Cardinality({h \in Handles : handle[h].slot = current})

Under ==
    /\ \A h \in Handles : handle[h].slot # 0 => handle[h].path \in tracked \cup {""}
    /\ current # 0 => states[current].path \in tracked \cup {""} \cup (IF dir.pc = "states" THEN {dir.src} ELSE {})

\* A commit holds the current state, and sends to a name of the file or to none.
Sends ==
    /\ \A h \in Handles : handle[h].pc \in Sync => handle[h].slot = current /\ states[current].held = h
    /\ \A h \in Handles : handle[h].pc \in Sync \ {"check"} =>
          /\ handle[h].cpath \in Names /\ ns[handle[h].cpath] # "stranger"
          /\ dir.pc \in {"idle", "hub"} => ns[handle[h].cpath] = "file"

Stamped ==
    /\ \A h \in Handles : handle[h].stamp \in Nat \cup {-1} /\ handle[h].stamp <= stamp["file"]
    /\ \A e \in recovery : e.stamp \in Nat \cup {-1} /\ e.stamp <= stamp["file"]
                           /\ (e.stamp = stamp["file"] => e.over = stored["file"])

PathInv == Shapes /\ Named /\ Slotted /\ Under /\ Sends /\ Stamped

Loosed == {"rename", "materialize", "join", "takeover"} \cap Races = {}

LEMMA Mounts ==
    /\ "" \notin Names /\ "" \notin Handles /\ IsFiniteSet(Handles) /\ 0 \notin Slots
    /\ Files = {"file", "stranger"}
    <1>1. Cardinality(Handles) \in Nat BY FuseAssumption, FS_CardinalityType
    <1>2. 0 \notin 1..(Cardinality(Handles) + 1) BY <1>1
    <1> QED BY FuseAssumption, <1>2 DEF Slots, Files

\* What a slot is to its handles.
Kin(v, w) == Fields \subseteq DOMAIN v /\ \A x \in Fields : v[x] = w[x]

LEMMA Resizing ==
    ASSUME NEW w, Fields \subseteq DOMAIN w, NEW n
    PROVE  Kin(WithSize(w, n), w) /\ Kin(Resized(w, n), w) /\ Kin(Allocated(w, n), w)
    <1>1. \A v : Fields \subseteq DOMAIN v => Kin(WithSize(v, n), v) BY DEF WithSize, Kin, Fields
    <1>2. Kin(Allocated(w, n), w) BY DEF Allocated, Kin, Fields
    <1>3. Kin(Resized(w, n), w)
        <2>1. CASE n = 0
            <3>1. Kin(WithSize(w, 0), w) BY <1>1, <2>1
            <3>2. Resized(w, n) = [WithSize(w, 0) EXCEPT !.auth = TRUE, !.hasSnap = FALSE, !.snap = <<>>]
                BY <2>1 DEF Resized
            <3> QED BY <3>1, <3>2 DEF Kin, Fields
        <2>2. CASE n # 0 /\ n > w.size /\ ~w.auth
            <3>1. Resized(w, n) = [WithSize(w, n) EXCEPT !.dirty = @ \cup Span(w.size, n)] BY <2>2 DEF Resized
            <3> QED BY <1>1, <3>1 DEF Kin, Fields
        <2>3. CASE n # 0 /\ ~(n > w.size /\ ~w.auth)
            <3>1. Resized(w, n) = WithSize(w, n) BY <2>3 DEF Resized
            <3> QED BY <1>1, <3>1
        <2> QED BY <2>1, <2>2, <2>3
    <1> QED BY <1>1, <1>2, <1>3

LEMMA Writing ==
    ASSUME NEW w, Fields \subseteq DOMAIN w, NEW stored0, NEW off, NEW data
    PROVE  Kin(Written(w, stored0, off, data), w)
    <1> DEFINE end == off + Len(data)
               gap == IF off > w.size THEN [WithSize(w, off) EXCEPT !.dirty = @ \cup Span(w.size, off)] ELSE w
               grown == IF end > w.size THEN WithSize(gap, end) ELSE gap
               put == [grown EXCEPT !.temp = WriteAt(@, off, data), !.dirty = @ \cup Span(off, end)]
    <1>1. Written(w, stored0, off, data) = Coalesced(put, stored0) BY DEF Written
    <1>2. Kin(gap, w)
        <2>1. CASE off > w.size
            <3>1. Kin(WithSize(w, off), w) BY Resizing
            <3>2. gap = [WithSize(w, off) EXCEPT !.dirty = @ \cup Span(w.size, off)] BY <2>1
            <3> HIDE DEF gap
            <3> QED BY <3>1, <3>2 DEF Kin, Fields
        <2>2. CASE ~(off > w.size)
            <3>1. gap = w BY <2>2
            <3> QED BY <3>1 DEF Kin
        <2> QED BY <2>1, <2>2
    <1> HIDE DEF gap
    <1>3. Kin(grown, w)
        <2>1. Fields \subseteq DOMAIN gap BY <1>2 DEF Kin
        <2>2. Kin(WithSize(gap, end), gap) BY <2>1, Resizing
        <2> QED BY <1>2, <2>2 DEF Kin
    <1> HIDE DEF grown, end
    <1>4. Kin(put, w) BY <1>3 DEF Kin, Fields
    <1> HIDE DEF put
    <1>5. Kin(Coalesced(put, stored0), put)
        <2>1. CASE Coalesced(put, stored0) = put BY <1>4, <2>1 DEF Kin
        <2>2. CASE Coalesced(put, stored0) # put
            <3>1. \E x, y : Coalesced(put, stored0) = [put EXCEPT !.dirty = x, !.auth = TRUE, !.temp = y]
                BY <2>2 DEF Coalesced
            <3>2. PICK x, y : Coalesced(put, stored0) = [put EXCEPT !.dirty = x, !.auth = TRUE, !.temp = y]
                BY <3>1
            <3> QED BY <1>4, <3>2 DEF Kin, Fields
        <2> QED BY <2>1, <2>2
    <1> QED BY <1>1, <1>4, <1>5 DEF Kin

LEMMA Settling ==
    ASSUME NEW w, Fields \subseteq DOMAIN w, NEW v, NEW landed \in BOOLEAN
    PROVE  /\ Fields \subseteq DOMAIN Settled(w, v, landed) /\ Settled(w, v, landed).held = ""
           /\ \A x \in Fields \ {"held"} : Settled(w, v, landed)[x] = w[x]
    <1>1. Kin(Refreshed(w, v), w) BY DEF Refreshed, Kin, Fields
    <1> DEFINE done == IF v.kind \in {"truncate", "none"} /\ ~landed THEN w ELSE Refreshed(w, v)
    <1>2. Kin(done, w) BY <1>1 DEF Kin
    <1>3. Settled(w, v, landed) = [done EXCEPT !.held = "", !.pending = IF landed THEN 0 ELSE @] BY DEF Settled
    <1> HIDE DEF done
    <1> QED BY <1>2, <1>3 DEF Kin, Fields

(* A step of h that stays on its slot: what it does to the slot, to h, and *)
(* to the project.                                                         *)
SlotKept(h) ==
    /\ DOMAIN states' = Slots /\ \A s \in Slots \ {handle[h].slot} : states'[s] = states[s]
    /\ LET w == states'[handle[h].slot]
       IN  /\ Fields \subseteq DOMAIN w /\ w.path = State(h).path /\ w.refs = State(h).refs
           /\ (State(h).poisoned => w.poisoned) /\ (State(h).closed => w.closed)
           /\ w.held = State(h).held \/ State(h).held \in {"", h}
HandleKept(h) ==
    /\ DOMAIN handle' = Handles /\ \A g \in Handles \ {h} : handle'[g] = handle[g]
    /\ LET p == handle'[h]
       IN  /\ Places \subseteq DOMAIN p /\ p.slot = handle[h].slot /\ p.path = handle[h].path
           /\ p.pc \notin {"closed", "making"} /\ p.stamp \in Nat \cup {-1} /\ p.stamp <= stamp["file"]
           /\ p.pc = "saving" => /\ states'[handle[h].slot].closed
                                 /\ \A g \in Handles \ {h} : handle[g].slot # handle[h].slot
           /\ p.pc \in Sync => handle[h].slot = current /\ states'[current].held = h
           /\ p.pc \in Sync \ {"check"} =>
                 /\ p.cpath \in Names /\ ns[p.cpath] # "stranger"
                 /\ dir.pc \in {"idle", "hub"} => ns[p.cpath] = "file"
StoreKept ==
    /\ stamp' \in [Files -> Nat] /\ Files \subseteq DOMAIN stored' /\ Files \subseteq DOMAIN mode'
    /\ \/ stamp'["file"] = stamp["file"] /\ stored'["file"] = stored["file"]
       \/ stamp'["file"] > stamp["file"]
Works(h) == SlotKept(h) /\ HandleKept(h) /\ StoreKept /\ UNCHANGED <<ns, current, dir, tracked, mounted, recovery>>

LEMMA Later == \A x, a, b \in Int : x <= a /\ a <= b => x <= b
    OBVIOUS

LEMMA StampedKept ==
    ASSUME Shapes, Stamped, StoreKept, recovery' \subseteq recovery,
           \A g \in Handles : handle'[g].stamp \in Nat \cup {-1} /\ handle'[g].stamp <= stamp["file"]
    PROVE  Stamped'
    <1>1. stamp["file"] \in Nat /\ stamp'["file"] \in Nat
        <2>1. "file" \in Files BY Mounts
        <2>2. stamp \in [Files -> Nat] /\ stamp' \in [Files -> Nat] BY DEF Shapes, StoreKept
        <2> QED BY <2>1, <2>2
    <1>2. \/ stamp'["file"] = stamp["file"] /\ stored'["file"] = stored["file"]
          \/ stamp'["file"] > stamp["file"]
        BY DEF StoreKept
    <1>3. stamp["file"] <= stamp'["file"] BY <1>1, <1>2
    <1>4. ASSUME NEW g \in Handles PROVE handle'[g].stamp \in Nat \cup {-1} /\ handle'[g].stamp <= stamp'["file"]
        <2>1. handle'[g].stamp \in Nat \cup {-1} /\ handle'[g].stamp <= stamp["file"] OBVIOUS
        <2> QED BY <1>1, <1>3, <2>1, Later
    <1>5. ASSUME NEW e \in recovery'
          PROVE  /\ e.stamp \in Nat \cup {-1} /\ e.stamp <= stamp'["file"]
                 /\ e.stamp = stamp'["file"] => e.over = stored'["file"]
        <2>1. /\ e.stamp \in Nat \cup {-1} /\ e.stamp <= stamp["file"]
              /\ e.stamp = stamp["file"] => e.over = stored["file"]
            BY DEF Stamped
        <2>2. e.stamp <= stamp'["file"] BY <1>1, <1>3, <2>1, Later
        <2>3. e.stamp = stamp'["file"] => e.over = stored'["file"]
            <3> DEFINE x == e.stamp
                       a == stamp["file"]
                       b == stamp'["file"]
            <3>1. x \in Int /\ a \in Int /\ b \in Int /\ x <= a BY <1>1, <2>1
            <3>2. b > a => x # b
                <4> HIDE DEF x, a, b
                <4> QED BY <3>1
            <3> QED BY <1>2, <2>1, <3>2
        <2> QED BY <2>1, <2>2, <2>3
    <1> QED BY <1>4, <1>5 DEF Stamped

LEMMA NamedKept ==
    ASSUME Named, mounted, UNCHANGED <<ns, dir, tracked, mounted>>
    PROVE  Named'
    <1>1. Filed' = Filed /\ Moves' = Moves BY DEF Filed, Moves
    <1> HIDE DEF Filed, Moves
    <1> QED BY <1>1 DEF Named

LEMMA Working ==
    ASSUME PathInv, NEW h \in Handles, handle[h].pc # "closed", Works(h)
    PROVE  PathInv'
    <1> DEFINE k == handle[h].slot
               w == states'[k]
               p == handle'[h]
    <1>0. Shapes /\ Named /\ Slotted /\ Under /\ Sends /\ Stamped BY DEF PathInv
    <1>a. UNCHANGED <<ns, current, dir, tracked, mounted, recovery>> BY DEF Works
    <1>b. /\ DOMAIN states' = Slots /\ \A s \in Slots \ {k} : states'[s] = states[s]
          /\ Fields \subseteq DOMAIN w /\ w.path = State(h).path /\ w.refs = State(h).refs
          /\ (State(h).poisoned => w.poisoned) /\ (State(h).closed => w.closed)
          /\ w.held = State(h).held \/ State(h).held \in {"", h}
        BY DEF Works, SlotKept
    <1>c. /\ DOMAIN handle' = Handles /\ \A g \in Handles \ {h} : handle'[g] = handle[g]
          /\ Places \subseteq DOMAIN p /\ p.slot = k /\ p.path = handle[h].path
          /\ p.pc # "closed" /\ p.pc # "making" /\ p.stamp \in Nat \cup {-1} /\ p.stamp <= stamp["file"]
        BY DEF Works, HandleKept
    <1>d. p.pc = "saving" => w.closed /\ \A g \in Handles \ {h} : handle[g].slot # k
        BY DEF Works, HandleKept
    <1>e. /\ p.pc \in Sync => k = current /\ states'[current].held = h
          /\ p.pc \in Sync \ {"check"} =>
                 /\ p.cpath \in Names /\ ns[p.cpath] # "stranger"
                 /\ dir.pc \in {"idle", "hub"} => ns[p.cpath] = "file"
        BY DEF Works, HandleKept
    <1>f. StoreKept BY DEF Works
    <1>g. State(h) = states[k] BY DEF State
    <1>S. /\ \A g \in Handles : handle[g].slot \in Slots \cup {0}
          /\ \A g \in Handles : handle[g].slot = 0 <=> handle[g].pc = "closed"
          /\ \A g \in Handles : handle[g].slot # 0 => handle[g].slot = current \/ states[handle[g].slot].poisoned
          /\ \A g \in Handles : handle[g].pc = "making" =>
                ~states[handle[g].slot].made /\ handle[g].why \in {"open", "trunc"}
          /\ \A g \in Handles : handle[g].pc = "saving" => states[handle[g].slot].closed
        BY <1>0 DEF Slotted
    <1>T. \A g, f \in Handles : g # f /\ handle[f].pc \in {"making", "saving"} => handle[g].slot # handle[f].slot
        BY <1>0 DEF Slotted
    <1>k. k \in Slots /\ k # 0 BY <1>S
    <1> HIDE DEF k, w, p
    <1>1. Shapes'
        <2>1. Shapes' <=>
                /\ \A s \in Slots : Fields \subseteq DOMAIN states'[s]
                /\ \A g \in Handles : Places \subseteq DOMAIN handle'[g]
            BY <1>0, <1>a, <1>b, <1>c, <1>f DEF Shapes, StoreKept
        <2>2. \A s \in Slots : Fields \subseteq DOMAIN states'[s]
            BY <1>0, <1>b DEF Shapes, w
        <2>3. \A g \in Handles : Places \subseteq DOMAIN handle'[g]
            BY <1>0, <1>c DEF Shapes, p
        <2> QED BY <2>1, <2>2, <2>3
    <1>2. Named'
        <2>1. mounted BY <1>0 DEF Named
        <2> QED BY <1>0, <1>a, <2>1, NamedKept
    <1>3. \A g \in Handles : handle'[g].slot = handle[g].slot /\ handle'[g].path = handle[g].path
        BY <1>c DEF p, k
    <1>4. \A s \in Slots : /\ Fields \subseteq DOMAIN states'[s] /\ states'[s].path = states[s].path
                           /\ states'[s].refs = states[s].refs /\ (states[s].poisoned => states'[s].poisoned)
                           /\ (states[s].closed => states'[s].closed)
        <2> SUFFICES ASSUME NEW s \in Slots
                     PROVE  /\ Fields \subseteq DOMAIN states'[s] /\ states'[s].path = states[s].path
                            /\ states'[s].refs = states[s].refs /\ (states[s].poisoned => states'[s].poisoned)
                            /\ (states[s].closed => states'[s].closed)
            OBVIOUS
        <2>1. CASE s = k BY <1>b, <1>g, <2>1 DEF w
        <2>2. CASE s # k
            <3>1. states'[s] = states[s] BY <1>b, <2>2
            <3> QED BY <1>0, <3>1 DEF Shapes
        <2> QED BY <2>1, <2>2
    <1>5. Slotted'
        <2>1. \A g \in Handles : handle'[g].slot \in Slots \cup {0} BY <1>S, <1>3
        <2>2. ASSUME NEW g \in Handles PROVE handle'[g].slot = 0 <=> handle'[g].pc = "closed"
            <3>1. CASE g = h
                <4>1. handle'[g].slot = k /\ handle'[g].pc # "closed" BY <1>c, <3>1 DEF p
                <4> QED BY <1>k, <4>1
            <3>2. CASE g # h
                <4>1. handle'[g] = handle[g] BY <1>c, <3>2
                <4> QED BY <1>S, <4>1
            <3> QED BY <3>1, <3>2
        <2>3. ASSUME NEW g \in Handles, handle'[g].slot # 0
              PROVE  handle'[g].slot = current' \/ states'[handle'[g].slot].poisoned
            <3>1. handle[g].slot # 0 /\ handle[g].slot \in Slots BY <1>S, <1>3, <2>3
            <3>2. handle[g].slot = current \/ states[handle[g].slot].poisoned BY <1>S, <3>1
            <3> QED BY <1>3, <1>4, <1>a, <3>1, <3>2
        <2>4. ASSUME NEW g \in Handles, NEW f \in Handles, g # f, handle'[f].pc \in {"making", "saving"}
              PROVE  handle'[g].slot # handle'[f].slot
            <3>1. CASE f = h
                <4>1. p.pc = "saving" BY <1>c, <2>4, <3>1 DEF p
                <4>2. handle[g].slot # k BY <1>d, <2>4, <3>1, <4>1
                <4> QED BY <1>3, <3>1, <4>2 DEF k
            <3>2. CASE f # h
                <4>1. handle[f].pc \in {"making", "saving"} BY <1>c, <2>4, <3>2
                <4> QED BY <1>T, <1>3, <2>4, <4>1
            <3> QED BY <3>1, <3>2
        <2>5. ASSUME NEW f \in Handles, handle'[f].pc = "making" 
              PROVE  ~states'[handle'[f].slot].made /\ handle'[f].why \in {"open", "trunc"}
            <3>1. f # h BY <1>c, <2>5 DEF p
            <3>2. handle'[f] = handle[f] BY <1>c, <3>1
            <3>3. handle[f].slot # k BY <1>T, <2>5, <3>1, <3>2 DEF k
            <3>4. handle[f].slot \in Slots BY <1>S, <2>5, <3>2
            <3>5. states'[handle[f].slot] = states[handle[f].slot] BY <1>b, <3>3, <3>4
            <3>6. ~states[handle[f].slot].made /\ handle[f].why \in {"open", "trunc"} BY <1>S, <2>5, <3>2
            <3> QED BY <3>2, <3>5, <3>6
        <2>6. ASSUME NEW f \in Handles, handle'[f].pc = "saving" PROVE states'[handle'[f].slot].closed
            <3>1. CASE f = h BY <1>c, <1>d, <2>6, <3>1 DEF p, w
            <3>2. CASE f # h
                <4>1. handle'[f] = handle[f] BY <1>c, <3>2
                <4>2. handle[f].slot \in Slots /\ states[handle[f].slot].closed BY <1>S, <2>6, <4>1
                <4> QED BY <1>4, <4>1, <4>2
            <3> QED BY <3>1, <3>2
        <2>7. current' # 0 => states'[current'].refs = Cardinality({g \in Handles : handle'[g].slot = current'})
            <3>1. {g \in Handles : handle'[g].slot = current'} = {g \in Handles : handle[g].slot = current}
                BY <1>3, <1>a
            <3>2. current # 0 => current \in Slots BY <1>0 DEF Shapes
            <3>3. current # 0 => states[current].refs = Cardinality({g \in Handles : handle[g].slot = current})
                BY <1>0 DEF Slotted
            <3> QED BY <1>4, <1>a, <3>1, <3>2, <3>3
        <2> QED BY <2>1, <2>2, <2>3, <2>4, <2>5, <2>6, <2>7 DEF Slotted
    <1>6. Under'
        <2>1. current # 0 => current \in Slots BY <1>0 DEF Shapes
        <2> QED BY <1>0, <1>3, <1>4, <1>a, <2>1 DEF Under
    <1>7. Sends'
        <2>1. ASSUME NEW g \in Handles, handle'[g].pc \in Sync
              PROVE  handle'[g].slot = current' /\ states'[current'].held = g
            <3>1. CASE g = h BY <1>a, <1>c, <1>e, <2>1, <3>1 DEF p
            <3>2. CASE g # h
                <4>0. handle'[g] = handle[g] BY <1>c, <3>2
                <4>1. handle[g].pc \in Sync BY <2>1, <4>0
                <4>2. handle[g].slot = current /\ states[current].held = g BY <1>0, <4>1 DEF Sends
                <4>3. current \in Slots
                    <5>1. handle[g].pc # "closed" BY <4>1 DEF Sync
                    <5> QED BY <1>S, <4>2, <5>1
                <4>4. CASE current = k
                    <5>1. State(h).held = g /\ g \notin {"", h} BY <1>g, <3>2, <4>2, <4>4, Mounts
                    <5>2. w.held = g BY <1>b, <5>1
                    <5> QED BY <1>a, <4>0, <4>2, <4>4, <5>2 DEF w
                <4>5. CASE current # k
                    <5>1. states'[current] = states[current] BY <1>b, <4>3, <4>5
                    <5> QED BY <1>a, <4>0, <4>2, <5>1
                <4> QED BY <4>4, <4>5
            <3> QED BY <3>1, <3>2
        <2>2. ASSUME NEW g \in Handles, handle'[g].pc \in Sync \ {"check"}
              PROVE  /\ handle'[g].cpath \in Names /\ ns'[handle'[g].cpath] # "stranger"
                     /\ dir'.pc \in {"idle", "hub"} => ns'[handle'[g].cpath] = "file"
            <3>1. CASE g = h BY <1>a, <1>e, <2>2, <3>1 DEF p
            <3>2. CASE g # h
                <4>1. handle'[g] = handle[g] BY <1>c, <3>2
                <4> QED BY <1>0, <1>a, <2>2, <4>1 DEF Sends
            <3> QED BY <3>1, <3>2
        <2> QED BY <2>1, <2>2 DEF Sends
    <1>8. Stamped'
        <2>1. ASSUME NEW g \in Handles PROVE handle'[g].stamp \in Nat \cup {-1} /\ handle'[g].stamp <= stamp["file"]
            <3>1. CASE g = h BY <1>c, <3>1 DEF p
            <3>2. CASE g # h
                <4>1. handle'[g] = handle[g] BY <1>c, <3>2
                <4> QED BY <1>0, <4>1 DEF Stamped
            <3> QED BY <3>1, <3>2
        <2> QED BY <1>0, <1>a, <1>f, <2>1, StampedKept
    <1> QED BY <1>1, <1>2, <1>5, <1>6, <1>7, <1>8 DEF PathInv

LEMMA Roles ==
    \A h \in Handles : PathInv =>
        /\ DOMAIN states = Slots /\ DOMAIN handle = Handles /\ Places \subseteq DOMAIN handle[h]
        /\ handle[h].stamp \in Nat \cup {-1} /\ handle[h].stamp <= stamp["file"]
        /\ handle[h].pc # "closed" => handle[h].slot \in Slots /\ Fields \subseteq DOMAIN State(h) /\ mounted
        /\ handle[h].pc # "closed" /\ ~State(h).poisoned => handle[h].slot = current
        /\ handle[h].pc \in Sync => handle[h].slot = current /\ State(h).held = h
        /\ UNCHANGED storeVars => StoreKept
    <1> SUFFICES ASSUME NEW h \in Handles, PathInv
                 PROVE  /\ DOMAIN states = Slots /\ DOMAIN handle = Handles /\ Places \subseteq DOMAIN handle[h]
                        /\ handle[h].stamp \in Nat \cup {-1} /\ handle[h].stamp <= stamp["file"]
                        /\ handle[h].pc # "closed" =>
                              handle[h].slot \in Slots /\ Fields \subseteq DOMAIN State(h) /\ mounted
                        /\ handle[h].pc # "closed" /\ ~State(h).poisoned => handle[h].slot = current
                        /\ handle[h].pc \in Sync => handle[h].slot = current /\ State(h).held = h
                        /\ UNCHANGED storeVars => StoreKept
        OBVIOUS
    <1>1. Shapes /\ Named /\ Slotted /\ Sends /\ Stamped BY DEF PathInv
    <1>2. DOMAIN states = Slots /\ DOMAIN handle = Handles /\ Places \subseteq DOMAIN handle[h]
        BY <1>1 DEF Shapes
    <1>3. handle[h].stamp \in Nat \cup {-1} /\ handle[h].stamp <= stamp["file"] BY <1>1 DEF Stamped
    <1>4. handle[h].pc # "closed" =>
             handle[h].slot \in Slots /\ (handle[h].slot = current \/ states[handle[h].slot].poisoned)
        BY <1>1, Mounts DEF Slotted
    <1>5. handle[h].pc # "closed" => Fields \subseteq DOMAIN State(h) BY <1>1, <1>4 DEF Shapes, State
    <1>6. handle[h].pc # "closed" => mounted BY <1>1 DEF Named
    <1>7. handle[h].pc \in Sync => handle[h].slot = current /\ State(h).held = h BY <1>1 DEF Sends, State
    <1>8. UNCHANGED storeVars => StoreKept BY <1>1 DEF storeVars, StoreKept, Shapes
    <1> QED BY <1>2, <1>3, <1>4, <1>5, <1>6, <1>7, <1>8 DEF State

\* A step of h that changes its position only.
Halts == {"open", "trunc", "unlock", "failed", "drop", "locks", "ref"}
LEMMA Halting ==
    ASSUME PathInv, NEW h \in Handles, handle[h].pc # "closed", SlotKept(h), StoreKept,
           DOMAIN handle' = Handles, \A g \in Handles \ {h} : handle'[g] = handle[g],
           Places \subseteq DOMAIN handle'[h], \A x \in {"slot", "path", "stamp"} : handle'[h][x] = handle[h][x],
           handle'[h].pc \in Halts,
           UNCHANGED <<ns, current, dir, tracked, mounted, recovery>>
    PROVE  PathInv'
    <1>1. HandleKept(h)
        <2>1. handle'[h].stamp \in Nat \cup {-1} /\ handle'[h].stamp <= stamp["file"] BY Roles
        <2>2. handle'[h].pc \notin {"closed", "making", "saving"} \cup Sync BY DEF Halts, Sync
        <2>3. handle'[h].slot = handle[h].slot /\ handle'[h].path = handle[h].path OBVIOUS
        <2> HIDE DEF Halts, Sync
        <2> QED BY <2>1, <2>2, <2>3 DEF HandleKept
    <1> QED BY <1>1, Working DEF Works

LEMMA SlotKin ==
    ASSUME PathInv, NEW h \in Handles, handle[h].pc # "closed", NEW w, Fields \subseteq DOMAIN w,
           w.path = State(h).path, w.refs = State(h).refs,
           State(h).poisoned => w.poisoned, State(h).closed => w.closed,
           w.held = State(h).held \/ State(h).held \in {"", h},
           states' = [states EXCEPT ![handle[h].slot] = w]
    PROVE  SlotKept(h) /\ states'[handle[h].slot] = w
    <1>1. DOMAIN states = Slots /\ handle[h].slot \in Slots BY Roles
    <1>2. states'[handle[h].slot] = w /\ DOMAIN states' = Slots
          /\ \A s \in Slots \ {handle[h].slot} : states'[s] = states[s]
        BY <1>1
    <1> QED BY <1>2 DEF SlotKept

LEMMA SlotStill ==
    ASSUME PathInv, NEW h \in Handles, handle[h].pc # "closed", states' = states
    PROVE  SlotKept(h)
    BY Roles DEF SlotKept, State

LEMMA Changing ==
    ASSUME PathInv, NEW h \in Handles, NEW w, NEW wish, handle[h].pc = "open", Change(h, w, wish), Kin(w, State(h))
    PROVE  PathInv'
    <1>1. Fields \subseteq DOMAIN State(h) /\ DOMAIN handle = Handles /\ Places \subseteq DOMAIN handle[h]
        BY Roles
    <1>2. states' = [states EXCEPT ![handle[h].slot] = w] BY DEF Change
    <1>3. SlotKept(h) BY <1>2, SlotKin DEF Kin, Fields
    <1>4. StoreKept BY Roles DEF Change
    <1>5. handle' = handle /\ UNCHANGED <<ns, current, dir, tracked, mounted, recovery>> BY DEF Change, storeVars
    <1> QED BY <1>1, <1>3, <1>4, <1>5, Halting DEF Halts

LEMMA DataPath ==
    ASSUME PathInv, NEW h \in Handles,
           \/ \E x \in Writes : Write(h, x[1], x[2])
           \/ \E n \in Sizes : SetSize(h, n) \/ Allocate(h, n)
           \/ StageMode(h)
    PROVE  PathInv'
    <1>0. handle[h].pc = "open" /\ Fields \subseteq DOMAIN State(h)
        <2>1. handle[h].pc = "open" BY DEF Write, SetSize, Allocate, StageMode, Serving
        <2> QED BY <2>1, Roles
    <1>1. ASSUME NEW x \in Writes, Write(h, x[1], x[2]) PROVE PathInv'
        <2>1. \E w, wish : Change(h, w, wish) /\ Kin(w, State(h))
            <3>1. \A stored0, off, data : Kin(Written(State(h), stored0, off, data), State(h)) BY <1>0, Writing
            <3> QED BY <1>1, <3>1 DEF Write
        <2> QED BY <1>0, <2>1, Changing
    <1>2. ASSUME NEW n \in Sizes, SetSize(h, n) PROVE PathInv'
        <2>1. Kin(Resized(State(h), n), State(h)) BY <1>0, Resizing
        <2>2. \E wish : Change(h, Resized(State(h), n), wish) BY <1>2 DEF SetSize
        <2> QED BY <1>0, <2>1, <2>2, Changing
    <1>3. ASSUME NEW n \in Sizes, Allocate(h, n) PROVE PathInv'
        <2>1. Kin(Allocated(State(h), n), State(h)) BY <1>0, Resizing
        <2>2. \E wish : Change(h, Allocated(State(h), n), wish) BY <1>3 DEF Allocate
        <2> QED BY <1>0, <2>1, <2>2, Changing
    <1>4. ASSUME StageMode(h) PROVE PathInv'
        <2> DEFINE w == [State(h) EXCEPT !.pending = left.data]
        <2>1. Kin(w, State(h)) BY <1>0 DEF Kin, Fields
        <2>2. \E wish : Change(h, w, wish) BY <1>4 DEF StageMode
        <2> HIDE DEF w
        <2> QED BY <1>0, <2>1, <2>2, Changing
    <1> QED BY <1>1, <1>2, <1>3, <1>4

LEMMA TruncatePath ==
    ASSUME PathInv, NEW h \in Handles, TruncateOpen(h)
    PROVE  PathInv'
    <1>0. handle[h].pc = "trunc" /\ Fields \subseteq DOMAIN State(h) /\ DOMAIN handle = Handles
          /\ Places \subseteq DOMAIN handle[h] /\ DOMAIN states = Slots /\ handle[h].slot \in Slots
        BY Roles DEF TruncateOpen
    <1> DEFINE w == IF State(h).poisoned THEN State(h) ELSE Resized(State(h), 0)
    <1>1. states' = [states EXCEPT ![handle[h].slot] = w] BY <1>0 DEF TruncateOpen, State
    <1>2. Kin(w, State(h))
        <2>1. Kin(Resized(State(h), 0), State(h)) BY <1>0, Resizing
        <2>2. Kin(State(h), State(h)) BY <1>0 DEF Kin
        <2> QED BY <2>1, <2>2
    <1> HIDE DEF w
    <1>3. SlotKept(h) BY <1>0, <1>1, <1>2, SlotKin DEF Kin, Fields
    <1>4. StoreKept BY Roles DEF TruncateOpen
    <1>5. handle' = [handle EXCEPT ![h].pc = "open"] /\ UNCHANGED <<ns, current, dir, tracked, mounted, recovery>>
        BY DEF TruncateOpen, storeVars
    <1>6. /\ DOMAIN handle' = Handles /\ \A g \in Handles \ {h} : handle'[g] = handle[g]
          /\ Places \subseteq DOMAIN handle'[h] /\ \A x \in {"slot", "path", "stamp"} : handle'[h][x] = handle[h][x]
          /\ handle'[h].pc = "open"
        BY <1>0, <1>5 DEF Places
    <1> QED BY <1>0, <1>3, <1>4, <1>5, <1>6, Halting DEF Halts

-----------------------------------------------------------------------------
(* Commit and close.                                                       *)

Fits(h) ==
    /\ DOMAIN handle' = Handles /\ \A g \in Handles \ {h} : handle'[g] = handle[g]
    /\ Places \subseteq DOMAIN handle'[h] /\ \A x \in {"slot", "path", "stamp"} : handle'[h][x] = handle[h][x]

\* How a position is updated.
LEMMA Moved1 ==
    ASSUME PathInv, NEW h \in Handles, NEW q,
           handle' = [handle EXCEPT ![h].pc = q]
    PROVE  Fits(h) /\ handle'[h].pc = q /\ handle'[h].cpath = handle[h].cpath
    <1>0. DOMAIN handle = Handles /\ Places \subseteq DOMAIN handle[h] BY Roles
    <1>1. handle'[h] = [handle[h] EXCEPT !.pc = q] BY <1>0
    <1>2. DOMAIN handle' = Handles /\ \A g \in Handles \ {h} : handle'[g] = handle[g] BY <1>0
    <1> QED BY <1>0, <1>1, <1>2 DEF Places, Fits

LEMMA Moved2 ==
    ASSUME PathInv, NEW h \in Handles, NEW q, NEW z,
           handle' = [handle EXCEPT ![h].pc = q, ![h].failed = z]
    PROVE  Fits(h) /\ handle'[h].pc = q /\ handle'[h].cpath = handle[h].cpath
    <1>0. DOMAIN handle = Handles /\ Places \subseteq DOMAIN handle[h] BY Roles
    <1>1. handle'[h] = [handle[h] EXCEPT !.pc = q, !.failed = z] BY <1>0
    <1>2. DOMAIN handle' = Handles /\ \A g \in Handles \ {h} : handle'[g] = handle[g] BY <1>0
    <1> QED BY <1>0, <1>1, <1>2 DEF Places, Fits

LEMMA Moved3 ==
    ASSUME PathInv, NEW h \in Handles, NEW q, NEW v, NEW x,
           handle' = [handle EXCEPT ![h].pc = q, ![h].verb = v, ![h].cpend = x]
    PROVE  Fits(h) /\ handle'[h].pc = q /\ handle'[h].cpath = handle[h].cpath
    <1>0. DOMAIN handle = Handles /\ Places \subseteq DOMAIN handle[h] BY Roles
    <1>1. handle'[h] = [handle[h] EXCEPT !.pc = q, !.verb = v, !.cpend = x] BY <1>0
    <1>2. DOMAIN handle' = Handles /\ \A g \in Handles \ {h} : handle'[g] = handle[g] BY <1>0
    <1> QED BY <1>0, <1>1, <1>2 DEF Places, Fits

LEMMA GivenUp ==
    ASSUME PathInv, NEW h \in Handles, NEW z, handle' = Return(h, z)
    PROVE  Fits(h) /\ handle'[h].pc \in {"unlock", "open"}
    <1>0. DOMAIN handle = Handles /\ Places \subseteq DOMAIN handle[h] BY Roles
    <1> DEFINE q == IF handle[h].why = "release" THEN "unlock" ELSE "open"
    <1>1. q \in {"unlock", "open"} OBVIOUS
    <1>2. handle'[h] = [handle[h] EXCEPT !.pc = q, !.why = "", !.failed = z, !.verb = NoVerb, !.cpath = "", !.cpend = 0]
        BY <1>0 DEF Return
    <1>3. DOMAIN handle' = Handles /\ \A g \in Handles \ {h} : handle'[g] = handle[g] BY <1>0 DEF Return
    <1> HIDE DEF q
    <1>4. Places \subseteq DOMAIN handle'[h] /\ handle'[h].pc = q
          /\ \A y \in {"slot", "path", "stamp"} : handle'[h][y] = handle[h][y]
        BY <1>0, <1>2 DEF Places
    <1> QED BY <1>1, <1>3, <1>4 DEF Fits

LEMMA Posting ==
    ASSUME PathInv, NEW h \in Handles, Fits(h), handle'[h].pc \in Sync,
           handle[h].pc # "closed", SlotKept(h), StoreKept,
           handle[h].slot = current, states'[current].held = h,
           handle'[h].pc # "check" =>
                 /\ handle'[h].cpath \in Names /\ ns[handle'[h].cpath] # "stranger"
                 /\ dir.pc \in {"idle", "hub"} => ns[handle'[h].cpath] = "file",
           UNCHANGED <<ns, current, dir, tracked, mounted, recovery>>
    PROVE  PathInv'
    <1>1. handle'[h].slot = handle[h].slot /\ handle'[h].path = handle[h].path /\ handle'[h].stamp = handle[h].stamp
        BY DEF Fits
    <1>2. handle'[h].stamp \in Nat \cup {-1} /\ handle'[h].stamp <= stamp["file"] BY <1>1, Roles
    <1>3. handle'[h].pc \notin {"closed", "making", "saving"} BY DEF Sync
    <1>4. HandleKept(h) BY <1>1, <1>2, <1>3 DEF HandleKept, Fits
    <1> QED BY <1>4, Working DEF Works

LEMMA Halted ==
    ASSUME PathInv, NEW h \in Handles, Fits(h), handle'[h].pc \in Halts,
           handle[h].pc # "closed", SlotKept(h), StoreKept,
           UNCHANGED <<ns, current, dir, tracked, mounted, recovery>>
    PROVE  PathInv'
    BY Halting DEF Fits

\* A commit that gives up lets the state go.
LEMMA Returning ==
    ASSUME PathInv, NEW h \in Handles, handle[h].pc \in Sync, NEW z, handle' = Return(h, z), StoreKept,
           NEW w, states' = [states EXCEPT ![handle[h].slot] = w],
           Fields \subseteq DOMAIN w, w.held = "", \A x \in Fields \ {"held"} : w[x] = State(h)[x],
           UNCHANGED <<ns, current, dir, tracked, mounted, recovery>>
    PROVE  PathInv'
    <1>1. handle[h].pc # "closed" BY DEF Sync
    <1>2. State(h).held = h BY Roles
    <1>3. SlotKept(h)
        <2>1. w.path = State(h).path /\ w.refs = State(h).refs /\ w.poisoned = State(h).poisoned
              /\ w.closed = State(h).closed
            BY DEF Fields
        <2> QED BY <1>1, <1>2, <2>1, SlotKin
    <1>4. Fits(h) /\ handle'[h].pc \in {"unlock", "open"} BY GivenUp
    <1>5. handle'[h].pc \in Halts BY <1>4 DEF Halts
    <1> QED BY <1>1, <1>3, <1>4, <1>5, Halted

LEMMA StartPath ==
    ASSUME PathInv, NEW h \in Handles, NEW why, CommitStart(h, why)
    PROVE  PathInv'
    <1>0. /\ handle[h].pc = "open" /\ State(h).held = "" /\ DOMAIN handle = Handles /\ Places \subseteq DOMAIN handle[h]
          /\ Fields \subseteq DOMAIN State(h) /\ StoreKept /\ DOMAIN states = Slots /\ handle[h].slot \in Slots
        BY Roles DEF CommitStart
    <1>1. UNCHANGED <<ns, current, dir, tracked, mounted, recovery>> BY DEF CommitStart, storeVars
    <1>2. ASSUME NEW z, handle' = [handle EXCEPT ![h].pc = "unlock", ![h].failed = z], states' = states
          PROVE  PathInv'
        <2>1. Fits(h) /\ handle'[h].pc = "unlock" BY <1>2, Moved2
        <2>2. handle'[h].pc \in Halts BY <2>1 DEF Halts
        <2>3. SlotKept(h) BY <1>0, <1>2, SlotStill
        <2> QED BY <1>0, <1>1, <2>1, <2>2, <2>3, Halted
    <1>3. ASSUME ~State(h).poisoned, states' = [states EXCEPT ![handle[h].slot].held = h],
                 handle' = [handle EXCEPT ![h].pc = "check", ![h].why = why, ![h].failed = FALSE,
                                          ![h].cpath = handle[h].path]
          PROVE  PathInv'
        <2>1. handle[h].slot = current BY <1>0, <1>3, Roles
        <2> DEFINE w == [State(h) EXCEPT !.held = h]
                   p == [handle[h] EXCEPT !.pc = "check", !.why = why, !.failed = FALSE, !.cpath = handle[h].path]
        <2>2. states' = [states EXCEPT ![handle[h].slot] = w] BY <1>0, <1>3 DEF State
        <2>3. Fields \subseteq DOMAIN w /\ w.held = h /\ \A x \in Fields \ {"held"} : w[x] = State(h)[x]
            BY <1>0 DEF Fields
        <2> HIDE DEF w
        <2>4. w.path = State(h).path /\ w.refs = State(h).refs /\ w.poisoned = State(h).poisoned
              /\ w.closed = State(h).closed
            BY <2>3 DEF Fields
        <2>5. SlotKept(h) /\ states'[handle[h].slot] = w BY <1>0, <2>2, <2>3, <2>4, SlotKin
        <2>6. handle'[h] = p /\ DOMAIN handle' = Handles /\ \A g \in Handles \ {h} : handle'[g] = handle[g]
            BY <1>0, <1>3
        <2>7. Places \subseteq DOMAIN p /\ p.pc = "check" /\ \A x \in {"slot", "path", "stamp"} : p[x] = handle[h][x]
            BY <1>0 DEF Places
        <2> HIDE DEF p
        <2>8. Fits(h) BY <2>6, <2>7 DEF Fits
        <2>9. handle'[h].pc \in Sync /\ handle'[h].pc = "check" BY <2>6, <2>7 DEF Sync
        <2> QED BY <1>0, <1>1, <2>1, <2>3, <2>5, <2>8, <2>9, Posting
    <1>4. \/ \E z : handle' = [handle EXCEPT ![h].pc = "unlock", ![h].failed = z] /\ states' = states
          \/ /\ ~State(h).poisoned /\ states' = [states EXCEPT ![handle[h].slot].held = h]
             /\ handle' = [handle EXCEPT ![h].pc = "check", ![h].why = why, ![h].failed = FALSE,
                                          ![h].cpath = handle[h].path]
        BY DEF CommitStart
    <1> QED BY <1>2, <1>3, <1>4

LEMMA Letting ==
    ASSUME PathInv, NEW h \in Handles, handle[h].pc \in Sync
    PROVE  /\ [states EXCEPT ![handle[h].slot] = Unhold(@)] = [states EXCEPT ![handle[h].slot] = Unhold(State(h))]
           /\ Fields \subseteq DOMAIN Unhold(State(h)) /\ Unhold(State(h)).held = ""
           /\ \A x \in Fields \ {"held"} : Unhold(State(h))[x] = State(h)[x]
    <1>1. /\ handle[h].slot \in Slots /\ DOMAIN states = Slots /\ Fields \subseteq DOMAIN State(h)
        BY Roles DEF Sync
    <1> QED BY <1>1 DEF Unhold, State, Fields

\* The two ways a plan ends.
Stopped(h, z) == handle' = Return(h, z) /\ states' = [states EXCEPT ![handle[h].slot] = Unhold(@)]
Onward == {"finish", "verb"}
Plotted(h, q, v, x) == handle' = [handle EXCEPT ![h].pc = q, ![h].verb = v, ![h].cpend = x]

LEMMA PlanPath ==
    ASSUME PathInv, Loosed, NEW h \in Handles, CommitPlan(h)
    PROVE  PathInv'
    <1>0. /\ handle[h].pc = "check" /\ handle[h].pc \in Sync /\ handle[h].pc # "closed" /\ StoreKept
          /\ handle[h].slot = current /\ State(h).held = h
          /\ DOMAIN handle = Handles /\ Places \subseteq DOMAIN handle[h] /\ handle[h].slot \in Slots
        <2>1. handle[h].pc = "check" /\ UNCHANGED storeVars BY DEF CommitPlan
        <2>2. handle[h].pc \in Sync /\ handle[h].pc # "closed" BY <2>1 DEF Sync
        <2> QED BY <2>1, <2>2, Roles
    <1>1. UNCHANGED <<ns, current, dir, tracked, mounted, recovery>> BY DEF CommitPlan, storeVars
    <1>2. ~(dir.kind = "rename" /\ dir.pc = "handles") BY DEF CommitPlan, Loosed, Racing
    <1>3. \/ \E z : Stopped(h, z)
          \/ /\ handle[h].path = handle[h].cpath /\ handle[h].path # "" /\ states' = states
             /\ \E q, v, x : q \in Onward /\ Plotted(h, q, v, x)
        <2> DEFINE ww == State(h)
                   vv == Sent(ww)
                   gone == ww.deleted \/ handle[h].path = "" \/ ww.path = ""
                   moved == handle[h].path # handle[h].cpath \/ ww.path # handle[h].cpath
                   short == vv.kind \in {"rewrite", "replace"} /\ ~WholeImage(ww) /\ ~Readable(ww, Content(ww.path))
                   qq == IF vv.kind = "none" THEN "finish" ELSE "verb"
        <2>1. IF ww.poisoned \/ gone \/ moved \/ short
              THEN /\ handle' = Return(h, ww.poisoned \/ ~gone)
                   /\ states' = [states EXCEPT ![handle[h].slot] = Unhold(@)]
              ELSE /\ handle' = [handle EXCEPT ![h].pc = qq, ![h].verb = vv, ![h].cpend = ww.pending]
                   /\ UNCHANGED states
            BY DEF CommitPlan
        <2>2. ~gone => handle[h].path # "" OBVIOUS
        <2>3. ~moved => handle[h].path = handle[h].cpath OBVIOUS
        <2>4. qq \in Onward BY DEF Onward
        <2> DEFINE end == ww.poisoned \/ gone \/ moved \/ short
        <2>5. ~end => ~gone /\ ~moved OBVIOUS
        <2>6. IF end
              THEN /\ handle' = Return(h, ww.poisoned \/ ~gone)
                   /\ states' = [states EXCEPT ![handle[h].slot] = Unhold(@)]
              ELSE /\ handle' = [handle EXCEPT ![h].pc = qq, ![h].verb = vv, ![h].cpend = ww.pending]
                   /\ UNCHANGED states
            BY <2>1
        <2> DEFINE xx == ww.pending
                   zz == ww.poisoned \/ ~gone
        <2> HIDE DEF ww, vv, gone, moved, short, qq, end
        <2>7. CASE end
            <3>1. Stopped(h, zz) BY <2>6, <2>7 DEF Stopped
            <3> HIDE DEF zz
            <3> QED BY <3>1
        <2>8. CASE ~end
            <3>1. Plotted(h, qq, vv, xx) /\ UNCHANGED states BY <2>6, <2>8 DEF Plotted
            <3> HIDE DEF xx, zz
            <3> QED BY <2>2, <2>3, <2>4, <2>5, <2>8, <3>1
        <2> QED BY <2>7, <2>8
    <1>4. ASSUME NEW z, Stopped(h, z)
          PROVE  PathInv'
        <2> DEFINE w == Unhold(State(h))
        <2>1. states' = [states EXCEPT ![handle[h].slot] = w] /\ Fields \subseteq DOMAIN w /\ w.held = ""
              /\ \A x \in Fields \ {"held"} : w[x] = State(h)[x]
            BY <1>0, <1>4, Letting DEF Stopped
        <2>2. handle' = Return(h, z) BY <1>4 DEF Stopped
        <2> HIDE DEF w
        <2> QED BY <1>0, <1>1, <2>1, <2>2, Returning
    <1>5. ASSUME handle[h].path = handle[h].cpath, handle[h].path # "", states' = states,
                 NEW q, NEW v, NEW x, q \in Onward,
                 Plotted(h, q, v, x)
          PROVE  PathInv'
        <2>1. Fits(h) /\ handle'[h].pc = q /\ handle'[h].cpath = handle[h].cpath BY <1>5, Moved3 DEF Plotted
        <2>2. handle'[h].pc \in Sync BY <1>5, <2>1 DEF Sync, Onward
        <2>3. /\ handle'[h].cpath \in Names /\ ns[handle'[h].cpath] # "stranger"
              /\ dir.pc \in {"idle", "hub"} => ns[handle'[h].cpath] = "file"
            <3>1. handle[h].path \in tracked \cup {""} /\ tracked \subseteq Names /\ Named
                <4>1. handle[h].slot # 0 BY <1>0, Mounts
                <4> QED BY <4>1 DEF PathInv, Shapes, Under
            <3>2. handle'[h].cpath \in tracked /\ handle'[h].cpath \in Names BY <1>5, <2>1, <3>1
            <3>3. mounted BY <1>0, Roles
            <3>4. CASE dir.pc # "handles"
                <4>1. Filed = tracked BY <3>1, <3>3, <3>4 DEF Named
                <4> QED BY <3>2, <4>1 DEF Filed
            <3>5. CASE dir.pc = "handles"
                <4>1. dir.kind = "unlink" /\ ns[dir.src] = "none" BY <1>2, <3>1, <3>5 DEF Named
                <4>2. Filed = tracked \ {dir.src} BY <3>1, <3>3, <3>5, <4>1 DEF Named, Moves
                <4> QED BY <3>2, <3>5, <4>1, <4>2 DEF Filed
            <3> QED BY <3>4, <3>5
        <2>4. SlotKept(h) /\ states'[current].held = h BY <1>0, <1>5, SlotStill DEF State
        <2> QED BY <1>0, <1>1, <1>5, <2>1, <2>2, <2>3, <2>4, Posting
    <1>6. CASE \E z : Stopped(h, z)
        BY <1>4, <1>6
    <1>7. CASE /\ handle[h].path = handle[h].cpath /\ handle[h].path # "" /\ states' = states
               /\ \E q, v, x : q \in Onward /\ Plotted(h, q, v, x)
        BY <1>5, <1>7
    <1> QED BY <1>3, <1>6, <1>7

LEMMA Bumping ==
    ASSUME PathInv, Bump("file"), DOMAIN stored' = DOMAIN stored, DOMAIN mode' = DOMAIN mode
    PROVE  StoreKept /\ stamp'["file"] = stamp["file"] + 1
    <1>1. stamp \in [Files -> Nat] /\ Files \subseteq DOMAIN stored /\ Files \subseteq DOMAIN mode
        BY DEF PathInv, Shapes
    <1>2. "file" \in Files BY Mounts
    <1>3. stamp' = [stamp EXCEPT !["file"] = stamp["file"] + 1] BY DEF Bump
    <1>4. stamp["file"] \in Nat BY <1>1, <1>2
    <1>5. stamp' \in [Files -> Nat] /\ stamp'["file"] = stamp["file"] + 1 BY <1>1, <1>2, <1>3, <1>4
    <1>6. stamp'["file"] > stamp["file"] BY <1>4, <1>5
    <1> QED BY <1>1, <1>5, <1>6 DEF StoreKept

\* Where a verb of a commit goes: to the file, or nowhere.
LEMMA Aims ==
    ASSUME PathInv, NEW h \in Handles, handle[h].pc \in Sync \ {"check"}
    PROVE  Reached(handle[h].cpath) \in {"file", "none"} /\ Reached(handle[h].cpath) = ns[handle[h].cpath]
    <1>1. handle[h].cpath \in Names /\ ns[handle[h].cpath] # "stranger" BY DEF PathInv, Sends
    <1>2. ns[handle[h].cpath] \in {"file", "stranger", "none"} BY <1>1, Mounts DEF PathInv, Shapes
    <1> QED BY <1>1, <1>2, Mounts DEF Reached

\* A step of a commit that stays on its way.
LEMMA Pressing ==
    ASSUME PathInv, NEW h \in Handles, handle[h].pc \in Sync \ {"check"}, NEW q \in Sync \ {"check"},
           handle' = [handle EXCEPT ![h].pc = q], states' = states, StoreKept,
           UNCHANGED <<ns, current, dir, tracked, mounted, recovery>>
    PROVE  PathInv'
    <1>0. handle[h].pc \in Sync /\ handle[h].pc # "closed" BY DEF Sync
    <1>1. Fits(h) /\ handle'[h].pc = q /\ handle'[h].cpath = handle[h].cpath BY Moved1
    <1>2. /\ handle[h].cpath \in Names /\ ns[handle[h].cpath] # "stranger"
          /\ dir.pc \in {"idle", "hub"} => ns[handle[h].cpath] = "file"
        BY DEF PathInv, Sends
    <1>3. handle[h].slot = current /\ State(h).held = h BY <1>0, Roles
    <1>4. SlotKept(h) /\ states'[current].held = h BY <1>0, <1>3, SlotStill DEF State
    <1>5. handle'[h].pc \in Sync BY <1>1
    <1> QED BY <1>0, <1>1, <1>2, <1>3, <1>4, <1>5, Posting

LEMMA VerbPath ==
    ASSUME PathInv, NEW h \in Handles, CommitVerb(h)
    PROVE  PathInv'
    <1>0. handle[h].pc \in Sync \ {"check"} /\ handle[h].pc \in Sync BY DEF CommitVerb, Sync
    <1>1. UNCHANGED <<ns, mode, current, dir, tracked, mounted, recovery>> BY DEF CommitVerb
    <1> DEFINE f == Reached(handle[h].cpath)
    <1>2. f \in {"file", "none"} BY <1>0, Aims
    <1>3. \/ /\ f # "none" /\ Bump(f) /\ states' = states /\ DOMAIN stored' = DOMAIN stored
             /\ \E q \in {"trim", "finish"} : handle' = [handle EXCEPT ![h].pc = q]
          \/ Fail(h) /\ UNCHANGED <<stored, stamp>>
        <2> DEFINE v == handle[h].verb
                   q == IF v.trim THEN "trim" ELSE "finish"
        <2>1. \/ /\ f # "none" /\ stored' = [stored EXCEPT ![f] = Applied(@, v)] /\ Bump(f)
                 /\ handle' = [handle EXCEPT ![h].pc = q] /\ states' = states
              \/ Fail(h) /\ UNCHANGED <<stored, stamp>>
            BY DEF CommitVerb
        <2>2. q \in {"trim", "finish"} OBVIOUS
        <2>3. \A x : stored' = [stored EXCEPT ![f] = x] => DOMAIN stored' = DOMAIN stored OBVIOUS
        <2>4. stored' = [stored EXCEPT ![f] = Applied(@, v)] => stored' = [stored EXCEPT ![f] = Applied(stored[f], v)]
            OBVIOUS
        <2> HIDE DEF f, v, q
        <2> QED BY <2>1, <2>2, <2>3, <2>4
    <1>4. ASSUME f # "none", Bump(f), states' = states, DOMAIN stored' = DOMAIN stored,
                 NEW q \in {"trim", "finish"}, handle' = [handle EXCEPT ![h].pc = q]
          PROVE  PathInv'
        <2>1. f = "file" BY <1>2, <1>4
        <2>2. StoreKept BY <1>1, <1>4, <2>1, Bumping
        <2>3. q \in Sync \ {"check"} BY <1>4 DEF Sync
        <2> QED BY <1>0, <1>1, <1>4, <2>2, <2>3, Pressing
    <1>5. ASSUME Fail(h), UNCHANGED <<stored, stamp>> PROVE PathInv'
        <2> DEFINE w == Unhold(State(h))
        <2>1. states' = [states EXCEPT ![handle[h].slot] = w] /\ Fields \subseteq DOMAIN w /\ w.held = ""
              /\ \A x \in Fields \ {"held"} : w[x] = State(h)[x]
            BY <1>0, <1>5, Letting DEF Fail
        <2>2. handle' = Return(h, TRUE) BY <1>5 DEF Fail
        <2>3. StoreKept BY <1>1, <1>5, Roles DEF storeVars
        <2> HIDE DEF w
        <2> QED BY <1>0, <1>1, <2>1, <2>2, <2>3, Returning
    <1> HIDE DEF f
    <1> QED BY <1>3, <1>4, <1>5

LEMMA TrimPath ==
    ASSUME PathInv, NEW h \in Handles, CommitTrim(h)
    PROVE  PathInv'
    <1>0. handle[h].pc \in Sync \ {"check"} /\ handle[h].pc \in Sync BY DEF CommitTrim, Sync
    <1>1. UNCHANGED <<ns, mode, current, dir, tracked, mounted, recovery>> BY DEF CommitTrim
    <1> DEFINE f == Reached(handle[h].cpath)
               u == [Unhold(State(h)) EXCEPT !.half = TRUE]
    <1>2. f \in {"file", "none"} BY <1>0, Aims
    <1>3. /\ handle[h].slot \in Slots /\ DOMAIN states = Slots /\ Fields \subseteq DOMAIN State(h)
        BY <1>0, Roles DEF Sync
    <1>4. \/ /\ f # "none" /\ Bump(f) /\ states' = states /\ DOMAIN stored' = DOMAIN stored
             /\ handle' = [handle EXCEPT ![h].pc = "finish"]
          \/ /\ handle' = Return(h, TRUE) /\ UNCHANGED <<stored, stamp>>
             /\ states' = [states EXCEPT ![handle[h].slot] = [Unhold(@) EXCEPT !.half = TRUE]]
        <2>1. \A x : stored' = [stored EXCEPT ![f] = Resize(@, x)] => DOMAIN stored' = DOMAIN stored OBVIOUS
        <2> QED BY <2>1 DEF CommitTrim
    <1>5. ASSUME f # "none", Bump(f), states' = states, DOMAIN stored' = DOMAIN stored,
                 handle' = [handle EXCEPT ![h].pc = "finish"]
          PROVE  PathInv'
        <2>1. f = "file" BY <1>2, <1>5
        <2>2. StoreKept BY <1>1, <1>5, <2>1, Bumping
        <2>3. "finish" \in Sync \ {"check"} BY DEF Sync
        <2> QED BY <1>0, <1>1, <1>5, <2>2, <2>3, Pressing
    <1>6. ASSUME handle' = Return(h, TRUE), UNCHANGED <<stored, stamp>>,
                 states' = [states EXCEPT ![handle[h].slot] = [Unhold(@) EXCEPT !.half = TRUE]]
          PROVE  PathInv'
        <2>1. states' = [states EXCEPT ![handle[h].slot] = u] BY <1>3, <1>6 DEF State
        <2>2. Fields \subseteq DOMAIN u /\ u.held = "" /\ \A x \in Fields \ {"held"} : u[x] = State(h)[x]
            BY <1>3 DEF Unhold, Fields
        <2>3. StoreKept BY <1>1, <1>6, Roles DEF storeVars
        <2> HIDE DEF u
        <2> QED BY <1>0, <1>1, <1>6, <2>1, <2>2, <2>3, Returning
    <1> HIDE DEF f
    <1> QED BY <1>4, <1>5, <1>6

LEMMA FinishPath ==
    ASSUME PathInv, NEW h \in Handles, CommitFinish(h)
    PROVE  PathInv'
    <1>0. handle[h].pc \in Sync \ {"check"} /\ handle[h].pc \in Sync BY DEF CommitFinish, Sync
    <1>1. UNCHANGED <<ns, stored, current, dir, tracked, mounted, recovery>> BY DEF CommitFinish
    <1> DEFINE f == Reached(handle[h].cpath)
    <1>2. f \in {"file", "none"} BY <1>0, Aims
    <1>3. /\ handle[h].slot \in Slots /\ DOMAIN states = Slots /\ Fields \subseteq DOMAIN State(h)
        BY <1>0, Roles DEF Sync
    <1>4. /\ \/ /\ f # "none" /\ Bump(f) /\ DOMAIN mode' = DOMAIN mode
             \/ UNCHANGED <<mode, stamp>>
          /\ \/ Fail(h)
             \/ \E landed \in BOOLEAN :
                   /\ states' = [states EXCEPT ![handle[h].slot] = Settled(State(h), handle[h].verb, landed)]
                   /\ handle' = Return(h, ~landed)
        <2>1. mode' = [mode EXCEPT ![f] = handle[h].cpend] => DOMAIN mode' = DOMAIN mode OBVIOUS
        <2> QED BY <2>1 DEF CommitFinish
    <1>5. StoreKept
        <2>1. CASE f # "none" /\ Bump(f) /\ DOMAIN mode' = DOMAIN mode
            <3>1. f = "file" BY <1>2, <2>1
            <3> HIDE DEF f
            <3> QED BY <1>1, <2>1, <3>1, Bumping
        <2>2. CASE UNCHANGED <<mode, stamp>> BY <1>1, <2>2, Roles DEF storeVars
        <2> HIDE DEF f
        <2> QED BY <1>4, <2>1, <2>2
    <1>6. ASSUME NEW z, NEW u, handle' = Return(h, z), states' = [states EXCEPT ![handle[h].slot] = u],
                 Fields \subseteq DOMAIN u, u.held = "", \A x \in Fields \ {"held"} : u[x] = State(h)[x]
          PROVE  PathInv'
        BY <1>0, <1>1, <1>5, <1>6, Returning
    <1>7. CASE Fail(h)
        <2> DEFINE w == Unhold(State(h))
        <2>1. states' = [states EXCEPT ![handle[h].slot] = w] /\ Fields \subseteq DOMAIN w /\ w.held = ""
              /\ \A x \in Fields \ {"held"} : w[x] = State(h)[x]
            BY <1>0, <1>7, Letting DEF Fail
        <2>2. handle' = Return(h, TRUE) BY <1>7 DEF Fail
        <2> HIDE DEF w
        <2> QED BY <1>6, <2>1, <2>2
    <1>8. ASSUME NEW landed \in BOOLEAN, handle' = Return(h, ~landed),
                 states' = [states EXCEPT ![handle[h].slot] = Settled(State(h), handle[h].verb, landed)]
          PROVE  PathInv'
        <2> DEFINE w == State(h)
                   v == handle[h].verb
        <2>0. Fields \subseteq DOMAIN w BY <1>3
        <2> DEFINE u == Settled(w, v, landed)
        <2> HIDE DEF w, v
        <2>a. Fields \subseteq DOMAIN u /\ u.held = "" /\ \A x \in Fields \ {"held"} : u[x] = w[x]
            BY <2>0, Settling
        <2> USE DEF w, v
        <2>2. states' = [states EXCEPT ![handle[h].slot] = u] BY <1>8
        <2> HIDE DEF u
        <2>1. Fields \subseteq DOMAIN u /\ u.held = "" /\ \A x \in Fields \ {"held"} : u[x] = State(h)[x]
            BY <2>a
        <2> QED BY <1>6, <1>8, <2>1, <2>2
    <1> HIDE DEF f
    <1> QED BY <1>4, <1>7, <1>8

\* The first and the last of a state are alone with it.
LEMMA Alone ==
    ASSUME PathInv, NEW h \in Handles, handle[h].pc # "closed", handle[h].slot = current, State(h).refs <= 1
    PROVE  \A g \in Handles \ {h} : handle[g].slot # handle[h].slot
    <1> DEFINE S == {g \in Handles : handle[g].slot = current}
    <1>1. current \in Slots /\ current # 0 BY Roles, Mounts
    <1>2. State(h).refs = Cardinality(S) BY <1>1 DEF PathInv, Slotted, State
    <1>3. IsFiniteSet(S) BY Mounts, FS_Subset
    <1>4. h \in S OBVIOUS
    <1>5. SUFFICES ASSUME NEW g \in S, g # h PROVE FALSE OBVIOUS
    <1>6. {h, g} \subseteq S BY <1>4
    <1>7. Cardinality({h, g}) = 2
        <2>1. IsFiniteSet({h}) /\ Cardinality({h}) = 1 BY FS_Singleton
        <2> DEFINE T == {h}
        <2>a. IsFiniteSet(T) /\ Cardinality(T) = 1 /\ g \notin T BY <1>5, <2>1
        <2>b. T \cup {g} = {h} \cup {g} OBVIOUS
        <2> HIDE DEF T
        <2>c. Cardinality(T \cup {g}) = Cardinality(T) + 1 BY <2>a, FS_AddElement
        <2>2. Cardinality({h} \cup {g}) = 2 BY <2>a, <2>b, <2>c
        <2>3. {h} \cup {g} = {h, g} OBVIOUS
        <2> QED BY <2>2, <2>3
    <1>8. Cardinality({h, g}) <= Cardinality(S) BY <1>3, <1>6, FS_Subset
    <1>9. Cardinality(S) \in Nat BY <1>3, FS_CardinalityType
    <1> HIDE DEF S
    <1> QED BY <1>2, <1>7, <1>8, <1>9

\* What is fingerprinted while the name is still the file's.
LEMMA FileStamps ==
    ASSUME PathInv, Loosed, NEW w, Untaken(w), w.path \in Names \cup {""}
    PROVE  Fingerprint(w.path) \in {-1, stamp["file"]}
    <1>1. ns \in [Names -> Files \cup {"none"}] /\ Files = {"file", "stranger"} BY Mounts DEF PathInv, Shapes
    <1>2. Reached(w.path) # "stranger" BY DEF Untaken, Loosed, Racing
    <1> QED BY <1>1, <1>2, Mounts DEF Fingerprint, Reached

LEMMA ClosePath ==
    ASSUME PathInv, Loosed, NEW h \in Handles, Unlock(h) \/ Delete(h) \/ LastClose(h) \/ QuarantineStart(h)
    PROVE  PathInv'
    <1>0. handle[h].pc # "closed" /\ StoreKept /\ UNCHANGED <<ns, current, dir, tracked, mounted, recovery>>
        <2>1. handle[h].pc # "closed" /\ UNCHANGED <<storeVars, current, dir, tracked, mounted, recovery>>
            BY DEF Unlock, Delete, LastClose, QuarantineStart
        <2> QED BY <2>1, Roles DEF storeVars
    <1>1. ASSUME NEW q \in Halts, handle' = [handle EXCEPT ![h].pc = q], states' = states PROVE PathInv'
        <2>1. Fits(h) /\ handle'[h].pc \in Halts BY <1>1, Moved1
        <2>2. SlotKept(h) BY <1>0, <1>1, SlotStill
        <2> QED BY <1>0, <2>1, <2>2, Halted
    <1>2. ASSUME NEW z, NEW x, x \in {-1, stamp["file"]}, Sole(h), states' = [states EXCEPT ![handle[h].slot].closed = TRUE],
                 handle' = [handle EXCEPT ![h].pc = "saving", ![h].full = z, ![h].stamp = x]
          PROVE  PathInv'
        <2>1. /\ handle[h].slot = current /\ State(h).refs <= 1 BY <1>2 DEF Sole
        <2>2. \A g \in Handles \ {h} : handle[g].slot # handle[h].slot BY <1>0, <2>1, Alone
        <2>3. DOMAIN states = Slots /\ handle[h].slot \in Slots /\ Fields \subseteq DOMAIN State(h)
              /\ DOMAIN handle = Handles /\ Places \subseteq DOMAIN handle[h]
            BY <1>0, Roles
        <2> DEFINE w == [State(h) EXCEPT !.closed = TRUE]
                   p == [handle[h] EXCEPT !.pc = "saving", !.full = z, !.stamp = x]
        <2>4. states' = [states EXCEPT ![handle[h].slot] = w] BY <1>2, <2>3 DEF State
        <2>5. /\ Fields \subseteq DOMAIN w /\ w.path = State(h).path /\ w.refs = State(h).refs
              /\ w.poisoned = State(h).poisoned /\ w.closed /\ w.held = State(h).held
            BY <2>3 DEF Fields
        <2> HIDE DEF w
        <2>6. SlotKept(h) /\ states'[handle[h].slot].closed BY <1>0, <2>4, <2>5, SlotKin
        <2>7. handle'[h] = p /\ DOMAIN handle' = Handles /\ \A g \in Handles \ {h} : handle'[g] = handle[g]
            BY <1>2, <2>3
        <2>8. Places \subseteq DOMAIN p /\ p.slot = handle[h].slot /\ p.path = handle[h].path /\ p.pc = "saving"
              /\ p.stamp = x
            BY <2>3 DEF Places
        <2> HIDE DEF p
        <2>9. x \in Nat \cup {-1} /\ x <= stamp["file"]
            <3>1. stamp["file"] \in Nat BY Mounts DEF PathInv, Shapes
            <3> QED BY <1>2, <3>1
        <2>10. HandleKept(h) BY <2>2, <2>6, <2>7, <2>8, <2>9 DEF HandleKept, Sync
        <2> QED BY <1>0, <2>6, <2>10, Working DEF Works
    <1>3. CASE Unlock(h)
        <2>1. \E q \in Halts : handle' = [handle EXCEPT ![h].pc = q] BY <1>3 DEF Unlock, Halts
        <2> QED BY <1>1, <1>3, <2>1 DEF Unlock
    <1>4. CASE Delete(h)
        <2>1. \E q \in Halts : handle' = [handle EXCEPT ![h].pc = q] BY <1>4 DEF Delete, Halts
        <2> QED BY <1>1, <1>4, <2>1 DEF Delete
    <1>5. CASE LastClose(h)
        <2>1. \E q \in Halts : handle' = [handle EXCEPT ![h].pc = q] BY <1>5 DEF LastClose, Halts
        <2> QED BY <1>1, <1>5, <2>1 DEF LastClose
    <1>6. CASE QuarantineStart(h)
        <2>1. CASE ~(Sole(h) /\ ~State(h).closed)
            <3>1. handle' = [handle EXCEPT ![h].pc = "drop"] /\ states' = states BY <1>6, <2>1 DEF QuarantineStart
            <3>2. "drop" \in Halts BY DEF Halts
            <3> QED BY <1>1, <3>1, <3>2
        <2>2. CASE Sole(h) /\ ~State(h).closed
            <3> DEFINE x == Fingerprint(State(h).path)
            <3>1. /\ handle' = [handle EXCEPT ![h].pc = "saving", ![h].full = WholeImage(State(h)), ![h].stamp = x]
                  /\ states' = [states EXCEPT ![handle[h].slot].closed = TRUE]
                BY <1>6, <2>2 DEF QuarantineStart
            <3>2. x \in {-1, stamp["file"]}
                <4>1. Untaken(State(h)) BY <1>6, <2>2 DEF QuarantineStart
                <4>2. current # 0 /\ State(h) = states[current] BY <1>0, <2>2, Roles, Mounts DEF Sole, State
                <4>3. State(h).path \in tracked \cup {""} \cup (IF dir.pc = "states" THEN {dir.src} ELSE {})
                    BY <4>2 DEF PathInv, Under
                <4>4. tracked \subseteq Names /\ (dir.pc = "states" => dir.src \in Names)
                    BY DEF PathInv, Shapes, Named
                <4>5. State(h).path \in Names \cup {""} BY <4>3, <4>4
                <4> QED BY <4>1, <4>5, FileStamps
            <3> HIDE DEF x
            <3> QED BY <1>2, <2>2, <3>1, <3>2
        <2> QED BY <2>1, <2>2
    <1> QED BY <1>3, <1>4, <1>5, <1>6

-----------------------------------------------------------------------------
(* Opens, and what a handle leaves behind.                                 *)

LEMMA FreeShape == Fields \subseteq DOMAIN Free /\ ~Free.poisoned /\ Places \subseteq DOMAIN Rest
                   /\ Rest.slot = 0 /\ Rest.pc = "closed" /\ Rest.stamp = -1
                   /\ \A p : Fields \subseteq DOMAIN Overlay(p, 0) /\ ~Overlay(p, 0).made
                             /\ Overlay(p, 0).refs = 1 /\ Overlay(p, 0).path = p
    BY DEF Free, Rest, Overlay, Fields, Places

\* Other handles than h keep everything; what h becomes is said by p.
Gone(h, p) == p.slot = 0 /\ p.pc = "closed"
Loses(h, p) == p.slot = handle[h].slot /\ p.path = handle[h].path /\ p.pc = "drop" /\ states'[handle[h].slot].poisoned

LEMMA Leaving ==
    ASSUME PathInv, NEW h \in Handles, handle[h].pc # "closed", NEW p, handle' = [handle EXCEPT ![h] = p],
           Places \subseteq DOMAIN p, Gone(h, p) \/ Loses(h, p), NEW w, Fields \subseteq DOMAIN w,
           states' = [states EXCEPT ![handle[h].slot] = w],
           \A g \in Handles \ {h} : handle[g].slot # handle[h].slot,
           current' = IF current = handle[h].slot THEN 0 ELSE current,
           UNCHANGED <<storeVars, dir, tracked, mounted>>, Stamped'
    PROVE  PathInv'
    <1> DEFINE k == handle[h].slot
    <1>0. Shapes /\ Named /\ Slotted /\ Under /\ Sends BY DEF PathInv
    <1>1. DOMAIN states = Slots /\ DOMAIN handle = Handles /\ k \in Slots /\ mounted BY Roles
    <1>2. UNCHANGED <<ns, stored, stamp, mode, dir, tracked, mounted>> BY DEF storeVars
    <1>3. /\ DOMAIN handle' = Handles /\ handle'[h] = p /\ \A g \in Handles \ {h} : handle'[g] = handle[g]
        BY <1>1
    <1>4. /\ DOMAIN states' = Slots /\ states'[k] = w /\ \A s \in Slots \ {k} : states'[s] = states[s]
        BY <1>1
    <1>5. current' # k /\ (current' # 0 => current' = current) BY <1>1, Mounts
    <1>S. /\ \A g \in Handles : handle[g].slot \in Slots \cup {0}
          /\ \A g \in Handles : handle[g].slot = 0 <=> handle[g].pc = "closed"
          /\ \A g \in Handles : handle[g].slot # 0 => handle[g].slot = current \/ states[handle[g].slot].poisoned
          /\ \A g \in Handles : handle[g].pc = "making" =>
                ~states[handle[g].slot].made /\ handle[g].why \in {"open", "trunc"}
          /\ \A g \in Handles : handle[g].pc = "saving" => states[handle[g].slot].closed
        BY <1>0 DEF Slotted
    <1>T. \A g, f \in Handles : g # f /\ handle[f].pc \in {"making", "saving"} => handle[g].slot # handle[f].slot
        BY <1>0 DEF Slotted
    <1>c. current \in Slots \cup {0} BY <1>0 DEF Shapes
    <1>6. \A g \in Handles \ {h} : handle[g].slot # k OBVIOUS
    <1>7. p.pc \in {"closed", "drop"} /\ (p.slot = 0 <=> p.pc = "closed") /\ p.slot \in {0, k}
          /\ (p.slot = k => p.path = handle[h].path /\ states'[k].poisoned)
        BY <1>1, Mounts DEF Gone, Loses
    <1> HIDE DEF k
    <1>11. Shapes'
        <2>1. \A s \in Slots : Fields \subseteq DOMAIN states'[s] BY <1>0, <1>4 DEF Shapes
        <2>2. \A g \in Handles : Places \subseteq DOMAIN handle'[g] BY <1>0, <1>3 DEF Shapes
        <2>3. current' \in Slots \cup {0} BY <1>c
        <2> QED BY <1>0, <1>2, <1>3, <1>4, <2>1, <2>2, <2>3 DEF Shapes
    <1>12. Named' BY <1>0, <1>1, <1>2, NamedKept
    <1>13. Slotted'
        <2>1. \A g \in Handles : handle'[g].slot \in Slots \cup {0} BY <1>S, <1>1, <1>3, <1>7
        <2>2. \A g \in Handles : handle'[g].slot = 0 <=> handle'[g].pc = "closed" BY <1>S, <1>3, <1>7
        <2>3. ASSUME NEW g \in Handles, handle'[g].slot # 0
              PROVE  handle'[g].slot = current' \/ states'[handle'[g].slot].poisoned
            <3>1. CASE g = h BY <1>3, <1>7, <2>3, <3>1
            <3>2. CASE g # h
                <4>1. handle'[g] = handle[g] /\ handle[g].slot # k /\ handle[g].slot \in Slots
                    BY <1>S, <1>3, <1>6, <2>3, <3>2
                <4>2. handle[g].slot = current \/ states[handle[g].slot].poisoned BY <1>S, <2>3, <4>1
                <4>3. CASE handle[g].slot = current BY <4>1, <4>3 DEF k
                <4>4. CASE states[handle[g].slot].poisoned BY <1>4, <4>1, <4>4
                <4> QED BY <4>2, <4>3, <4>4
            <3> QED BY <3>1, <3>2
        <2>4. ASSUME NEW g \in Handles, NEW f \in Handles, g # f, handle'[f].pc \in {"making", "saving"}
              PROVE  handle'[g].slot # handle'[f].slot
            <3>1. f # h BY <1>3, <1>7, <2>4
            <3>2. handle'[f] = handle[f] BY <1>3, <3>1
            <3>3. handle[f].slot # 0 /\ handle[f].slot # k BY <1>S, <1>6, <2>4, <3>1, <3>2
            <3>4. CASE g = h BY <1>3, <1>7, <3>2, <3>3, <3>4
            <3>5. CASE g # h
                <4>1. handle'[g] = handle[g] BY <1>3, <3>5
                <4> QED BY <1>T, <2>4, <3>2, <4>1
            <3> QED BY <3>4, <3>5
        <2>5. ASSUME NEW f \in Handles, handle'[f].pc \in {"making", "saving"}
              PROVE  handle'[f] = handle[f] /\ states'[handle'[f].slot] = states[handle[f].slot]
            <3>1. f # h BY <1>3, <1>7, <2>5
            <3>2. handle'[f] = handle[f] BY <1>3, <3>1
            <3>3. handle[f].slot \in Slots /\ handle[f].slot # k BY <1>S, <1>6, <2>5, <3>1, <3>2
            <3> QED BY <1>4, <3>2, <3>3
        <2>6. \A f \in Handles : handle'[f].pc = "making" =>
                 ~states'[handle'[f].slot].made /\ handle'[f].why \in {"open", "trunc"}
            BY <1>S, <2>5
        <2>7. \A f \in Handles : handle'[f].pc = "saving" => states'[handle'[f].slot].closed BY <1>S, <2>5
        <2>8. ASSUME current' # 0
              PROVE  states'[current'].refs = Cardinality({g \in Handles : handle'[g].slot = current'})
            <3>1. current' = current /\ current # k /\ current \in Slots /\ current # 0 BY <1>5, <1>c, <2>8
            <3>2. states'[current] = states[current] BY <1>4, <3>1
            <3>3. p.slot # current /\ handle[h].slot # current BY <1>7, <3>1 DEF k
            <3>4. {g \in Handles : handle'[g].slot = current} = {g \in Handles : handle[g].slot = current}
                BY <1>3, <3>3
            <3>5. states[current].refs = Cardinality({g \in Handles : handle[g].slot = current})
                BY <1>0, <3>1 DEF Slotted
            <3> QED BY <3>1, <3>2, <3>4, <3>5
        <2> QED BY <2>1, <2>2, <2>3, <2>4, <2>6, <2>7, <2>8 DEF Slotted
    <1>14. Under'
        <2>1. ASSUME NEW g \in Handles, handle'[g].slot # 0 PROVE handle'[g].path \in tracked' \cup {""}
            <3>1. CASE g = h
                <4>1. p.path = handle[h].path /\ handle[h].slot # 0 BY <1>1, <1>3, <1>7, <2>1, <3>1, Mounts DEF k
                <4> QED BY <1>0, <1>2, <1>3, <3>1, <4>1 DEF Under
            <3>2. CASE g # h
                <4>1. handle'[g] = handle[g] BY <1>3, <3>2
                <4> QED BY <1>0, <1>2, <2>1, <4>1 DEF Under
            <3> QED BY <3>1, <3>2
        <2>2. ASSUME current' # 0
              PROVE  states'[current'].path \in tracked' \cup {""} \cup (IF dir'.pc = "states" THEN {dir'.src} ELSE {})
            <3>1. current' = current /\ current # k /\ current \in Slots BY <1>5, <1>c, <2>2
            <3>2. states'[current] = states[current] BY <1>4, <3>1
            <3> QED BY <1>0, <1>2, <2>2, <3>1, <3>2 DEF Under
        <2> QED BY <2>1, <2>2 DEF Under
    <1>15. Sends'
        <2>1. ASSUME NEW g \in Handles, handle'[g].pc \in Sync
              PROVE  /\ handle'[g] = handle[g] /\ handle[g].slot = current /\ states[current].held = g
                     /\ current' = current /\ states'[current] = states[current]
            <3>1. g # h BY <1>3, <1>7, <2>1 DEF Sync
            <3>2. handle'[g] = handle[g] BY <1>3, <3>1
            <3>3. handle[g].slot = current /\ states[current].held = g BY <1>0, <2>1, <3>2 DEF Sends
            <3>4. current # k BY <1>6, <3>1, <3>3
            <3>5. handle[g].pc # "closed" BY <2>1, <3>2 DEF Sync
            <3>6. current \in Slots BY <1>S, <3>3, <3>5
            <3> QED BY <1>4, <3>2, <3>3, <3>4, <3>6 DEF k
        <2> QED BY <1>0, <1>2, <2>1 DEF Sends
    <1> QED BY <1>11, <1>12, <1>13, <1>14, <1>15 DEF PathInv

\* Nothing of the project changes and no overlay is saved.
LEMMA StillStamped ==
    ASSUME PathInv, UNCHANGED storeVars, recovery' = recovery,
           \A g \in Handles : handle'[g].stamp = handle[g].stamp \/ handle'[g].stamp = -1
    PROVE  Stamped'
    <1>1. stamp["file"] \in Nat BY Mounts DEF PathInv, Shapes
    <1>2. \A g \in Handles : handle'[g].stamp \in Nat \cup {-1} /\ handle'[g].stamp <= stamp["file"]
        <2>1. -1 \in Nat \cup {-1} /\ -1 <= stamp["file"] BY <1>1
        <2>2. \A g \in Handles : handle[g].stamp \in Nat \cup {-1} /\ handle[g].stamp <= stamp["file"]
            BY DEF PathInv, Stamped
        <2> QED BY <2>1, <2>2
    <1>3. StoreKept BY DEF PathInv, Shapes, StoreKept, storeVars
    <1> QED BY <1>2, <1>3, StampedKept DEF PathInv

LEMMA SavePath ==
    ASSUME PathInv, NEW h \in Handles, QuarantineSave(h)
    PROVE  PathInv'
    <1> DEFINE w == Poisoned(State(h))
               p == [handle[h] EXCEPT !.pc = "drop"]
    <1>0. /\ handle[h].pc = "saving" /\ UNCHANGED <<storeVars, dir, tracked, mounted>>
          /\ current' = IF current = handle[h].slot THEN 0 ELSE current
        BY DEF QuarantineSave
    <1>1. DOMAIN states = Slots /\ DOMAIN handle = Handles /\ Places \subseteq DOMAIN handle[h]
          /\ handle[h].slot \in Slots /\ Fields \subseteq DOMAIN State(h)
        BY <1>0, Roles
    <1>2. states' = [states EXCEPT ![handle[h].slot] = w] /\ states'[handle[h].slot] = w
        BY <1>1 DEF QuarantineSave, State
    <1>3. Fields \subseteq DOMAIN w /\ w.poisoned
        <2>1. DOMAIN w = DOMAIN State(h) BY DEF Poisoned
        <2>2. "poisoned" \in DOMAIN State(h) BY <1>1 DEF Fields
        <2> QED BY <1>1, <2>1, <2>2 DEF Poisoned
    <1>4. handle' = [handle EXCEPT ![h] = p] BY <1>1 DEF QuarantineSave
    <1>5. Places \subseteq DOMAIN p /\ p.slot = handle[h].slot /\ p.path = handle[h].path /\ p.pc = "drop"
          /\ p.stamp = handle[h].stamp
        BY <1>1 DEF Places
    <1> HIDE DEF w, p
    <1>6. \A g \in Handles \ {h} : handle[g].slot # handle[h].slot
        BY <1>0 DEF PathInv, Slotted
    <1>7. Loses(h, p) BY <1>2, <1>3, <1>5 DEF Loses
    <1>8. Stamped'
        <2>1. UNCHANGED <<stored, stamp>> BY <1>0 DEF storeVars
        <2>2. handle'[h] = p /\ \A g \in Handles \ {h} : handle'[g] = handle[g] BY <1>1, <1>4
        <2>3. \A g \in Handles : handle'[g].stamp = handle[g].stamp BY <1>5, <2>2
        <2>4. \A e \in recovery' : e \in recovery \/ (e.stamp = handle[h].stamp /\ e.over = stored["file"])
            BY DEF QuarantineSave, Saved
        <2>5. /\ \A g \in Handles : handle[g].stamp \in Nat \cup {-1} /\ handle[g].stamp <= stamp["file"]
              /\ \A e \in recovery : /\ e.stamp \in Nat \cup {-1} /\ e.stamp <= stamp["file"]
                                     /\ e.stamp = stamp["file"] => e.over = stored["file"]
            BY DEF PathInv, Stamped
        <2> QED BY <2>1, <2>3, <2>4, <2>5 DEF Stamped
    <1> QED BY <1>0, <1>1, <1>2, <1>3, <1>4, <1>5, <1>6, <1>7, <1>8, Leaving

LEMMA RestLeaves ==
    ASSUME PathInv, NEW h \in Handles, handle[h].pc # "closed", handle' = [handle EXCEPT ![h] = Rest],
           NEW w, Fields \subseteq DOMAIN w, states' = [states EXCEPT ![handle[h].slot] = w],
           \A g \in Handles \ {h} : handle[g].slot # handle[h].slot,
           current' = IF current = handle[h].slot THEN 0 ELSE current,
           UNCHANGED <<storeVars, dir, tracked, mounted, recovery>>
    PROVE  PathInv'
    <1>1. Gone(h, Rest) BY FreeShape DEF Gone
    <1>2. DOMAIN handle = Handles BY Roles
    <1>3. \A g \in Handles : handle'[g].stamp = handle[g].stamp \/ handle'[g].stamp = -1 BY <1>2, FreeShape
    <1>4. Stamped' BY <1>3, StillStamped
    <1> QED BY <1>1, <1>4, FreeShape, Leaving

LEMMA MakePath ==
    ASSUME PathInv, NEW h \in Handles, Materialize(h)
    PROVE  PathInv'
    <1>0. handle[h].pc = "making" /\ UNCHANGED <<storeVars, dir, tracked, recovery, mounted>> BY DEF Materialize
    <1>1. DOMAIN states = Slots /\ DOMAIN handle = Handles /\ Places \subseteq DOMAIN handle[h]
          /\ handle[h].slot \in Slots /\ Fields \subseteq DOMAIN State(h) /\ StoreKept
        BY <1>0, Roles
    <1>2. /\ \A g \in Handles \ {h} : handle[g].slot # handle[h].slot
          /\ handle[h].why \in {"open", "trunc"}
        BY <1>0 DEF PathInv, Slotted
    <1>3. \/ /\ \E n : states' = [states EXCEPT ![handle[h].slot] =
                          [WithSize(states[handle[h].slot], n) EXCEPT !.made = TRUE, !.base = n]]
             /\ handle' = [handle EXCEPT ![h].pc = handle[h].why] /\ current' = current
          \/ /\ states' = [states EXCEPT ![handle[h].slot] = IF @.refs = 1 THEN Free ELSE [@ EXCEPT !.closed = TRUE]]
             /\ current' = IF current = handle[h].slot THEN 0 ELSE current
             /\ handle' = [handle EXCEPT ![h] = Rest]
        BY DEF Materialize
    <1>4. ASSUME NEW n, states' = [states EXCEPT ![handle[h].slot] =
                          [WithSize(states[handle[h].slot], n) EXCEPT !.made = TRUE, !.base = n]],
                 handle' = [handle EXCEPT ![h].pc = handle[h].why], current' = current
          PROVE  PathInv'
        <2> DEFINE w == [WithSize(State(h), n) EXCEPT !.made = TRUE, !.base = n]
        <2>1. Kin(WithSize(State(h), n), State(h)) BY <1>1, Resizing
        <2>2. Fields \subseteq DOMAIN w /\ w.path = State(h).path /\ w.refs = State(h).refs
              /\ w.poisoned = State(h).poisoned /\ w.closed = State(h).closed /\ w.held = State(h).held
            BY <2>1 DEF Kin, Fields
        <2>3. states' = [states EXCEPT ![handle[h].slot] = w] BY <1>4 DEF State
        <2> HIDE DEF w
        <2>4. SlotKept(h) BY <1>0, <2>2, <2>3, SlotKin
        <2> DEFINE q == handle[h].why
        <2>5. handle' = [handle EXCEPT ![h].pc = q] BY <1>4
        <2>6. q \in Halts BY <1>2 DEF Halts
        <2> HIDE DEF q
        <2>7. Fits(h) /\ handle'[h].pc \in Halts BY <2>5, <2>6, Moved1
        <2> QED BY <1>0, <1>1, <1>4, <2>4, <2>7, Halted DEF storeVars
    <1>5. ASSUME states' = [states EXCEPT ![handle[h].slot] = IF @.refs = 1 THEN Free ELSE [@ EXCEPT !.closed = TRUE]],
                 current' = IF current = handle[h].slot THEN 0 ELSE current,
                 handle' = [handle EXCEPT ![h] = Rest]
          PROVE  PathInv'
        <2> DEFINE w == IF State(h).refs = 1 THEN Free ELSE [State(h) EXCEPT !.closed = TRUE]
        <2>1. states' = [states EXCEPT ![handle[h].slot] = w] BY <1>1, <1>5 DEF State
        <2>2. Fields \subseteq DOMAIN w BY <1>1, FreeShape
        <2> HIDE DEF w
        <2> QED BY <1>0, <1>2, <1>5, <2>1, <2>2, RestLeaves
    <1> QED BY <1>3, <1>4, <1>5

\* A handle comes to slot k or leaves it; others keep what they have there.
Comes(p, w, k) ==
    /\ Places \subseteq DOMAIN p /\ Fields \subseteq DOMAIN w /\ p.stamp = -1
    /\ p.slot \in {0, k} /\ p.pc \in {"closed", "open", "trunc", "making"} /\ (p.slot = 0 <=> p.pc = "closed")
    /\ p.slot = k => p.path \in tracked /\ current' = k
    /\ p.pc = "making" => ~w.made /\ p.why \in {"open", "trunc"}
Beside(h, p, w, k) ==
    /\ \/ \A x \in Fields \ {"refs"} : w[x] = states[k][x]
       \/ \A g \in Handles \ {h} : handle[g].slot # k
    /\ p.slot = k => \A g \in Handles \ {h} : handle[g].pc \in {"making", "saving"} => handle[g].slot # k
    /\ p.pc = "making" => \A g \in Handles \ {h} : handle[g].slot # k

LEMMA Reslotting ==
    ASSUME PathInv, NEW h \in Handles, NEW k \in Slots, NEW p, NEW w,
           handle' = [handle EXCEPT ![h] = p], states' = [states EXCEPT ![k] = w],
           Comes(p, w, k), Beside(h, p, w, k), handle[h].slot \in {0, k}, handle[h].pc \notin Sync,
           current' = current \/ (current = 0 /\ current' = k), mounted,
           current' = k => w.path \in tracked \cup {""} \/ (current = k /\ w.path = states[k].path),
           current' # 0 => states'[current'].refs = Cardinality({g \in Handles : handle'[g].slot = current'}),
           UNCHANGED <<storeVars, dir, tracked, mounted, recovery>>
    PROVE  PathInv'
    <1>0. Shapes /\ Named /\ Slotted /\ Under /\ Sends BY DEF PathInv
    <1>1. DOMAIN states = Slots /\ DOMAIN handle = Handles BY Roles
    <1>2. UNCHANGED <<ns, stored, stamp, mode, dir, tracked, mounted>> BY DEF storeVars
    <1>3. /\ DOMAIN handle' = Handles /\ handle'[h] = p /\ \A g \in Handles \ {h} : handle'[g] = handle[g]
        BY <1>1
    <1>4. /\ DOMAIN states' = Slots /\ states'[k] = w /\ \A s \in Slots \ {k} : states'[s] = states[s]
        BY <1>1
    <1>c. current \in Slots \cup {0} /\ k # 0 /\ current' \in Slots \cup {0}
        BY <1>0, Mounts DEF Shapes
    <1>p. /\ Places \subseteq DOMAIN p /\ Fields \subseteq DOMAIN w /\ p.stamp = -1
          /\ p.slot \in {0, k} /\ p.pc \in {"closed", "open", "trunc", "making"} /\ (p.slot = 0 <=> p.pc = "closed")
          /\ p.slot = k => p.path \in tracked /\ current' = k
          /\ p.pc = "making" => ~w.made /\ p.why \in {"open", "trunc"}
        BY DEF Comes
    <1>b. /\ \/ \A x \in Fields \ {"refs"} : w[x] = states[k][x]
             \/ \A g \in Handles \ {h} : handle[g].slot # k
          /\ p.slot = k => \A g \in Handles \ {h} : handle[g].pc \in {"making", "saving"} => handle[g].slot # k
          /\ p.pc = "making" => \A g \in Handles \ {h} : handle[g].slot # k
        BY DEF Beside
    <1>S. /\ \A g \in Handles : handle[g].slot \in Slots \cup {0}
          /\ \A g \in Handles : handle[g].slot = 0 <=> handle[g].pc = "closed"
          /\ \A g \in Handles : handle[g].slot # 0 => handle[g].slot = current \/ states[handle[g].slot].poisoned
          /\ \A g \in Handles : handle[g].pc = "making" =>
                ~states[handle[g].slot].made /\ handle[g].why \in {"open", "trunc"}
          /\ \A g \in Handles : handle[g].pc = "saving" => states[handle[g].slot].closed
        BY <1>0 DEF Slotted
    <1>T. \A g, f \in Handles : g # f /\ handle[f].pc \in {"making", "saving"} => handle[g].slot # handle[f].slot
        BY <1>0 DEF Slotted
    <1>5. \A g \in Handles \ {h} : handle[g].slot \in Slots =>
             \A x \in Fields \ {"refs"} : states'[handle[g].slot][x] = states[handle[g].slot][x]
        <2> SUFFICES ASSUME NEW g \in Handles \ {h}, handle[g].slot \in Slots, NEW x \in Fields \ {"refs"}
                     PROVE  states'[handle[g].slot][x] = states[handle[g].slot][x]
            OBVIOUS
        <2>1. CASE handle[g].slot = k BY <1>4, <1>b, <2>1
        <2>2. CASE handle[g].slot # k BY <1>4, <2>2
        <2> QED BY <2>1, <2>2
    <1>6. \A g \in Handles \ {h} : handle[g].slot \in Slots =>
             /\ states'[handle[g].slot].poisoned = states[handle[g].slot].poisoned
             /\ states'[handle[g].slot].made = states[handle[g].slot].made
             /\ states'[handle[g].slot].closed = states[handle[g].slot].closed
             /\ states'[handle[g].slot].held = states[handle[g].slot].held
        <2>1. {"poisoned", "made", "closed", "held"} \subseteq Fields \ {"refs"} BY DEF Fields
        <2> QED BY <1>5, <2>1
    <1>11. Shapes'
        <2>1. \A s \in Slots : Fields \subseteq DOMAIN states'[s] BY <1>0, <1>4, <1>p DEF Shapes
        <2>2. \A g \in Handles : Places \subseteq DOMAIN handle'[g] BY <1>0, <1>3, <1>p DEF Shapes
        <2> QED BY <1>0, <1>2, <1>3, <1>4, <1>c, <2>1, <2>2 DEF Shapes
    <1>12. Named' BY <1>0, <1>2, NamedKept
    <1>13. Slotted'
        <2>1. \A g \in Handles : handle'[g].slot \in Slots \cup {0} BY <1>S, <1>3, <1>p
        <2>2. \A g \in Handles : handle'[g].slot = 0 <=> handle'[g].pc = "closed" BY <1>S, <1>3, <1>p
        <2>3. ASSUME NEW g \in Handles, handle'[g].slot # 0
              PROVE  handle'[g].slot = current' \/ states'[handle'[g].slot].poisoned
            <3>1. CASE g = h BY <1>3, <1>p, <2>3, <3>1
            <3>2. CASE g # h
                <4>1. handle'[g] = handle[g] /\ handle[g].slot \in Slots /\ handle[g].slot # 0
                    BY <1>S, <1>3, <2>3, <3>2
                <4>2. handle[g].slot = current \/ states[handle[g].slot].poisoned BY <1>S, <4>1
                <4>3. CASE handle[g].slot = current BY <4>1, <4>3
                <4>4. CASE states[handle[g].slot].poisoned
                    <5>1. states'[handle[g].slot].poisoned BY <1>6, <3>2, <4>1, <4>4
                    <5> QED BY <4>1, <5>1
                <4> QED BY <4>2, <4>3, <4>4
            <3> QED BY <3>1, <3>2
        <2>4. ASSUME NEW g \in Handles, NEW f \in Handles, g # f, handle'[f].pc \in {"making", "saving"}
              PROVE  handle'[g].slot # handle'[f].slot
            <3>1. CASE f = h
                <4>1. p.pc = "making" /\ p.slot = k BY <1>3, <1>p, <2>4, <3>1
                <4>2. handle'[g] = handle[g] /\ handle[g].slot # k BY <1>3, <1>b, <2>4, <3>1, <4>1
                <4> QED BY <1>3, <3>1, <4>1, <4>2
            <3>2. CASE f # h
                <4>0. handle'[f] = handle[f] BY <1>3, <3>2
                <4>1. handle[f].pc \in {"making", "saving"} /\ handle[f].slot # 0 BY <1>S, <2>4, <4>0
                <4>2. CASE g = h
                    <5>1. CASE p.slot = 0 BY <1>3, <4>0, <4>1, <4>2, <5>1
                    <5>2. CASE p.slot = k
                        <6>1. handle[f].slot # k BY <1>b, <3>2, <4>1, <5>2
                        <6> QED BY <1>3, <4>0, <4>2, <5>2, <6>1
                    <5> QED BY <1>p, <5>1, <5>2
                <4>3. CASE g # h
                    <5>1. handle'[g] = handle[g] BY <1>3, <4>3
                    <5> QED BY <1>T, <2>4, <4>0, <4>1, <5>1
                <4> QED BY <4>2, <4>3
            <3> QED BY <3>1, <3>2
        <2>5. ASSUME NEW f \in Handles, handle'[f].pc = "making"
              PROVE  ~states'[handle'[f].slot].made /\ handle'[f].why \in {"open", "trunc"}
            <3>1. CASE f = h
                <4>1. p.pc = "making" /\ p.slot = k BY <1>3, <1>p, <2>5, <3>1
                <4> QED BY <1>3, <1>4, <1>p, <3>1, <4>1
            <3>2. CASE f # h
                <4>1. handle'[f] = handle[f] BY <1>3, <3>2
                <4>2. handle[f].slot \in Slots BY <1>S, <2>5, <4>1
                <4>3. states'[handle[f].slot].made = states[handle[f].slot].made BY <1>6, <3>2, <4>2
                <4>4. ~states[handle[f].slot].made /\ handle[f].why \in {"open", "trunc"} BY <1>S, <2>5, <4>1
                <4> QED BY <4>1, <4>3, <4>4
            <3> QED BY <3>1, <3>2
        <2>6. ASSUME NEW f \in Handles, handle'[f].pc = "saving" PROVE states'[handle'[f].slot].closed
            <3>1. f # h BY <1>3, <1>p, <2>6
            <3>2. handle'[f] = handle[f] BY <1>3, <3>1
            <3>3. handle[f].slot \in Slots BY <1>S, <2>6, <3>2
            <3>4. states[handle[f].slot].closed BY <1>S, <2>6, <3>2
            <3>5. states'[handle[f].slot].closed BY <1>6, <3>1, <3>3, <3>4
            <3> QED BY <3>2, <3>5
        <2> QED BY <2>1, <2>2, <2>3, <2>4, <2>5, <2>6 DEF Slotted
    <1>14. Under'
        <2>1. ASSUME NEW g \in Handles, handle'[g].slot # 0 PROVE handle'[g].path \in tracked' \cup {""}
            <3>1. CASE g = h BY <1>2, <1>3, <1>p, <2>1, <3>1
            <3>2. CASE g # h
                <4>1. handle'[g] = handle[g] BY <1>3, <3>2
                <4> QED BY <1>0, <1>2, <2>1, <4>1 DEF Under
            <3> QED BY <3>1, <3>2
        <2>2. ASSUME current' # 0
              PROVE  states'[current'].path \in tracked' \cup {""} \cup (IF dir'.pc = "states" THEN {dir'.src} ELSE {})
            <3>1. CASE current' = k
                <4>1. CASE w.path \in tracked \cup {""} BY <1>2, <1>4, <3>1, <4>1
                <4>2. CASE current = k /\ w.path = states[k].path BY <1>0, <1>2, <1>4, <1>c, <3>1, <4>2 DEF Under
                <4> QED BY <3>1, <4>1, <4>2
            <3>2. CASE current' # k
                <4>1. current' = current /\ current \in Slots \ {k} BY <1>c, <2>2, <3>2
                <4>2. states'[current] = states[current] BY <1>4, <4>1
                <4> QED BY <1>0, <1>2, <2>2, <4>1, <4>2 DEF Under
            <3> QED BY <3>1, <3>2
        <2> QED BY <2>1, <2>2 DEF Under
    <1>15. Sends'
        <2>1. ASSUME NEW g \in Handles, handle'[g].pc \in Sync
              PROVE  /\ handle'[g] = handle[g] /\ handle[g].slot = current
                     /\ current' = current /\ states'[current].held = g
            <3>1. g # h BY <1>3, <1>p, <2>1 DEF Sync
            <3>2. handle'[g] = handle[g] BY <1>3, <3>1
            <3>3. handle[g].slot = current /\ states[current].held = g BY <1>0, <2>1, <3>2 DEF Sends
            <3>4. handle[g].pc # "closed" BY <2>1, <3>2 DEF Sync
            <3>5. current \in Slots /\ current # 0 BY <1>S, <3>3, <3>4
            <3> QED BY <1>6, <3>1, <3>2, <3>3, <3>5
        <2>2. \A g \in Handles : handle'[g].pc \in Sync => handle'[g].slot = current' /\ states'[current'].held = g
            BY <2>1
        <2>3. ASSUME NEW g \in Handles, handle'[g].pc \in Sync \ {"check"}
              PROVE  /\ handle'[g].cpath \in Names /\ ns'[handle'[g].cpath] # "stranger"
                     /\ dir'.pc \in {"idle", "hub"} => ns'[handle'[g].cpath] = "file"
            <3>1. handle'[g] = handle[g] BY <2>1, <2>3
            <3> QED BY <1>0, <1>2, <2>3, <3>1 DEF Sends
        <2> QED BY <2>2, <2>3 DEF Sends
    <1>16. Stamped'
        <2>1. \A g \in Handles : handle'[g].stamp = handle[g].stamp \/ handle'[g].stamp = -1 BY <1>3, <1>p
        <2> QED BY <2>1, StillStamped
    <1> QED BY <1>11, <1>12, <1>13, <1>14, <1>15, <1>16 DEF PathInv

LEMMA DropPath ==
    ASSUME PathInv, NEW h \in Handles, Drop(h)
    PROVE  PathInv'
    <1> DEFINE k == handle[h].slot
               used == \E g \in Handles \ {h} : handle[g].slot = k
               last == current = k /\ LastRef(states[k])
               w == IF ~used THEN Free
                    ELSE IF last THEN [State(h) EXCEPT !.closed = TRUE, !.refs = 0]
                    ELSE IF current = k THEN [State(h) EXCEPT !.refs = @ - 1] ELSE State(h)
               S == {g \in Handles : handle[g].slot = current}
    <1>0. /\ handle[h].pc = "ref" /\ UNCHANGED <<storeVars, dir, tracked, recovery, mounted>>
          /\ current' = (IF last THEN 0 ELSE current) /\ handle' = [handle EXCEPT ![h] = Rest]
        BY DEF Drop
    <1>1. DOMAIN states = Slots /\ DOMAIN handle = Handles /\ k \in Slots /\ Fields \subseteq DOMAIN State(h) /\ mounted
          /\ k # 0
        BY <1>0, Roles, Mounts
    <1>2. states' = [states EXCEPT ![k] = w]
        <2>0. State(h) = states[k] BY DEF State
        <2>1. CASE ~used
            <3>1. states' = [states EXCEPT ![k] = Free] BY <2>1 DEF Drop
            <3>2. w = Free BY <2>1
            <3> QED BY <3>1, <3>2
        <2>2. CASE used /\ last
            <3>1. states' = [states EXCEPT ![k] = [@ EXCEPT !.closed = TRUE, !.refs = 0]] BY <2>2 DEF Drop
            <3>2. w = [State(h) EXCEPT !.closed = TRUE, !.refs = 0] BY <2>2
            <3> HIDE DEF w
            <3> QED BY <2>0, <3>1, <3>2
        <2>3. CASE used /\ ~last /\ current = k
            <3>1. states' = [states EXCEPT ![k] = [states[k] EXCEPT !.refs = @ - 1]] BY <2>3 DEF Drop
            <3>2. w = [State(h) EXCEPT !.refs = @ - 1] BY <2>3
            <3> HIDE DEF w
            <3> QED BY <2>0, <3>1, <3>2
        <2>4. CASE used /\ current # k
            <3>1. states' = [states EXCEPT ![k] = @] BY <2>4 DEF Drop
            <3>2. w = State(h) BY <2>4
            <3> HIDE DEF w
            <3> QED BY <2>0, <3>1, <3>2
        <2> QED BY <2>1, <2>2, <2>3, <2>4
    <1>3. IsFiniteSet(S) BY Mounts, FS_Subset
    <1>4. current = k => State(h).refs = Cardinality(S) BY <1>1 DEF PathInv, Slotted, State
    <1>5. last => ~used
        <2> SUFFICES ASSUME last PROVE ~used OBVIOUS
        <2>1. handle[h].pc # "closed" /\ handle[h].slot = current /\ State(h).refs <= 1 BY <1>0 DEF LastRef, State
        <2> QED BY <2>1, Alone
    <1>6. CASE ~used
        <2>1. current = k => last
            <3> SUFFICES ASSUME current = k PROVE State(h).refs <= 1 BY DEF LastRef, State
            <3>1. S = {h} BY <1>6
            <3>2. Cardinality(S) = 1 BY <3>1, FS_Singleton
            <3> QED BY <1>4, <3>2
        <2>2. current' = IF current = k THEN 0 ELSE current BY <1>0, <2>1
        <2>3. w = Free BY <1>6
        <2>4. states' = [states EXCEPT ![k] = Free] BY <1>2, <2>3
        <2>5. \A g \in Handles \ {h} : handle[g].slot # k BY <1>6
        <2>6. handle[h].pc # "closed" BY <1>0
        <2> QED BY <1>0, <2>2, <2>4, <2>5, <2>6, FreeShape, RestLeaves
    <1>7. CASE used
        <2>1. ~last /\ current' = current BY <1>0, <1>5, <1>7
        <2>2. w = IF current = k THEN [State(h) EXCEPT !.refs = @ - 1] ELSE State(h) BY <1>7, <2>1
        <2>3. /\ Fields \subseteq DOMAIN w /\ \A x \in Fields \ {"refs"} : w[x] = states[k][x]
              /\ current = k => w.refs = State(h).refs - 1
            BY <1>1, <2>2 DEF Fields, State
        <2>4. w.path = states[k].path BY <2>3 DEF Fields
        <2> HIDE DEF w, used, last
        <2>5. Comes(Rest, w, k) BY <1>1, <2>3, FreeShape DEF Comes
        <2>6. Beside(h, Rest, w, k) BY <1>1, <2>3, FreeShape DEF Beside
        <2>7. ASSUME current' # 0
              PROVE  states'[current'].refs = Cardinality({g \in Handles : handle'[g].slot = current'})
            <3>0. current \in Slots /\ current # 0 BY <2>1, <2>7 DEF PathInv, Shapes
            <3>1. CASE current = k
                <4>1. {g \in Handles : handle'[g].slot = current'} = S \ {h}
                    BY <1>0, <1>1, <2>1, <3>1, FreeShape
                <4>2. h \in S BY <3>1
                <4>3. Cardinality(S \ {h}) = Cardinality(S) - 1 BY <1>3, <4>2, FS_RemoveElement
                <4>4. states'[current'].refs = State(h).refs - 1 BY <1>1, <1>2, <2>1, <2>3, <3>1
                <4> QED BY <1>4, <3>1, <4>1, <4>3, <4>4
            <3>2. CASE current # k
                <4>1. {g \in Handles : handle'[g].slot = current'} = S
                    BY <1>0, <1>1, <2>1, <3>0, <3>2, FreeShape
                <4>2. states[current].refs = Cardinality(S) BY <3>0 DEF PathInv, Slotted
                <4>3. states'[current'] = states[current] BY <1>1, <1>2, <2>1, <3>0, <3>2
                <4> QED BY <4>1, <4>2, <4>3
            <3> QED BY <3>1, <3>2
        <2>8. handle[h].slot \in {0, k} /\ handle[h].pc \notin Sync BY <1>0 DEF Sync
        <2>9. current' = k => w.path \in tracked \cup {""} \/ (current = k /\ w.path = states[k].path)
            BY <2>1, <2>4
        <2>10. handle' = [handle EXCEPT ![h] = Rest] /\ UNCHANGED <<storeVars, dir, tracked, mounted, recovery>>
            BY <1>0
        <2> HIDE DEF k, S
        <2> QED BY <1>1, <1>2, <2>1, <2>5, <2>6, <2>7, <2>8, <2>9, <2>10, Reslotting
    <1> QED BY <1>6, <1>7

LEMMA OpenPath ==
    ASSUME PathInv, Loosed, NEW h \in Handles, NEW trunc \in BOOLEAN, Open(h, trunc)
    PROVE  PathInv'
    <1> DEFINE S == {g \in Handles : handle[g].slot = current}
               goal == IF trunc THEN "trunc" ELSE "open"
    <1>0. /\ mounted /\ handle[h].pc = "closed" /\ UNCHANGED <<storeVars, dir, tracked, recovery, mounted>>
        BY DEF Open
    <1>1. DOMAIN states = Slots /\ DOMAIN handle = Handles /\ current \in Slots \cup {0}
        BY Roles DEF PathInv, Shapes
    <1>2. handle[h].slot = 0 /\ (handle[h].slot # current \/ current = 0) BY <1>0 DEF PathInv, Slotted
    <1>g. goal \in {"open", "trunc"} OBVIOUS
    <1>3. \E p \in tracked :
             IF current # 0
             THEN /\ states[current].made /\ ~states[current].closed
                  /\ states' = [states EXCEPT ![current].refs = @ + 1]
                  /\ handle' = [handle EXCEPT ![h] = [Rest EXCEPT !.pc = goal, !.path = p, !.slot = current]]
                  /\ current' = current
             ELSE \E s \in Slots :
                  /\ states[s] = Free /\ states' = [states EXCEPT ![s] = Overlay(p, 0)] /\ current' = s
                  /\ handle' = [handle EXCEPT ![h] = [Rest EXCEPT !.pc = "making", !.path = p, !.slot = s,
                                                                   !.why = goal]]
        <2>1. ~Racing("materialize") /\ ~Racing("join") BY DEF Loosed, Racing
        <2> QED BY <2>1 DEF Open
    <1> HIDE DEF goal
    <1>4. PICK path \in tracked :
             IF current # 0
             THEN /\ states[current].made /\ ~states[current].closed
                  /\ states' = [states EXCEPT ![current].refs = @ + 1]
                  /\ handle' = [handle EXCEPT ![h] = [Rest EXCEPT !.pc = goal, !.path = path, !.slot = current]]
                  /\ current' = current
             ELSE \E s \in Slots :
                  /\ states[s] = Free /\ states' = [states EXCEPT ![s] = Overlay(path, 0)] /\ current' = s
                  /\ handle' = [handle EXCEPT ![h] = [Rest EXCEPT !.pc = "making", !.path = path, !.slot = s,
                                                                   !.why = goal]]
        BY <1>3
    <1>5. handle[h].slot = 0 /\ handle[h].pc \notin Sync BY <1>0 DEF PathInv, Slotted, Sync
    <1>6. CASE current # 0
        <2> DEFINE p == [Rest EXCEPT !.pc = goal, !.path = path, !.slot = current]
                   w == [states[current] EXCEPT !.refs = @ + 1]
        <2>1. /\ states[current].made /\ ~states[current].closed /\ current' = current /\ current \in Slots
              /\ handle' = [handle EXCEPT ![h] = p]
            BY <1>1, <1>4, <1>6
        <2>2. states' = [states EXCEPT ![current] = w] /\ states'[current] = w
            BY <1>1, <1>4, <1>6
        <2>3. Fields \subseteq DOMAIN states[current] BY <2>1 DEF PathInv, Shapes
        <2>4. Fields \subseteq DOMAIN w /\ w.refs = states[current].refs + 1
              /\ \A x \in Fields \ {"refs"} : w[x] = states[current][x]
            BY <2>3 DEF Fields
        <2>5. w.path = states[current].path BY <2>4 DEF Fields
        <2> HIDE DEF w
        <2>6. Places \subseteq DOMAIN p /\ p.pc = goal /\ p.path = path /\ p.slot = current /\ p.stamp = -1
            BY DEF Rest, Places
        <2> HIDE DEF p
        <2>7. Comes(p, w, current) BY <1>4, <1>6, <1>g, <2>1, <2>4, <2>6 DEF Comes
        <2>8. \A g \in Handles : handle[g].pc \in {"making", "saving"} => handle[g].slot # current
            BY <2>1 DEF PathInv, Slotted
        <2>9. Beside(h, p, w, current) BY <1>g, <2>4, <2>6, <2>8 DEF Beside
        <2>10. states'[current'].refs = Cardinality({g \in Handles : handle'[g].slot = current'})
            <3>1. {g \in Handles : handle'[g].slot = current'} = S \cup {h} BY <1>1, <2>1, <2>6
            <3>2. h \notin S /\ IsFiniteSet(S) BY <1>5, <1>6, Mounts, FS_Subset
            <3>3. Cardinality(S \cup {h}) = Cardinality(S) + 1 BY <3>2, FS_AddElement
            <3>4. states[current].refs = Cardinality(S) BY <1>6 DEF PathInv, Slotted
            <3> QED BY <2>1, <2>2, <2>4, <3>1, <3>3, <3>4
        <2>11. handle[h].slot \in {0, current} BY <1>5
        <2> HIDE DEF S
        <2> QED BY <1>0, <1>5, <2>1, <2>2, <2>5, <2>7, <2>9, <2>10, <2>11, Reslotting
    <1>7. CASE current = 0
        <2>1. PICK s \in Slots :
                  /\ states[s] = Free /\ states' = [states EXCEPT ![s] = Overlay(path, 0)] /\ current' = s
                  /\ handle' = [handle EXCEPT ![h] = [Rest EXCEPT !.pc = "making", !.path = path, !.slot = s,
                                                                   !.why = goal]]
            BY <1>4, <1>7
        <2> DEFINE p == [Rest EXCEPT !.pc = "making", !.path = path, !.slot = s, !.why = goal]
                   w == Overlay(path, 0)
        <2>2. states' = [states EXCEPT ![s] = w] /\ handle' = [handle EXCEPT ![h] = p] BY <2>1
        <2>3. Fields \subseteq DOMAIN w /\ ~w.made /\ w.refs = 1 /\ w.path = path BY FreeShape
        <2> HIDE DEF w
        <2>4. /\ Places \subseteq DOMAIN p /\ p.pc = "making" /\ p.path = path /\ p.slot = s /\ p.stamp = -1
              /\ p.why = goal
            BY DEF Rest, Places
        <2> HIDE DEF p
        <2>5. \A g \in Handles : handle[g].slot # s
            <3>1. s # 0 /\ ~states[s].poisoned BY <2>1, FreeShape, Mounts
            <3> QED BY <1>7, <3>1 DEF PathInv, Slotted
        <2>6. s # 0 BY Mounts
        <2>7. Comes(p, w, s) BY <1>4, <1>g, <2>1, <2>3, <2>4, <2>6 DEF Comes
        <2>8. Beside(h, p, w, s) BY <2>5 DEF Beside
        <2>9. states'[current'].refs = Cardinality({g \in Handles : handle'[g].slot = current'})
            <3>1. {g \in Handles : handle'[g].slot = current'} = {h} BY <1>1, <2>1, <2>2, <2>4, <2>5
            <3>2. Cardinality({h}) = 1 BY FS_Singleton
            <3>3. states'[s] = w BY <1>1, <2>2
            <3> QED BY <2>1, <2>3, <3>1, <3>2, <3>3
        <2>10. handle[h].slot \in {0, s} BY <1>5
        <2> HIDE DEF S
        <2> QED BY <1>0, <1>4, <1>5, <1>7, <2>1, <2>2, <2>3, <2>7, <2>8, <2>9, <2>10, Reslotting
    <1> QED BY <1>6, <1>7

-----------------------------------------------------------------------------
(* Directory operations, and the next process.                             *)

\* The project and the mount's names move, the handles and states do not.
LEMMA Naming ==
    ASSUME PathInv, UNCHANGED <<handle, current, recovery>>, Shapes', Named', StoreKept,
           \A s \in Slots : Fields \subseteq DOMAIN states'[s]
                            /\ \A x \in Fields \ {"path"} : states'[s][x] = states[s][x],
           Under', \A h \in Handles : handle[h].pc \in Sync \ {"check"} =>
              /\ ns'[handle[h].cpath] # "stranger"
              /\ dir'.pc \in {"idle", "hub"} => ns'[handle[h].cpath] = "file"
    PROVE  PathInv'
    <1>0. Slotted /\ Sends /\ Stamped /\ Shapes BY DEF PathInv
    <1>c. current \in Slots \cup {0} BY <1>0 DEF Shapes
    <1>s. \A s \in Slots : /\ states'[s].poisoned = states[s].poisoned /\ states'[s].made = states[s].made
                           /\ states'[s].closed = states[s].closed /\ states'[s].held = states[s].held
                           /\ states'[s].refs = states[s].refs
        <2>1. {"poisoned", "made", "closed", "held", "refs"} \subseteq Fields \ {"path"} BY DEF Fields
        <2> QED BY <2>1
    <1>1. Slotted'
        <2>S. /\ \A g \in Handles : handle[g].slot \in Slots \cup {0}
              /\ \A g \in Handles : handle[g].slot = 0 <=> handle[g].pc = "closed"
              /\ \A g \in Handles : handle[g].slot # 0 => handle[g].slot = current \/ states[handle[g].slot].poisoned
              /\ \A g \in Handles : handle[g].pc = "making" =>
                    ~states[handle[g].slot].made /\ handle[g].why \in {"open", "trunc"}
              /\ \A g \in Handles : handle[g].pc = "saving" => states[handle[g].slot].closed
            BY <1>0 DEF Slotted
        <2>1. \A g \in Handles : handle[g].slot # 0 => handle[g].slot = current \/ states'[handle[g].slot].poisoned
            BY <2>S, <1>s
        <2>2. ASSUME NEW g \in Handles, handle[g].pc = "making"
              PROVE  ~states'[handle[g].slot].made /\ handle[g].why \in {"open", "trunc"}
            <3>1. handle[g].slot \in Slots BY <2>S, <2>2
            <3>2. states'[handle[g].slot].made = states[handle[g].slot].made BY <1>s, <3>1
            <3> QED BY <2>S, <2>2, <3>2
        <2>3. ASSUME NEW g \in Handles, handle[g].pc = "saving" PROVE states'[handle[g].slot].closed
            <3>1. handle[g].slot \in Slots BY <2>S, <2>3
            <3> QED BY <1>s, <2>S, <2>3, <3>1
        <2>4. current # 0 => states'[current].refs = Cardinality({h \in Handles : handle[h].slot = current})
            BY <1>0, <1>c, <1>s DEF Slotted
        <2> QED BY <1>0, <2>1, <2>2, <2>3, <2>4 DEF Slotted
    <1>2. Sends'
        <2>1. ASSUME NEW g \in Handles, handle[g].pc \in Sync
              PROVE  handle[g].slot = current /\ states'[current].held = g
            <3>1. handle[g].slot = current /\ states[current].held = g BY <1>0, <2>1 DEF Sends
            <3>2. handle[g].pc # "closed" BY <2>1 DEF Sync
            <3>3. current # 0 BY <1>0, <3>1, <3>2 DEF Slotted
            <3> QED BY <1>c, <1>s, <3>1, <3>3
        <2>2. \A g \in Handles : handle[g].pc \in Sync \ {"check"} => handle[g].cpath \in Names
            BY <1>0 DEF Sends
        <2> QED BY <2>1, <2>2 DEF Sends
    <1>3. Stamped'
        <2>1. \A g \in Handles : handle'[g].stamp \in Nat \cup {-1} /\ handle'[g].stamp <= stamp["file"]
            BY <1>0 DEF Stamped
        <2> QED BY <1>0, <2>1, StampedKept
    <1> QED BY <1>1, <1>2, <1>3 DEF PathInv

LEMMA DirStartPath ==
    ASSUME PathInv, NEW kind \in {"unlink", "rename"}, NEW src \in Names, NEW dst \in Names, DirStart(kind, src, dst)
    PROVE  PathInv'
    <1>0. Shapes /\ Named /\ Slotted /\ Under /\ Sends BY DEF PathInv
    <1>1. UNCHANGED <<ns, stored, stamp, mode, current, handle, tracked, recovery, mounted>> /\ mounted
          /\ dir.pc = "idle"
        BY DEF DirStart, storeVars
    <1>2. /\ dir' = [NoDir EXCEPT !.pc = "hub", !.kind = kind, !.src = src, !.dst = dst]
          /\ ns[src] # "none" /\ (kind = "rename" => src # dst /\ ns[dst] # ns[src])
        BY DEF DirStart
    <1>3. dir'.pc = "hub" /\ dir'.kind = kind /\ dir'.src = src /\ dir'.dst = dst
          /\ {"pc", "kind", "src", "dst", "rest"} \subseteq DOMAIN dir'
        BY <1>2 DEF NoDir
    <1>4. DOMAIN states' = Slots /\ \A s \in Slots : Fields \subseteq DOMAIN states'[s]
                            /\ \A x \in Fields : states'[s][x] = states[s][x]
        <2>0. DOMAIN states = Slots /\ \A s \in Slots : Fields \subseteq DOMAIN states[s] BY <1>0 DEF Shapes
        <2>1. CASE states' = states BY <2>0, <2>1
        <2>2. CASE current # 0 /\ states' = [states EXCEPT ![current].hasSnap = TRUE, ![current].snap = stored["file"]]
            <3>1. current \in Slots BY <1>0, <2>2 DEF Shapes
            <3>2. /\ DOMAIN states' = Slots /\ \A s \in Slots \ {current} : states'[s] = states[s]
                  /\ states'[current] = [states[current] EXCEPT !.hasSnap = TRUE, !.snap = stored["file"]]
                BY <2>0, <2>2, <3>1
            <3>3. Fields \subseteq DOMAIN states'[current] /\ \A x \in Fields : states'[current][x] = states[current][x]
                BY <2>0, <3>1, <3>2 DEF Fields
            <3> QED BY <2>0, <3>2, <3>3
        <2>3. states' = states
              \/ (current # 0 /\ states' = [states EXCEPT ![current].hasSnap = TRUE, ![current].snap = stored["file"]])
            BY DEF DirStart, NeedsSnap
        <2> QED BY <2>1, <2>2, <2>3
    <1>5. Shapes' BY <1>0, <1>1, <1>3, <1>4 DEF Shapes
    <1>6. Named'
        <2>1. Filed' = Filed BY <1>1 DEF Filed
        <2>2. Filed = tracked BY <1>0, <1>1 DEF Named
        <2> QED BY <1>1, <1>2, <1>3, <2>1, <2>2 DEF Named
    <1>7. Under'
        <2>1. current # 0 => current \in Slots /\ states'[current].path = states[current].path
            BY <1>0, <1>4 DEF Shapes, Fields
        <2> QED BY <1>0, <1>1, <1>3, <2>1 DEF Under
    <1>8. \A h \in Handles : handle[h].pc \in Sync \ {"check"} =>
              /\ ns'[handle[h].cpath] # "stranger"
              /\ dir'.pc \in {"idle", "hub"} => ns'[handle[h].cpath] = "file"
        BY <1>0, <1>1 DEF Sends
    <1>9. StoreKept BY <1>0, <1>1 DEF Shapes, StoreKept
    <1> QED BY <1>1, <1>4, <1>5, <1>6, <1>7, <1>8, <1>9, Naming

LEMMA DirHubPath ==
    ASSUME PathInv, Loosed, DirHub
    PROVE  PathInv'
    <1>0. Shapes /\ Named /\ Slotted /\ Under /\ Sends BY DEF PathInv
    <1>1. UNCHANGED <<stored, stamp, mode, states, current, handle, tracked, recovery, mounted>> /\ mounted
          /\ dir.pc = "hub" /\ dir.kind \in {"unlink", "rename"} /\ dir.src \in Names /\ dir.dst \in Names
          /\ (dir.kind = "rename" => dir.src # dir.dst /\ ns[dir.src] # "none" /\ ns[dir.src] # ns[dir.dst])
        BY <1>0 DEF DirHub, Named
    <1>2. Filed = tracked /\ ns \in [Names -> Files \cup {"none"}] /\ tracked \subseteq Names
        BY <1>0, <1>1 DEF Named, Shapes
    <1>3. StoreKept BY <1>0, <1>1 DEF Shapes, StoreKept
    <1>4. \A s \in Slots : Fields \subseteq DOMAIN states'[s]
                            /\ \A x \in Fields \ {"path"} : states'[s][x] = states[s][x]
        BY <1>0, <1>1 DEF Shapes
    <1>5. CASE dir' = NoDir /\ UNCHANGED ns
        <2>1. dir'.pc = "idle" /\ {"pc", "kind", "src", "dst", "rest"} \subseteq DOMAIN dir' BY <1>5 DEF NoDir
        <2>2. Shapes' BY <1>0, <1>1, <1>5, <2>1 DEF Shapes
        <2>3. Named'
            <3>1. Filed' = Filed BY <1>5 DEF Filed
            <3> QED BY <1>1, <1>2, <2>1, <3>1 DEF Named
        <2>4. Under' BY <1>0, <1>1, <2>1 DEF Under
        <2>5. \A h \in Handles : handle[h].pc \in Sync \ {"check"} =>
              /\ ns'[handle[h].cpath] # "stranger"
              /\ dir'.pc \in {"idle", "hub"} => ns'[handle[h].cpath] = "file"
            BY <1>0, <1>1, <1>5 DEF Sends
        <2> QED BY <1>1, <1>3, <1>4, <2>2, <2>3, <2>4, <2>5, Naming
    <1>6. CASE /\ Racing("rename") \/ ~(Sending \/ Making) \/ ~(dir.kind = "rename" /\ ns[dir.dst] = "file")
               /\ ns' = IF dir.kind = "rename" THEN Renamed ELSE [ns EXCEPT ![dir.src] = "none"]
               /\ dir' = [dir EXCEPT !.pc = "handles"]
        <2>1. /\ dir'.pc = "handles" /\ dir'.kind = dir.kind /\ dir'.src = dir.src /\ dir'.dst = dir.dst
              /\ {"pc", "kind", "src", "dst", "rest"} \subseteq DOMAIN dir'
            BY <1>0, <1>6 DEF Shapes
        <2>2. /\ ns' \in [Names -> Files \cup {"none"}] /\ ns'[dir.src] = "none"
              /\ dir.kind = "rename" => /\ ns'[dir.dst] = ns[dir.src]
                                        /\ \A n \in Names \ {dir.src, dir.dst} : ns'[n] = ns[n]
              /\ dir.kind # "rename" => \A n \in Names \ {dir.src} : ns'[n] = ns[n]
            BY <1>1, <1>2, <1>6 DEF Renamed
        <2>3. Shapes' BY <1>0, <1>1, <2>1, <2>2 DEF Shapes
        <2>4. Named'
            <3>1. Filed' = IF dir.kind = "rename" /\ dir.src \in tracked THEN (tracked \ {dir.src}) \cup {dir.dst}
                           ELSE tracked \ {Moves}
                <4>1. \A n \in Names : n \in tracked <=> ns[n] = "file" BY <1>2 DEF Filed
                <4>2. CASE dir.kind = "rename" /\ dir.src \in tracked
                    <5>1. ns[dir.src] = "file" BY <4>1, <4>2, <1>1
                    <5>2. Filed' = (tracked \ {dir.src}) \cup {dir.dst}
                        BY <1>1, <1>2, <2>2, <4>1, <4>2, <5>1 DEF Filed
                    <5> QED BY <4>2, <5>2
                <4>3. CASE dir.kind = "rename" /\ dir.src \notin tracked
                    <5>1. ns[dir.src] # "file" /\ Moves = dir.dst BY <4>1, <4>3, <1>1 DEF Moves
                    <5>2. Filed' = tracked \ {dir.dst} BY <1>1, <1>2, <2>2, <4>1, <4>3, <5>1 DEF Filed
                    <5> QED BY <4>3, <5>1, <5>2
                <4>4. CASE dir.kind # "rename"
                    <5>1. Moves = dir.src BY <4>4 DEF Moves
                    <5>2. Filed' = tracked \ {dir.src} BY <1>1, <1>2, <2>2, <4>1, <4>4 DEF Filed
                    <5> QED BY <4>4, <5>1, <5>2
                <4> QED BY <4>2, <4>3, <4>4
            <3>2. Moves' = Moves BY <1>1, <2>1 DEF Moves
            <3> HIDE DEF Moves
            <3> QED BY <1>1, <2>1, <2>2, <3>1, <3>2 DEF Named
        <2>5. Under' BY <1>0, <1>1, <2>1 DEF Under
        <2>6. ASSUME NEW h \in Handles, handle[h].pc \in Sync \ {"check"}
              PROVE  /\ ns'[handle[h].cpath] # "stranger"
                     /\ dir'.pc \in {"idle", "hub"} => ns'[handle[h].cpath] = "file"
            <3>1. handle[h].cpath \in Names /\ ns[handle[h].cpath] = "file" BY <1>0, <1>1, <2>6 DEF Sends
            <3>2. Sending BY <2>6 DEF Sending, Sync
            <3>3. ~(dir.kind = "rename" /\ ns[dir.dst] = "file") BY <1>6, <3>2 DEF Loosed, Racing
            <3>4. dir.kind = "rename" => handle[h].cpath # dir.dst BY <3>1, <3>3
            <3>5. ns'[handle[h].cpath] \in {"file", "none"} BY <2>2, <3>1, <3>4
            <3> QED BY <2>1, <3>5
        <2> QED BY <1>1, <1>3, <1>4, <2>3, <2>4, <2>5, <2>6, Naming
    <1> QED BY <1>5, <1>6 DEF DirHub

\* dropPath and remapPaths: what the mount knows is what the file is called again.
LEMMA DirHandlesPath ==
    ASSUME PathInv, DirHandles
    PROVE  PathInv'
    <1>0. Shapes /\ Named /\ Slotted /\ Under /\ Sends /\ Stamped BY DEF PathInv
    <1>1. PICK next \in Successors(Moves) :
             /\ dir' = [dir EXCEPT !.pc = "states", !.src = Moves, !.rest = next]
             /\ tracked' = IF Moves \in tracked THEN (tracked \ {Moves}) \cup ({next} \ {""}) ELSE tracked
             /\ handle' = [h \in Handles |->
                   IF handle[h].slot # 0 /\ handle[h].path = Moves THEN [handle[h] EXCEPT !.path = next]
                   ELSE handle[h]]
        BY DEF DirHandles
    <1>2. UNCHANGED <<ns, stored, stamp, mode, states, current, recovery, mounted>> /\ mounted
          /\ dir.pc = "handles" /\ dir.kind \in {"unlink", "rename"} /\ dir.src \in Names /\ dir.dst \in Names
          /\ (dir.kind = "rename" => dir.src # dir.dst)
        BY <1>0 DEF DirHandles, Named, storeVars
    <1>3. /\ Filed = IF dir.kind = "rename" /\ dir.src \in tracked THEN (tracked \ {dir.src}) \cup {dir.dst}
                     ELSE tracked \ {Moves}
          /\ tracked \subseteq Names
        BY <1>0, <1>2 DEF Named, Shapes
    <1>4. Filed = tracked' /\ (Moves \in tracked => next \in tracked' \cup {""})
          /\ (Moves \notin tracked => tracked' = tracked)
          /\ next \in tracked' \cup {""}
        <2>1. CASE dir.kind = "rename" /\ dir.src \in tracked
            <3>1. Moves = dir.src BY <2>1 DEF Moves
            <3>2. next = dir.dst BY <1>1, <2>1, <3>1 DEF Successors
            <3>3. dir.dst # "" BY <1>2, Mounts
            <3>4. tracked' = (tracked \ {dir.src}) \cup {dir.dst} BY <1>1, <2>1, <3>1, <3>2, <3>3
            <3>5. Filed = (tracked \ {dir.src}) \cup {dir.dst} BY <1>3, <2>1
            <3> HIDE DEF Filed, Moves
            <3>6. Filed = tracked' BY <3>4, <3>5
            <3>7. next \in tracked' BY <3>2, <3>4
            <3> QED BY <2>1, <3>1, <3>6, <3>7
        <2>2. CASE ~(dir.kind = "rename" /\ dir.src \in tracked)
            <3>1. ~(dir.kind = "rename" /\ Moves = dir.src) BY <1>2, <2>2 DEF Moves
            <3>2. next \in IF tracked \ {Moves} = {} THEN {""} ELSE tracked \ {Moves}
                BY <1>1, <3>1 DEF Successors
            <3>3. "" \notin tracked BY <1>3, Mounts
            <3>4. Filed = tracked \ {Moves} BY <1>3, <2>2
            <3> HIDE DEF Filed, Moves
            <3>5. next = "" \/ next \in tracked \ {Moves} BY <3>2
            <3>6. tracked' = tracked \ {Moves} BY <1>1, <3>5
            <3> QED BY <3>4, <3>5, <3>6
        <2> QED BY <2>1, <2>2
    <1>5. /\ dir'.pc = "states" /\ dir'.kind = dir.kind /\ dir'.src = Moves /\ dir'.dst = dir.dst /\ dir'.rest = next
          /\ {"pc", "kind", "src", "dst", "rest"} \subseteq DOMAIN dir'
        BY <1>0, <1>1 DEF Shapes
    <1>6. \A h \in Handles : Places \subseteq DOMAIN handle[h] BY <1>0 DEF Shapes
    <1>7. /\ DOMAIN handle' = Handles
          /\ \A h \in Handles : /\ Places \subseteq DOMAIN handle'[h]
                                /\ \A x \in {"pc", "slot", "cpath", "why", "stamp"} : handle'[h][x] = handle[h][x]
        BY <1>1, <1>6 DEF Places
    <1>8. \A h \in Handles : /\ handle'[h].pc = handle[h].pc /\ handle'[h].slot = handle[h].slot
                             /\ handle'[h].cpath = handle[h].cpath /\ handle'[h].why = handle[h].why
                             /\ handle'[h].stamp = handle[h].stamp
        BY <1>7
    <1>9. \A h \in Handles : handle'[h].path =
             IF handle[h].slot # 0 /\ handle[h].path = Moves THEN next ELSE handle[h].path
        BY <1>1, <1>6 DEF Places
    <1>10. Filed' = Filed /\ Moves \in Names BY <1>2 DEF Filed, Moves
    <1> HIDE DEF Moves, Filed
    <1>11. Shapes'
        <2>1. tracked' \subseteq Names BY <1>4, <1>10 DEF Filed
        <2> QED BY <1>0, <1>2, <1>5, <1>7, <2>1 DEF Shapes
    <1>12. Named' BY <1>2, <1>4, <1>5, <1>10 DEF Named
    <1>13. Slotted'
        <2>1. \A c : {h \in Handles : handle'[h].slot = c} = {h \in Handles : handle[h].slot = c} BY <1>8
        <2>2. current # 0 => states[current].refs = Cardinality({h \in Handles : handle'[h].slot = current})
            BY <1>0, <2>1 DEF Slotted
        <2>3. current' # 0 => states'[current'].refs = Cardinality({h \in Handles : handle'[h].slot = current'})
            BY <1>2, <2>2
        <2> QED BY <1>0, <1>2, <1>8, <2>3 DEF Slotted
    <1>14. Under'
        <2>1. ASSUME NEW h \in Handles, handle'[h].slot # 0 PROVE handle'[h].path \in tracked' \cup {""}
            <3>1. handle[h].slot # 0 /\ handle[h].path \in tracked \cup {""} BY <1>0, <1>8, <2>1 DEF Under
            <3>2. CASE handle[h].path = Moves BY <1>4, <1>9, <3>1, <3>2
            <3>3. CASE handle[h].path # Moves
                <4>1. handle'[h].path = handle[h].path BY <1>9, <3>3
                <4>2. tracked \ {Moves} \subseteq tracked' BY <1>1, <1>4
                <4> QED BY <3>1, <3>3, <4>1, <4>2
            <3> QED BY <3>2, <3>3
        <2>2. ASSUME current' # 0
              PROVE  states'[current'].path \in tracked' \cup {""} \cup (IF dir'.pc = "states" THEN {dir'.src} ELSE {})
            <3>1. current # 0 /\ states'[current'].path = states[current].path BY <1>2, <2>2
            <3>2. states[current].path \in tracked \cup {""} BY <1>0, <1>2, <3>1 DEF Under
            <3>3. tracked \ {Moves} \subseteq tracked' BY <1>1, <1>4
            <3> QED BY <1>5, <3>1, <3>2, <3>3
        <2> QED BY <2>1, <2>2 DEF Under
    <1>15. Sends'
        <2>1. \A g \in Handles : handle'[g].pc \in Sync => handle'[g].slot = current' /\ states'[current'].held = g
            BY <1>0, <1>2, <1>8 DEF Sends
        <2>2. \A g \in Handles : handle'[g].pc \in Sync \ {"check"} =>
                 handle'[g].cpath \in Names /\ ns'[handle'[g].cpath] # "stranger"
            BY <1>0, <1>2, <1>8 DEF Sends
        <2> QED BY <1>5, <2>1, <2>2 DEF Sends
    <1>16. Stamped'
        <2>1. StoreKept BY <1>0, <1>2 DEF Shapes, StoreKept
        <2>2. \A g \in Handles : handle'[g].stamp \in Nat \cup {-1} /\ handle'[g].stamp <= stamp["file"]
            BY <1>0, <1>8 DEF Stamped
        <2> QED BY <1>0, <1>2, <2>1, <2>2, StampedKept
    <1> QED BY <1>11, <1>12, <1>13, <1>14, <1>15, <1>16 DEF PathInv

LEMMA DirStatesPath ==
    ASSUME PathInv, DirStates
    PROVE  PathInv'
    <1>0. Shapes /\ Named /\ Slotted /\ Under /\ Sends BY DEF PathInv
    <1>1. UNCHANGED <<ns, stored, stamp, mode, current, handle, tracked, recovery, mounted>> /\ mounted
          /\ dir.pc = "states" /\ dir.rest \in tracked \cup {""} /\ ~Committing /\ dir' = NoDir
        BY <1>0 DEF DirStates, Named, storeVars
    <1>2. dir'.pc = "idle" /\ {"pc", "kind", "src", "dst", "rest"} \subseteq DOMAIN dir' BY <1>1 DEF NoDir
    <1>3. /\ DOMAIN states' = Slots
          /\ \A s \in Slots : Fields \subseteq DOMAIN states'[s]
                            /\ \A x \in Fields \ {"path"} : states'[s][x] = states[s][x]
          /\ current # 0 => states'[current].path =
                IF states[current].path = dir.src THEN dir.rest ELSE states[current].path
        <2>0. DOMAIN states = Slots /\ (\A s \in Slots : Fields \subseteq DOMAIN states[s]) /\ current \in Slots \cup {0}
            BY <1>0 DEF Shapes
        <2>1. CASE current # 0 /\ states[current].path = dir.src
            <3>1. states' = [states EXCEPT ![current].path = dir.rest, ![current].deleted = dir.rest = ""]
                BY <2>1 DEF DirStates
            <3>2. /\ DOMAIN states' = Slots /\ \A s \in Slots \ {current} : states'[s] = states[s]
                  /\ states'[current] = [states[current] EXCEPT !.path = dir.rest, !.deleted = dir.rest = ""]
                BY <2>0, <2>1, <3>1
            <3> DEFINE z == dir.rest = ""
            <3>3. states'[current] = [states[current] EXCEPT !.path = dir.rest, !.deleted = z] BY <3>2
            <3> HIDE DEF z
            <3>4. /\ Fields \subseteq DOMAIN states'[current] /\ states'[current].path = dir.rest
                  /\ \A x \in Fields \ {"path"} : states'[current][x] = states[current][x]
                BY <2>0, <2>1, <3>3 DEF Fields
            <3> QED BY <2>0, <2>1, <3>2, <3>4
        <2>2. CASE ~(current # 0 /\ states[current].path = dir.src)
            <3>1. states' = states BY <2>2 DEF DirStates
            <3> QED BY <2>0, <2>2, <3>1
        <2> QED BY <2>1, <2>2
    <1>4. Shapes' BY <1>0, <1>1, <1>2, <1>3 DEF Shapes
    <1>5. Named'
        <2>1. Filed' = Filed BY <1>1 DEF Filed
        <2>2. Filed = tracked BY <1>0, <1>1 DEF Named
        <2> QED BY <1>1, <1>2, <2>1, <2>2 DEF Named
    <1>6. Under' BY <1>0, <1>1, <1>2, <1>3 DEF Under
    <1>7. \A h \in Handles : handle[h].pc \notin Sync
        <2> SUFFICES ASSUME NEW h \in Handles, handle[h].pc \in Sync PROVE FALSE OBVIOUS
        <2>1. handle[h].slot = current /\ states[current].held = h BY <1>0 DEF Sends
        <2>2. handle[h].pc # "closed" BY DEF Sync
        <2>3. current # 0 BY <1>0, <2>1, <2>2 DEF Slotted
        <2> QED BY <1>1, <2>1, <2>3, Mounts DEF Committing
    <1>8. StoreKept BY <1>0, <1>1 DEF Shapes, StoreKept
    <1> QED BY <1>1, <1>3, <1>4, <1>5, <1>6, <1>7, <1>8, Naming

LEMMA LinkPath ==
    ASSUME PathInv, NEW n \in Names, Link(n)
    PROVE  PathInv'
    <1>0. Shapes /\ Named /\ Slotted /\ Under /\ Sends BY DEF PathInv
    <1>1. UNCHANGED <<stored, mode, states, current, handle, dir, recovery, mounted>> /\ mounted /\ dir.pc = "idle"
          /\ ns[n] = "none" /\ ns' = [ns EXCEPT ![n] = "file"] /\ tracked' = tracked \cup {n} /\ Bump("file")
        BY DEF Link
    <1>2. StoreKept BY <1>1, Bumping
    <1>3. \A s \in Slots : Fields \subseteq DOMAIN states'[s]
                            /\ \A x \in Fields \ {"path"} : states'[s][x] = states[s][x]
        BY <1>0, <1>1 DEF Shapes
    <1>4. Shapes'
        <2>1. "file" \in Files BY Mounts
        <2> QED BY <1>0, <1>1, <1>2, <2>1 DEF Shapes, StoreKept
    <1>5. Named'
        <2>1. Filed = tracked /\ ns \in [Names -> Files \cup {"none"}] BY <1>0, <1>1 DEF Named, Shapes
        <2>2. Filed' = Filed \cup {n} BY <1>1, <2>1 DEF Filed
        <2> QED BY <1>1, <2>1, <2>2 DEF Named
    <1>6. Under' BY <1>0, <1>1 DEF Under
    <1>7. ASSUME NEW h \in Handles, handle[h].pc \in Sync \ {"check"}
          PROVE  /\ ns'[handle[h].cpath] # "stranger"
                 /\ dir'.pc \in {"idle", "hub"} => ns'[handle[h].cpath] = "file"
        <2>1. handle[h].cpath \in Names /\ ns[handle[h].cpath] = "file" BY <1>0, <1>1, <1>7 DEF Sends
        <2>2. ns'[handle[h].cpath] = "file" BY <1>0, <1>1, <2>1 DEF Shapes
        <2> QED BY <2>2
    <1> QED BY <1>1, <1>2, <1>3, <1>4, <1>5, <1>6, <1>7, Naming

\* The process is gone; what it saved is what the file was.
LEMMA EndPath ==
    ASSUME PathInv, Loosed, Close \/ Crash
    PROVE  PathInv'
    <1>0. Shapes /\ Stamped BY DEF PathInv
    <1>1. /\ mounted' = FALSE /\ handle' = [h \in Handles |-> Rest] /\ dir' = NoDir
          /\ states' = [s \in Slots |-> Free] /\ current' = 0 /\ tracked' = {}
          /\ UNCHANGED <<ns, stored, stamp, mode>>
        BY DEF Close, Crash, Ended, storeVars
    <1>2. Shapes' BY <1>0, <1>1, FreeShape DEF Shapes, NoDir
    <1>3. Named' BY <1>1, FreeShape DEF Named, NoDir
    <1>4. Slotted' BY <1>1, FreeShape DEF Slotted
    <1>5. Under' BY <1>1, FreeShape DEF Under
    <1>6. Sends' BY <1>1, FreeShape DEF Sends, Sync
    <1>7. Stamped'
        <2>1. stamp["file"] \in Nat BY <1>0, Mounts DEF Shapes
        <2>2. \A h \in Handles : handle'[h].stamp = -1 BY <1>1, FreeShape
        <2>3. ASSUME NEW e \in recovery', e \notin recovery
              PROVE  e.stamp = -1 \/ (e.stamp = stamp["file"] /\ e.over = stored["file"])
            <3>1. CASE Crash
                <4>1. PICK s \in Slots : e = [Saved(states[s], FALSE, -1) EXCEPT !.target = ""]
                    BY <2>3, <3>1 DEF Crash
                <4> QED BY <4>1 DEF Saved
            <3>2. CASE Close
                <4>1. \E w, full : \/ e = [Saved(w, full, -1) EXCEPT !.target = ""]
                                   \/ \E x \in {-1, stamp["file"]} : e = Saved(w, full, x)
                    <5>1. PICK p \in {q \in Slots : q = current} \cup {0} :
                             /\ current # 0 => p = current /\ Untaken(states[p])
                             /\ recovery' =
                                  IF p = 0 \/ states[p].closed THEN recovery
                                  ELSE LET w == states[p]
                                       IN  IF w.held # "" THEN recovery \cup {[Saved(w, FALSE, -1) EXCEPT !.target = ""]}
                                           ELSE IF ~Uncommitted(w) THEN recovery
                                           ELSE recovery \cup {Saved(w, TRUE, Fingerprint(w.path))}
                        BY <3>2 DEF Close
                    <5> DEFINE w == states[p]
                    <5>2. p # 0 /\ p = current /\ current # 0 /\ Untaken(w) BY <2>3, <5>1
                    <5>3. \/ e = [Saved(w, FALSE, -1) EXCEPT !.target = ""]
                          \/ e = Saved(w, TRUE, Fingerprint(w.path))
                        BY <2>3, <5>1
                    <5>4. w.path \in Names \cup {""}
                        <6>1. tracked \subseteq Names BY <1>0 DEF Shapes
                        <6>2. w.path \in tracked \cup {""} \cup (IF dir.pc = "states" THEN {dir.src} ELSE {})
                            BY <5>2 DEF PathInv, Under
                        <6> QED BY <6>1, <6>2, <1>0 DEF PathInv, Named
                    <5> HIDE DEF w
                    <5>5. Fingerprint(w.path) \in {-1, stamp["file"]} BY <5>2, <5>4, FileStamps
                    <5> QED BY <5>3, <5>5
                <4>2. \A w, full : [Saved(w, full, -1) EXCEPT !.target = ""].stamp = -1 BY DEF Saved
                <4>3. \A w, full, x : Saved(w, full, x).stamp = x /\ Saved(w, full, x).over = stored["file"]
                    BY DEF Saved
                <4>4. PICK w, full : \/ e = [Saved(w, full, -1) EXCEPT !.target = ""]
                                    \/ \E x \in {-1, stamp["file"]} : e = Saved(w, full, x)
                    BY <4>1
                <4>5. CASE e = [Saved(w, full, -1) EXCEPT !.target = ""]
                    <5>1. e.stamp = -1 BY <4>2, <4>5
                    <5> QED BY <5>1
                <4>6. CASE \E x \in {-1, stamp["file"]} : e = Saved(w, full, x)
                    <5>1. PICK x \in {-1, stamp["file"]} : e = Saved(w, full, x) BY <4>6
                    <5>2. e.stamp = x /\ e.over = stored["file"] BY <4>3, <5>1
                    <5> QED BY <5>1, <5>2
                <4> QED BY <4>4, <4>5, <4>6
            <3> QED BY <3>1, <3>2
        <2>4. ASSUME NEW e \in recovery'
              PROVE  /\ e.stamp \in Nat \cup {-1} /\ e.stamp <= stamp'["file"]
                     /\ e.stamp = stamp'["file"] => e.over = stored'["file"]
            <3>1. CASE e \in recovery BY <1>0, <1>1, <3>1 DEF Stamped
            <3>2. CASE e.stamp = -1 BY <1>1, <2>1, <3>2
            <3>3. CASE e.stamp = stamp["file"] /\ e.over = stored["file"] BY <1>1, <2>1, <3>3
            <3> QED BY <2>3, <3>1, <3>2, <3>3
        <2> QED BY <1>1, <2>1, <2>2, <2>4 DEF Stamped
    <1> QED BY <1>2, <1>3, <1>4, <1>5, <1>6, <1>7 DEF PathInv

\* An entry matches the file it was taken over, or nothing.
LEMMA Matched ==
    ASSUME PathInv, NEW e \in recovery, Matches(e)
    PROVE  /\ Reached(e.target) = "file" /\ Content(e.target) = stored["file"]
           /\ e.stamp = stamp["file"] /\ e.target # "" /\ e.stamp # -1
    <1>1. stamp \in [Files -> Nat] /\ "stranger" \in Files BY Mounts DEF PathInv, Shapes
    <1>2. stamp["stranger"] \in Nat BY <1>1
    <1>3. e.stamp \in Nat \cup {-1} BY DEF PathInv, Stamped
    <1>4. e.target # "" /\ e.stamp # -1 /\ e.stamp = Fingerprint(e.target) BY DEF Matches
    <1>5. e.stamp # -2 - stamp["stranger"] BY <1>2, <1>3
    <1>6. Reached(e.target) = "file" BY <1>4, <1>5 DEF Fingerprint
    <1>7. Fingerprint(e.target) = stamp["file"] BY <1>6 DEF Fingerprint
    <1> QED BY <1>4, <1>6, <1>7 DEF Content

\* Between two mounts: the file changes, entries go, and the next mount reads the names.
LEMMA BetweenPath ==
    ASSUME PathInv, Rival \/ Mount \/ \E e \in recovery : Redrive(e)
    PROVE  PathInv'
    <1>0. Shapes /\ Named /\ Slotted /\ Under /\ Sends /\ Stamped BY DEF PathInv
    <1>1. /\ ~mounted /\ UNCHANGED <<ns, states, current, handle, dir>> /\ recovery' \subseteq recovery
          /\ \/ mounted' = mounted /\ tracked' = tracked
             \/ mounted' = TRUE /\ tracked' = Filed
        BY DEF Rival, Mount, Redrive, storeVars, Filed
    <1>2. current = 0 /\ dir.pc = "idle" /\ \A h \in Handles : handle[h].pc = "closed" /\ handle[h].slot = 0
        BY <1>0, <1>1 DEF Named, Slotted
    <1>3. StoreKept
        <2>1. CASE Mount BY <1>0, <2>1 DEF Mount, storeVars, Shapes, StoreKept
        <2>2. CASE Rival
            <3>1. Bump("file") /\ DOMAIN stored' = DOMAIN stored /\ DOMAIN mode' = DOMAIN mode BY <2>2 DEF Rival
            <3> QED BY <3>1, Bumping
        <2>3. CASE \E e \in recovery : Redrive(e)
            <3>0. PICK e \in recovery : Redrive(e) BY <2>3
            <3>1. Bump("file") /\ DOMAIN stored' = DOMAIN stored /\ DOMAIN mode' = DOMAIN mode
                BY <3>0, Matched DEF Redrive
            <3> QED BY <3>1, Bumping
        <2> QED BY <2>1, <2>2, <2>3
    <1>4. Filed' = Filed /\ Filed \subseteq Names BY <1>1 DEF Filed
    <1>5. Shapes'
        <2>1. tracked' \subseteq Names BY <1>0, <1>1, <1>4 DEF Shapes
        <2> QED BY <1>0, <1>1, <1>3, <2>1 DEF Shapes, StoreKept
    <1>6. Named' BY <1>1, <1>2, <1>4 DEF Named
    <1>7. Slotted' BY <1>0, <1>1 DEF Slotted
    <1>8. Under' BY <1>1, <1>2 DEF Under
    <1>9. Sends' BY <1>1, <1>2 DEF Sends, Sync
    <1>10. Stamped'
        <2>1. \A g \in Handles : handle'[g].stamp \in Nat \cup {-1} /\ handle'[g].stamp <= stamp["file"]
            BY <1>0, <1>1 DEF Stamped
        <2> QED BY <1>0, <1>1, <1>3, <2>1, StampedKept
    <1> QED BY <1>5, <1>6, <1>7, <1>8, <1>9, <1>10 DEF PathInv

LEMMA PathInit == FileInit => PathInv
    <1> SUFFICES ASSUME FileInit PROVE PathInv OBVIOUS
    <1>1. PICK i \in Scenarios : ns = i.ns /\ stored = i.stored /\ tracked = {n \in Names : i.ns[n] = "file"}
        BY DEF FileInit
    <1>2. /\ stamp = [f \in Files |-> 0] /\ mode = [f \in Files |-> 0]
          /\ states = [s \in Slots |-> Free] /\ current = 0
          /\ handle = [h \in Handles |-> Rest] /\ dir = NoDir
          /\ recovery = {} /\ mounted = TRUE
        BY DEF FileInit
    <1>3. ns \in [Names -> {"none", "file", "stranger"}] /\ {"file", "stranger"} \subseteq DOMAIN stored
        BY <1>1, FuseAssumption
    <1>4. Filed = tracked /\ tracked \subseteq Names BY <1>1 DEF Filed
    <1>5. dir.pc = "idle" /\ {"pc", "kind", "src", "dst", "rest"} \subseteq DOMAIN dir BY <1>2 DEF NoDir
    <1>6. ns \in [Names -> Files \cup {"none"}]
        <2>1. {"none", "file", "stranger"} = Files \cup {"none"} BY DEF Files
        <2> QED BY <1>3, <2>1
    <1>7. Shapes BY <1>2, <1>3, <1>4, <1>5, <1>6, FreeShape, Mounts DEF Shapes
    <1>8. Named BY <1>2, <1>4, <1>5 DEF Named
    <1>9. Slotted BY <1>2, FreeShape DEF Slotted
    <1>10. Under BY <1>2, FreeShape DEF Under
    <1>11. Sends BY <1>2, FreeShape DEF Sends, Sync
    <1>12. Stamped
        <2>1. \A h \in Handles : handle[h].stamp = -1 BY <1>2, FreeShape
        <2>2. stamp["file"] = 0 BY <1>2, Mounts
        <2> QED BY <1>2, <2>1, <2>2 DEF Stamped
    <1> QED BY <1>7, <1>8, <1>9, <1>10, <1>11, <1>12 DEF PathInv

LEMMA PathStep == Loosed /\ PathInv /\ [Next]_vars => PathInv'
    <1> SUFFICES ASSUME Loosed, PathInv, [Next]_vars PROVE PathInv' OBVIOUS
    <1>1. ASSUME NEW h \in Handles, NEW trunc \in BOOLEAN, Open(h, trunc) PROVE PathInv'
        BY <1>1, OpenPath
    <1>2. ASSUME NEW h \in Handles, Materialize(h) \/ TruncateOpen(h) PROVE PathInv'
        BY <1>2, MakePath, TruncatePath
    <1>3. ASSUME NEW h \in Handles,
                 \/ \E w \in Writes : Write(h, w[1], w[2])
                 \/ \E n \in Sizes : SetSize(h, n) \/ Allocate(h, n)
                 \/ StageMode(h)
          PROVE  PathInv'
        BY <1>3, DataPath
    <1>4. ASSUME NEW h \in Handles, CommitStart(h, "flush") \/ (Answered(h) /\ CommitStart(h, "release"))
          PROVE  PathInv'
        BY <1>4, StartPath
    <1>5. ASSUME NEW h \in Handles, CommitPlan(h) \/ CommitVerb(h) \/ CommitTrim(h) \/ CommitFinish(h)
          PROVE  PathInv'
        BY <1>5, PlanPath, VerbPath, TrimPath, FinishPath
    <1>6. ASSUME NEW h \in Handles,
                 Unlock(h) \/ QuarantineStart(h) \/ QuarantineSave(h) \/ Delete(h) \/ LastClose(h) \/ Drop(h)
          PROVE  PathInv'
        BY <1>6, ClosePath, SavePath, DropPath
    <1>7. CASE UNCHANGED fileVars
        <2>1. UNCHANGED <<ns, stored, stamp, mode, states, current, handle, dir, tracked, recovery, mounted>>
            BY <1>7 DEF fileVars
        <2>2. Shapes' /\ Under' /\ Sends' BY <2>1 DEF PathInv, Shapes, Under, Sends
        <2>3. Named'
            <3>1. Filed' = Filed /\ Moves' = Moves BY <2>1 DEF Filed, Moves
            <3> HIDE DEF Filed, Moves
            <3> QED BY <2>1, <3>1 DEF PathInv, Named
        <2>4. Slotted' BY <2>1 DEF PathInv, Slotted
        <2>5. Stamped' BY <2>1 DEF PathInv, Stamped
        <2> QED BY <2>2, <2>3, <2>4, <2>5 DEF PathInv
    <1>8. ASSUME NEW h \in Handles, Locking(h) \/ Parked(h) \/ ReleaseLocks(h) PROVE PathInv'
        BY <1>7, <1>8 DEF Locking, Parked, ReleaseLocks
    <1>9. CASE \E src, dst \in Names, kind \in {"unlink", "rename"} : DirStart(kind, src, dst)
        BY <1>9, DirStartPath
    <1>10. CASE DirHub \/ DirHandles \/ DirStates BY <1>10, DirHubPath, DirHandlesPath, DirStatesPath
    <1>11. CASE \E n \in Names : Link(n) BY <1>11, LinkPath
    <1>12. CASE Close \/ Crash BY <1>12, EndPath
    <1>13. CASE Rival \/ Mount \/ \E e \in recovery : Redrive(e) BY <1>13, BetweenPath
    <1>14. CASE UNCHANGED vars BY <1>7, <1>14 DEF vars
    <1> QED BY <1>1, <1>2, <1>3, <1>4, <1>5, <1>6, <1>8, <1>9, <1>10, <1>11, <1>12, <1>13, <1>14 DEF Next

-----------------------------------------------------------------------------
(* What a step writes.                                                     *)

\* Only the file is written: a commit sends to a name that is the file's, or nobody's.
LEMMA Aimed ==
    ASSUME PathInv, [Next]_vars
    PROVE  stored'["stranger"] = stored["stranger"] /\ mode'["stranger"] = mode["stranger"]
    <1>1. "stranger" \in DOMAIN stored /\ "stranger" \in DOMAIN mode BY DEF PathInv, Shapes, Files
    <1>2. ASSUME NEW h \in Handles, CommitVerb(h) \/ CommitTrim(h) \/ CommitFinish(h)
          PROVE  stored'["stranger"] = stored["stranger"] /\ mode'["stranger"] = mode["stranger"]
        <2> DEFINE f == Reached(handle[h].cpath)
        <2>1. handle[h].pc \in Sync \ {"check"} BY <1>2 DEF CommitVerb, CommitTrim, CommitFinish, Sync
        <2>2. f # "stranger" BY <2>1, Aims
        <2>3. CASE CommitVerb(h)
            <3>1. UNCHANGED mode BY <2>3 DEF CommitVerb
            <3>2. UNCHANGED stored \/ stored' = [stored EXCEPT ![f] = Applied(@, handle[h].verb)]
                BY <2>3 DEF CommitVerb
            <3> HIDE DEF f
            <3> QED BY <1>1, <2>2, <3>1, <3>2
        <2>4. CASE CommitTrim(h)
            <3>1. UNCHANGED mode BY <2>4 DEF CommitTrim
            <3>2. UNCHANGED stored \/ stored' = [stored EXCEPT ![f] = Resize(@, handle[h].verb.size)]
                BY <2>4 DEF CommitTrim
            <3> HIDE DEF f
            <3> QED BY <1>1, <2>2, <3>1, <3>2
        <2>5. CASE CommitFinish(h)
            <3>1. UNCHANGED stored BY <2>5 DEF CommitFinish
            <3>2. UNCHANGED mode \/ mode' = [mode EXCEPT ![f] = handle[h].cpend] BY <2>5 DEF CommitFinish
            <3> HIDE DEF f
            <3> QED BY <1>1, <2>2, <3>1, <3>2
        <2> QED BY <1>2, <2>3, <2>4, <2>5
    <1>3. ASSUME NEW h \in Handles, NEW trunc \in BOOLEAN, Open(h, trunc) PROVE UNCHANGED <<stored, mode>>
        BY <1>3 DEF Open, storeVars
    <1>4. ASSUME NEW h \in Handles,
                 \/ \E w \in Writes : Write(h, w[1], w[2])
                 \/ \E n \in Sizes : SetSize(h, n) \/ Allocate(h, n)
                 \/ StageMode(h)
          PROVE  UNCHANGED <<stored, mode>>
        BY <1>4 DEF Write, SetSize, Allocate, StageMode, Change, storeVars
    <1>5. ASSUME NEW h \in Handles,
                 \/ Materialize(h) \/ TruncateOpen(h)
                 \/ CommitStart(h, "flush") \/ (Answered(h) /\ CommitStart(h, "release"))
                 \/ CommitPlan(h)
          PROVE  UNCHANGED <<stored, mode>>
        BY <1>5 DEF Materialize, TruncateOpen, CommitStart, CommitPlan, storeVars
    <1>6. ASSUME NEW h \in Handles,
                 \/ Unlock(h) \/ QuarantineStart(h) \/ QuarantineSave(h) \/ Delete(h) \/ LastClose(h) \/ Drop(h)
          PROVE  UNCHANGED <<stored, mode>>
        BY <1>6 DEF Unlock, QuarantineStart, QuarantineSave, Delete, LastClose, Drop, storeVars
    <1>7. ASSUME NEW h \in Handles, Locking(h) \/ Parked(h) \/ ReleaseLocks(h) PROVE UNCHANGED <<stored, mode>>
        BY <1>7 DEF Locking, Parked, ReleaseLocks, fileVars
    <1>8. CASE \/ \E src, dst \in Names, kind \in {"unlink", "rename"} : DirStart(kind, src, dst)
               \/ DirHub \/ DirHandles \/ DirStates \/ \E n \in Names : Link(n)
        BY <1>8 DEF DirStart, DirHub, DirHandles, DirStates, Link, storeVars
    <1>9. CASE Close \/ Crash \/ Mount BY <1>9 DEF Close, Crash, Ended, Mount, storeVars
    <1>10. CASE Rival BY <1>1, <1>10 DEF Rival
    <1>11. CASE \E e \in recovery : Redrive(e)
        <2>1. PICK e \in recovery : Redrive(e) BY <1>11
        <2>2. Reached(e.target) = "file" BY <2>1, Matched DEF Redrive
        <2>3. stored' = [stored EXCEPT !["file"] = Redriven(e)] BY <2>1, <2>2 DEF Redrive
        <2>4. UNCHANGED mode \/ mode' = [mode EXCEPT !["file"] = e.pending] BY <2>1, <2>2 DEF Redrive
        <2> QED BY <1>1, <2>3, <2>4
    <1>12. CASE UNCHANGED vars BY <1>12 DEF vars, fileVars
    <1> QED BY <1>2, <1>3, <1>4, <1>5, <1>6, <1>7, <1>8, <1>9, <1>10, <1>11, <1>12 DEF Next

\* A target whose times are those of the entry holds the bytes the entry was taken over.
LEMMA Fingerprinted ==
    ASSUME PathInv
    PROVE  \A e \in recovery : Redrive(e) => stored["file"] = e.over
    BY Matched DEF PathInv, Stamped, Redrive

-----------------------------------------------------------------------------
(* The theorem.                                                            *)

\* Whatever is opened, written, committed, renamed, unlinked, linked, quarantined, crashed and
\* mounted again, in any order: no step writes the file that took over a name, and a redrive
\* only meets the bytes its overlay was taken over (commit, redriveRecoveryEntry).
THEOREM OthersAlwaysSafe ==
    ASSUME Loosed PROVE Spec => OthersSafe
    <1>1. FileInit => PathInv BY PathInit
    <1>2. PathInv /\ [Next]_vars => PathInv' BY PathStep
    <1>3. PathInv /\ [Next]_vars =>
             [stored'["stranger"] = stored["stranger"] /\ mode'["stranger"] = mode["stranger"]]_vars
        BY Aimed
    <1>4. PathInv /\ [Next]_vars => [\A e \in recovery : Redrive(e) => stored["file"] = e.over]_vars
        BY Fingerprinted
    <1> QED BY <1>1, <1>2, <1>3, <1>4, PTL DEF Spec, OthersSafe, StrangersSafe, RivalSafe

=============================================================================
