-------------------------- MODULE Sessions_proofs --------------------------
(***************************************************************************)
(* Proofs about Sessions, for any callers, handles, names and bounds.      *)
(*                                                                         *)
(* Base is inductive whichever windows are open: every handle is coherent  *)
(* and its stage extends the pinned bytes (Fine), every call stands where  *)
(* its handle lets it (Serving), two opens are about two handles (Apart),  *)
(* the table is within its cap (Counted).                                  *)
(*                                                                         *)
(* Loyal is inductive while they are shut: a handle no other writer has    *)
(* touched knows what its files hold (Faithful), and a commit's targets    *)
(* hold the image as far as its verbs have gone (Progress).                *)
(***************************************************************************)
EXTENDS Sessions, FiniteSetTheorems, SequenceTheorems, TLAPS

-----------------------------------------------------------------------------
(* One handle.                                                             *)

Coherent(s) ==
    /\ s.applied => s.dirty /\ s.staged
    /\ ~s.staged => s.tmp = <<>>
    /\ s.full => s.staged
    /\ s.pending # <<>> => s.path = s.pending[1]
    /\ s.path # None /\ ~s.created => s.pin # None
    /\ s.path = None => ~s.created

\* Unless it is a whole image, the stage extends the pinned bytes and differs from
\* them only where a write went.
Tracks(s) ==
    ~s.full =>
        /\ Len(s.base) <= Len(View(s))
        /\ \A i \in 1..Len(s.base) : s.tail \/ i - 1 \notin s.ranges => View(s)[i] = s.base[i]
Fine(s) == s \in SessionRecord /\ Coherent(s) /\ Tracks(s)

Byte == Handles \cup {Hole, Foreign}

LEMMA Limits ==
    /\ Cap \in Nat /\ Cap > 0 /\ TTL \in Nat /\ MaxLen \in Nat /\ MaxInode \in Nat /\ MaxInode > 1
    /\ MaxClock \in Nat /\ MaxCalls \in Nat /\ MaxEvents \in Nat
    /\ None \notin Names /\ None \notin Inodes /\ None \notin Callers /\ None \notin Handles /\ None \notin Bytes
    /\ OpenKinds \subseteq {"scratch", "create", "append", "truncate", "update"}
    BY SessionsAssumption DEF Inodes, Bytes

LEMMA Tabulated ==
    ASSUME NEW n \in Nat, NEW f \in [1..n -> Byte]
    PROVE  f \in Bytes /\ Len(f) = n
    BY DEF Bytes, Byte

LEMMA PaddedBytes ==
    ASSUME NEW bytes \in Bytes, NEW size \in Nat
    PROVE  /\ Padded(bytes, size) \in Bytes /\ Len(Padded(bytes, size)) = size
           /\ \A i \in 1..size : i <= Len(bytes) => Padded(bytes, size)[i] = bytes[i]
    <1>1. \A i \in 1..Len(bytes) : bytes[i] \in Byte BY DEF Bytes, Byte
    <1>2. Padded(bytes, size) \in [1..size -> Byte] BY <1>1 DEF Padded, Byte, Bytes
    <1>3. \A i \in 1..size : i <= Len(bytes) => Padded(bytes, size)[i] = bytes[i] BY DEF Padded
    <1> QED BY <1>2, <1>3, Tabulated

LEMMA SplicedBytes ==
    ASSUME NEW bytes \in Bytes, NEW off \in Nat, NEW byte \in Byte
    PROVE  /\ Spliced(bytes, off, byte) \in Bytes
           /\ Len(Spliced(bytes, off, byte)) = IF off < Len(bytes) THEN Len(bytes) ELSE off + 1
           /\ \A i \in 1..Len(bytes) : i # off + 1 => Spliced(bytes, off, byte)[i] = bytes[i]
    <1> DEFINE size == IF off < Len(bytes) THEN Len(bytes) ELSE off + 1
               grown == Padded(bytes, size)
    <1>1. Len(bytes) \in Nat /\ size \in Nat /\ Len(bytes) <= size /\ off + 1 \in 1..size BY DEF Bytes
    <1>2. /\ grown \in Bytes /\ Len(grown) = size
          /\ \A i \in 1..size : i <= Len(bytes) => grown[i] = bytes[i]
        BY <1>1, PaddedBytes
    <1>3. Spliced(bytes, off, byte) = [grown EXCEPT ![off + 1] = byte] BY DEF Spliced
    <1> HIDE DEF grown
    <1>4. grown \in Seq(Byte) /\ off + 1 \in 1..Len(grown) BY <1>1, <1>2 DEF Bytes, Byte
    <1>5. /\ Spliced(bytes, off, byte) \in Seq(Byte) /\ Len(Spliced(bytes, off, byte)) = size
          /\ \A j \in 1..size : Spliced(bytes, off, byte)[j] = IF j = off + 1 THEN byte ELSE grown[j]
        BY <1>2, <1>3, <1>4, ExceptSeq
    <1> HIDE DEF size
    <1>6. \A i \in 1..Len(bytes) : i # off + 1 => Spliced(bytes, off, byte)[i] = bytes[i]
        BY <1>1, <1>2, <1>5
    <1> QED BY <1>5, <1>6 DEF size, Bytes, Byte

LEMMA Fields ==
    ASSUME NEW s \in SessionRecord
    PROVE  /\ s.state \in {"free", "opening", "live", "gone"} /\ s.append \in BOOLEAN
           /\ s.path \in Names \cup {None} /\ s.pending \in Seq(Names) /\ s.published \in SUBSET Names
           /\ s.pin \in Inodes \cup {None} /\ s.base \in Bytes /\ s.tmp \in Bytes
           /\ s.staged \in BOOLEAN /\ s.dirty \in BOOLEAN /\ s.applied \in BOOLEAN
           /\ s.created \in BOOLEAN /\ s.full \in BOOLEAN /\ s.tail \in BOOLEAN
           /\ s.ranges \in SUBSET Offsets /\ s.lastUse \in 0..MaxClock
           /\ s.mu \in Callers \cup {None} /\ s.touched \in BOOLEAN
           /\ View(s) \in Bytes
    BY DEF SessionRecord, View

LEMMA HydratedFine ==
    ASSUME NEW s, Fine(s)
    PROVE  /\ Fine(Hydrated(s)) /\ Hydrated(s).tmp = View(s) /\ Hydrated(s).staged
           /\ Hydrated(s) = [s EXCEPT !.tmp = View(s), !.staged = TRUE]
    <1>1. s \in SessionRecord /\ View(s) \in Bytes BY Fields DEF Fine
    <1>2. Hydrated(s) \in SessionRecord BY <1>1 DEF Hydrated, SessionRecord
    <1>3. Coherent(Hydrated(s)) BY <1>1 DEF Fine, Coherent, Hydrated, SessionRecord
    <1>4. View(Hydrated(s)) = View(s) BY <1>1 DEF Hydrated, SessionRecord, View
    <1>5. Tracks(Hydrated(s)) BY <1>1, <1>4 DEF Fine, Tracks, Hydrated, SessionRecord
    <1> QED BY <1>1, <1>2, <1>3, <1>5 DEF Fine, Hydrated, SessionRecord

\* What a data call or a link leaves of the handle.
Same(r, s) == r.state = s.state /\ r.mu = s.mu /\ r.pin = s.pin /\ r.base = s.base /\ r.touched = s.touched

LEMMA WriteFine ==
    ASSUME NEW s, Fine(s), NEW at \in Offsets, NEW byte \in Byte, Len(StagedWrite(s, at, byte).tmp) <= MaxLen
    PROVE  LET r == StagedWrite(s, at, byte)
           IN  Fine(r) /\ Same(r, s) /\ r.path = s.path /\ r.pending = s.pending /\ r.created = s.created
               /\ r.published = s.published /\ ~r.applied
    <1> DEFINE cur == Len(View(s))
               off == IF s.append THEN cur ELSE at
               grown == Spliced(View(s), off, byte)
               ranges == s.ranges \cup {off} \cup (IF off > cur THEN cur..(off - 1) ELSE {})
               full == s.full \/ off > cur
               tail == s.tail /\ off = cur
               r == [Hydrated(s) EXCEPT !.tmp = grown, !.ranges = ranges, !.full = full, !.tail = tail,
                                        !.dirty = TRUE, !.applied = FALSE]
    <1>1. s \in SessionRecord /\ View(s) \in Bytes /\ cur \in Nat /\ off \in Nat /\ at \in Nat /\ MaxLen \in Nat
        BY Fields, Limits DEF Fine, Bytes, Offsets
    <1>2. /\ grown \in Bytes /\ Len(grown) = (IF off < cur THEN cur ELSE off + 1)
          /\ \A i \in 1..cur : i # off + 1 => grown[i] = View(s)[i]
        <2> HIDE DEF off
        <2> QED BY <1>1, SplicedBytes
    <1>3. Hydrated(s) \in SessionRecord /\ Hydrated(s).ranges = s.ranges /\ Hydrated(s).full = s.full /\ Hydrated(s).tail = s.tail
        BY <1>1, HydratedFine DEF Fine, Hydrated, SessionRecord
    <1>4. StagedWrite(s, at, byte) = r BY <1>3 DEF StagedWrite
    <1>5. r.tmp = grown BY <1>3 DEF SessionRecord
    <1>6. Len(grown) <= MaxLen BY <1>4, <1>5
    <1>7. ranges \in SUBSET Offsets /\ full \in BOOLEAN /\ tail \in BOOLEAN
        <2>1. s.ranges \in SUBSET Offsets /\ s.full \in BOOLEAN /\ s.tail \in BOOLEAN BY <1>1, Fields
        <2>2. off \in Offsets BY <1>1, <1>2, <1>6 DEF Offsets
        <2>3. cur..(off - 1) \in SUBSET Offsets BY <1>1, <2>2 DEF Offsets
        <2> QED BY <2>1, <2>2, <2>3
    <1> HIDE DEF grown, ranges, full, tail
    <1>8. r \in SessionRecord BY <1>2, <1>3, <1>7 DEF SessionRecord
    <1>9. /\ Same(r, s) /\ r.path = s.path /\ r.pending = s.pending /\ r.created = s.created
          /\ r.published = s.published /\ ~r.applied /\ r.staged /\ r.tmp = grown
          /\ r.ranges = ranges /\ r.full = full /\ r.tail = tail
        BY <1>1, <1>3, HydratedFine DEF SessionRecord, Same, Hydrated, Fine
    <1> HIDE DEF r
    <1>10. Coherent(r) BY <1>9 DEF Fine, Coherent, Same
    <1>11. Tracks(r)
        <2> SUFFICES ASSUME ~full PROVE /\ Len(s.base) <= Len(grown)
                                        /\ \A i \in 1..Len(s.base) : tail \/ i - 1 \notin ranges => grown[i] = s.base[i]
            BY <1>9 DEF Tracks, View, Same
        <2>1. ~s.full /\ off <= cur BY <1>1 DEF full
        <2>2. Len(s.base) <= cur /\ \A i \in 1..Len(s.base) : s.tail \/ i - 1 \notin s.ranges => View(s)[i] = s.base[i]
            BY <2>1 DEF Fine, Tracks
        <2>3. Len(s.base) \in Nat BY <1>1, Fields DEF Bytes
        <2>4. Len(s.base) <= Len(grown) BY <1>1, <1>2, <2>2, <2>3
        <2>5. ASSUME NEW i \in 1..Len(s.base), tail \/ i - 1 \notin ranges PROVE grown[i] = s.base[i]
            <3>1. i # off + 1
                <4>1. CASE tail BY <1>1, <2>2, <2>3, <4>1 DEF tail
                <4>2. CASE i - 1 \notin ranges BY <1>1, <2>3, <4>2 DEF ranges
                <4> QED BY <2>5, <4>1, <4>2
            <3>2. s.tail \/ i - 1 \notin s.ranges BY <2>5 DEF tail, ranges
            <3>3. i \in 1..cur BY <1>1, <2>2, <2>3
            <3> QED BY <1>2, <2>2, <3>1, <3>2, <3>3
        <2> QED BY <2>4, <2>5
    <1> QED BY <1>4, <1>8, <1>9, <1>10, <1>11 DEF Fine

LEMMA TruncateFine ==
    ASSUME NEW s, Fine(s), NEW size \in Nat
    PROVE  LET r == [Hydrated(s) EXCEPT !.tmp = Padded(View(s), size), !.full = TRUE, !.tail = FALSE,
                                        !.dirty = TRUE, !.applied = FALSE]
           IN  Fine(r) /\ Same(r, s) /\ r.path = s.path /\ r.pending = s.pending /\ r.created = s.created
               /\ r.published = s.published /\ ~r.applied
    <1> DEFINE p == Padded(View(s), size)
               r == [Hydrated(s) EXCEPT !.tmp = p, !.full = TRUE, !.tail = FALSE, !.dirty = TRUE, !.applied = FALSE]
    <1>1. s \in SessionRecord /\ p \in Bytes BY Fields, PaddedBytes DEF Fine
    <1>2. Hydrated(s) \in SessionRecord BY HydratedFine DEF Fine
    <1> HIDE DEF p
    <1>3. r \in SessionRecord BY <1>1, <1>2 DEF SessionRecord
    <1>4. /\ Same(r, s) /\ r.path = s.path /\ r.pending = s.pending /\ r.created = s.created
          /\ r.published = s.published /\ ~r.applied /\ r.staged /\ r.full
        BY <1>1, <1>2, HydratedFine DEF SessionRecord, Same, Hydrated
    <1> HIDE DEF r
    <1>5. Coherent(r) /\ Tracks(r) BY <1>4 DEF Fine, Coherent, Same, Tracks
    <1> QED BY <1>3, <1>4, <1>5 DEF Fine, r, p

LEMMA LinkFine ==
    ASSUME NEW s, Fine(s), NEW n \in Names, s.path = None \/ s.pending # <<>>
    PROVE  LET r == [s EXCEPT !.pending = Append(@, n), !.path = Append(s.pending, n)[1],
                              !.created = TRUE, !.dirty = TRUE]
           IN  Fine(r) /\ Same(r, s) /\ r.pending = Append(s.pending, n) /\ r.created
               /\ r.published = s.published /\ r.applied = s.applied /\ r.pending # <<>>
               /\ Range(r.pending) = Range(s.pending) \cup {n}
    <1> DEFINE more == Append(s.pending, n)
               r == [s EXCEPT !.pending = more, !.path = more[1], !.created = TRUE, !.dirty = TRUE]
    <1>1. s \in SessionRecord /\ s.pending \in Seq(Names) BY Fields DEF Fine
    <1>2. more \in Seq(Names) /\ more[1] \in Names /\ more # <<>> /\ Range(more) = Range(s.pending) \cup {n}
        <2>1. /\ more \in Seq(Names) /\ Len(more) = Len(s.pending) + 1 /\ Len(s.pending) \in Nat
              /\ more[Len(s.pending) + 1] = n /\ \A i \in 1..Len(s.pending) : more[i] = s.pending[i]
            BY <1>1
        <2>2. DOMAIN more = 1..Len(s.pending) + 1 /\ DOMAIN s.pending = 1..Len(s.pending) BY <1>1, <2>1
        <2>3. 1 \in 1..Len(more) BY <2>1
        <2>4. more[1] \in Names BY <2>1, <2>3, ElementOfSeq
        <2>5. more # <<>> BY <2>1, <2>3
        <2> HIDE DEF more
        <2>6. Range(more) = Range(s.pending) \cup {n} BY <2>1, <2>2 DEF Range
        <2> QED BY <2>1, <2>4, <2>5, <2>6
    <1> HIDE DEF more
    <1>3. r \in SessionRecord BY <1>1, <1>2 DEF SessionRecord
    <1>4. /\ Same(r, s) /\ r.pending = more /\ r.path = more[1] /\ r.created /\ r.dirty /\ r.tmp = s.tmp /\ r.full = s.full
          /\ r.published = s.published /\ r.applied = s.applied /\ r.staged = s.staged
          /\ r.tail = s.tail /\ r.ranges = s.ranges
        BY <1>1 DEF SessionRecord, Same
    <1>6. View(r) = View(s) BY <1>4 DEF View, Same
    <1> HIDE DEF r
    <1>5. Coherent(r) BY <1>2, <1>4, Limits DEF Fine, Coherent, Same
    <1>7. Tracks(r) BY <1>4, <1>6 DEF Fine, Tracks, Same
    <1> QED BY <1>2, <1>3, <1>4, <1>5, <1>7 DEF Fine, r, more

LEMMA RelinkFine ==
    ASSUME NEW s, Fine(s), NEW n \in Names
    PROVE  LET r == [s EXCEPT !.pending = <<n>>, !.path = n, !.created = TRUE, !.dirty = TRUE,
                              !.applied = FALSE, !.published = {}]
           IN  Fine(r) /\ Same(r, s) /\ r.pending = <<n>> /\ r.created /\ r.published = {} /\ ~r.applied
    <1> DEFINE r == [s EXCEPT !.pending = <<n>>, !.path = n, !.created = TRUE, !.dirty = TRUE,
                              !.applied = FALSE, !.published = {}]
    <1>1. s \in SessionRecord /\ <<n>> \in Seq(Names) /\ <<n>>[1] = n BY DEF Fine
    <1>2. r \in SessionRecord BY <1>1 DEF SessionRecord
    <1>3. /\ Same(r, s) /\ r.pending = <<n>> /\ r.path = n /\ r.created /\ r.published = {} /\ ~r.applied
          /\ r.tmp = s.tmp /\ r.full = s.full /\ r.staged = s.staged /\ r.tail = s.tail /\ r.ranges = s.ranges
        BY <1>1 DEF SessionRecord, Same
    <1>4. View(r) = View(s) BY <1>3 DEF View, Same
    <1> HIDE DEF r
    <1>5. Coherent(r) BY <1>1, <1>3, Limits DEF Fine, Coherent, Same
    <1>6. Tracks(r) BY <1>3, <1>4 DEF Fine, Tracks, Same
    <1> QED BY <1>2, <1>3, <1>5, <1>6 DEF Fine, r

\* The bytes of a publication.
LEMMA ImageBytes ==
    ASSUME NEW s, Fine(s), s.staged, NEW bytes \in Bytes, EditsFit(s, bytes)
    PROVE  /\ Image(s, bytes) \in Bytes
           /\ bytes = s.base => Image(s, bytes) = s.tmp
           /\ ~s.full => \A k \in 1..Len(bytes) :
                k - 1 \notin s.ranges \/ k > Len(s.base) =>
                    \/ Image(s, bytes)[k] = bytes[k]
                    \/ Image(s, bytes)[k + (Len(Image(s, bytes)) - Len(bytes))] = bytes[k]
    <1> DEFINE b == Len(s.base)
               t == Len(s.tmp)
               z == Len(bytes)
    <1>1. /\ s.base \in Seq(Byte) /\ s.tmp \in Seq(Byte) /\ bytes \in Seq(Byte) /\ Seq(Byte) = Bytes
          /\ b \in Nat /\ t \in Nat /\ z \in Nat
        BY Fields DEF Fine, Bytes, Byte
    <1>2. \A i \in 1..t : s.tmp[i] \in Byte BY <1>1
    <1>3. \A i \in 1..z : bytes[i] \in Byte BY <1>1
    <1>4. CASE s.full
        <2>1. Image(s, bytes) = s.tmp BY <1>4 DEF Image
        <2> QED BY <1>1, <1>4, <2>1
    <1>5. ASSUME ~s.full
          PROVE  b <= t /\ \A i \in 1..b : s.tail \/ i - 1 \notin s.ranges => s.tmp[i] = s.base[i]
        BY <1>5 DEF Fine, Tracks, View
    <1> DEFINE tail == SubSeq(s.tmp, b + 1, t)
    <1>6. ASSUME b <= t
          PROVE  tail \in Seq(Byte) /\ Len(tail) = t - b /\ \A i \in 1..t - b : tail[i] = s.tmp[b + i]
        <2> HIDE DEF b, t
        <2>1. \A i \in b + 1 .. t : s.tmp[i] \in Byte BY <1>1, <1>2
        <2>2. b + 1 \in Int /\ t \in Int BY <1>1
        <2>3. /\ tail \in Seq(Byte) /\ Len(tail) = IF b + 1 <= t THEN t - (b + 1) + 1 ELSE 0
              /\ \A i \in 1 .. t - (b + 1) + 1 : tail[i] = s.tmp[b + 1 + i - 1]
            BY <2>1, <2>2, SubSeqProperties
        <2>4. t - (b + 1) + 1 = t - b BY <1>1
        <2>5. \A i \in 1..t - b : b + 1 + i - 1 = b + i BY <1>1
        <2> HIDE DEF tail
        <2>6. Len(tail) = t - b BY <1>1, <1>6, <2>3
        <2> QED BY <2>3, <2>4, <2>5, <2>6
    <1>7. CASE ~s.full /\ AppendsTail(s)
        <2>1. Image(s, bytes) = bytes \o tail BY <1>7 DEF Image
        <2>2. b < t /\ s.tail BY <1>7 DEF AppendsTail
        <2> HIDE DEF tail, b, t, z
        <2>3. tail \in Seq(Byte) /\ Len(tail) = t - b /\ \A i \in 1..t - b : tail[i] = s.tmp[b + i]
            BY <1>1, <1>6, <2>2
        <2>4. /\ bytes \o tail \in Seq(Byte) /\ Len(bytes \o tail) = z + (t - b)
              /\ \A i \in 1..z + (t - b) : (bytes \o tail)[i] = IF i <= z THEN bytes[i] ELSE tail[i - z]
            <3> DEFINE both == bytes \o tail
            <3>1. /\ both \in Seq(Byte) /\ Len(both) = Len(bytes) + Len(tail)
                  /\ \A i \in 1..Len(bytes) + Len(tail) :
                        both[i] = IF i <= Len(bytes) THEN bytes[i] ELSE tail[i - Len(bytes)]
                BY <1>1, <2>3, ConcatProperties
            <3>2. Len(bytes) = z /\ Len(tail) = t - b BY <2>3 DEF z
            <3> HIDE DEF both
            <3>3. both \in Seq(Byte) /\ Len(both) = z + (t - b) BY <3>1, <3>2
            <3>4. \A i \in 1..z + (t - b) : both[i] = IF i <= z THEN bytes[i] ELSE tail[i - z] BY <3>1, <3>2
            <3> QED BY <3>3, <3>4 DEF both
        <2>5. ASSUME bytes = s.base PROVE bytes \o tail = s.tmp
            <3>1. z = b BY <2>5 DEF z, b
            <3>2. \A i \in 1..t : (bytes \o tail)[i] = s.tmp[i]
                <4> TAKE i \in 1..t
                <4>1. CASE i <= b
                    <5>1. i \in 1..b /\ i \in 1..z + (t - b) /\ i <= z BY <1>1, <2>2, <3>1, <4>1
                    <5> QED BY <1>5, <1>7, <2>2, <2>4, <2>5, <5>1
                <4>2. CASE i > b
                    <5>1. i \in 1..z + (t - b) /\ ~(i <= z) /\ i - z \in 1..t - b /\ b + (i - z) = i
                        BY <1>1, <2>2, <3>1, <4>2
                    <5> QED BY <2>3, <2>4, <5>1
                <4>3. i <= b \/ i > b BY <1>1
                <4> QED BY <4>1, <4>2, <4>3
            <3>3. Len(bytes \o tail) = t BY <1>1, <2>2, <2>4, <3>1
            <3> QED BY <1>1, <2>4, <3>2, <3>3, SeqEqual DEF t
        <2>6. \A k \in 1..z : (bytes \o tail)[k] = bytes[k]
            <3> TAKE k \in 1..z
            <3>1. k \in 1..z + (t - b) /\ k <= z BY <1>1, <2>2
            <3> QED BY <2>4, <3>1
        <2> QED BY <1>1, <2>1, <2>4, <2>5, <2>6 DEF z
    <1> QED
        <2> SUFFICES ASSUME ~s.full, ~AppendsTail(s)
                     PROVE  /\ Image(s, bytes) \in Bytes
                            /\ bytes = s.base => Image(s, bytes) = s.tmp
                            /\ \A k \in 1..Len(bytes) : k - 1 \notin s.ranges \/ k > Len(s.base) =>
                                \/ Image(s, bytes)[k] = bytes[k]
                                \/ Image(s, bytes)[k + (Len(Image(s, bytes)) - Len(bytes))] = bytes[k]
            BY <1>4, <1>7
        <2>a. CASE z < b
            <3> DEFINE kept == [i \in 1..z |-> IF i - 1 \in s.ranges THEN s.tmp[i] ELSE bytes[i]]
            <3>1. b = t BY <1>1, <1>5, <2>a DEF EditsFit
            <3>2. tail = <<>> /\ SubSeq(bytes, b + 1, z) = <<>>
                <4>1. tail \in Seq(Byte) /\ Len(tail) = 0
                    <5> HIDE DEF tail
                    <5> QED BY <1>1, <1>6, <3>1
                <4> DEFINE rest == SubSeq(bytes, b + 1, z)
                <4>2. rest \in Seq(Byte) /\ Len(rest) = 0
                    <5>1. b + 1 \in Int /\ z \in Int /\ ~(b + 1 <= z) BY <1>1, <2>a
                    <5>2. \A i \in b + 1 .. z : bytes[i] \in Byte BY <5>1
                    <5> HIDE DEF b, z
                    <5> QED BY <5>1, <5>2, SubSeqProperties
                <4> HIDE DEF tail, rest
                <4>3. tail = <<>> /\ rest = <<>> BY <4>1, <4>2, EmptySeq
                <4> QED BY <4>3 DEF rest
            <3>3. Shorter(b, z) = z BY <1>1, <2>a DEF Shorter
            <3>4. Image(s, bytes) = kept \o tail \o SubSeq(bytes, b + 1, z) BY <3>3 DEF Image, Patched
            <3>5. \A i \in 1..z : (IF i - 1 \in s.ranges THEN s.tmp[i] ELSE bytes[i]) \in Byte
                <4> TAKE i \in 1..z
                <4>1. i \in 1..t BY <1>1, <2>a, <3>1
                <4> QED BY <1>2, <1>3, <4>1
            <3>6. kept \in Seq(Byte) /\ Len(kept) = z
                <4> HIDE DEF b, t, z
                <4>1. kept \in [1..z -> Byte] BY <3>5
                <4> HIDE DEF kept
                <4> QED BY <1>1, <4>1, Tabulated
            <3>7. \A k \in 1..z : k - 1 \notin s.ranges => kept[k] = bytes[k] OBVIOUS
            <3> HIDE DEF kept
            <3>8. Image(s, bytes) = kept
                <4>1. Image(s, bytes) = kept \o <<>> \o <<>> BY <3>2, <3>4
                <4>2. kept \o <<>> = kept BY <3>6, ConcatEmptySeq
                <4> QED BY <4>1, <4>2
            <3>9. \A k \in 1..z : ~(k > b) BY <1>1, <2>a
            <3>10. bytes # s.base BY <1>1, <2>a
            <3>11. \A k \in 1..z : k - 1 \notin s.ranges \/ k > b => kept[k] = bytes[k] BY <3>7, <3>9
            <3> QED BY <1>1, <3>6, <3>8, <3>10, <3>11
        <2>b. b <= z \/ z < b BY <1>1
        <2>c. CASE b <= z
            <3> DEFINE old == [i \in 1..b |-> IF i - 1 \in s.ranges THEN s.tmp[i] ELSE bytes[i]]
                       rest == SubSeq(bytes, b + 1, z)
            <3>0. Shorter(b, z) = b BY <2>c DEF Shorter
            <3>1. Image(s, bytes) = old \o tail \o rest BY <3>0 DEF Image, Patched
            <3>2. b <= t /\ b <= z BY <1>5, <2>c
            <3>3. old \in Seq(Byte) /\ Len(old) = b
                <4> HIDE DEF b, t, z
                <4>1. \A i \in 1..b : s.tmp[i] \in Byte /\ bytes[i] \in Byte
                    <5> TAKE i \in 1..b
                    <5>1. i \in 1..t /\ i \in 1..z BY <1>1, <3>2
                    <5> QED BY <1>2, <1>3, <5>1
                <4>2. old \in [1..b -> Byte] BY <4>1
                <4> HIDE DEF old
                <4> QED BY <1>1, <4>2, Tabulated
            <3>4. /\ rest \in Seq(Byte) /\ Len(rest) = z - b
                  /\ \A i \in 1..z - b : rest[i] = bytes[b + i]
                <4> HIDE DEF b, z
                <4>1. \A i \in b + 1 .. z : bytes[i] \in Byte BY <1>1, <1>3
                <4>2. b + 1 \in Int /\ z \in Int BY <1>1
                <4>3. /\ rest \in Seq(Byte) /\ Len(rest) = IF b + 1 <= z THEN z - (b + 1) + 1 ELSE 0
                      /\ \A i \in 1 .. z - (b + 1) + 1 : rest[i] = bytes[b + 1 + i - 1]
                    BY <4>1, <4>2, SubSeqProperties
                <4>4. z - (b + 1) + 1 = z - b BY <1>1
                <4>5. \A i \in 1..z - b : b + 1 + i - 1 = b + i BY <1>1
                <4> HIDE DEF rest
                <4>6. Len(rest) = z - b BY <1>1, <3>2, <4>3
                <4> QED BY <4>3, <4>4, <4>5, <4>6
            <3> HIDE DEF tail, b, t, z, rest
            <3>5. tail \in Seq(Byte) /\ Len(tail) = t - b /\ \A i \in 1..t - b : tail[i] = s.tmp[b + i]
                BY <1>6, <3>2
            <3>6. \A i \in 1..b : old[i] = IF i - 1 \in s.ranges THEN s.tmp[i] ELSE bytes[i] OBVIOUS
            <3> HIDE DEF old
            <3> DEFINE front == old \o tail
            <3>7. /\ front \in Seq(Byte) /\ Len(front) = t
                  /\ \A i \in 1..t : front[i] = IF i <= b THEN old[i] ELSE tail[i - b]
                <4>1. b + (t - b) = t BY <1>1
                <4>2. /\ front \in Seq(Byte) /\ Len(front) = Len(old) + Len(tail)
                      /\ \A i \in 1..Len(old) + Len(tail) : front[i] = IF i <= Len(old) THEN old[i] ELSE tail[i - Len(old)]
                    BY <3>3, <3>5, ConcatProperties
                <4>3. Len(old) = b /\ Len(tail) = t - b BY <3>3, <3>5
                <4> HIDE DEF front
                <4> QED BY <4>1, <4>2, <4>3
            <3> HIDE DEF front
            <3> DEFINE image == front \o rest
            <3>8. /\ image \in Seq(Byte) /\ Len(image) = t + (z - b)
                  /\ \A i \in 1..t + (z - b) : image[i] = IF i <= t THEN front[i] ELSE rest[i - t]
                <4>1. /\ image \in Seq(Byte) /\ Len(image) = Len(front) + Len(rest)
                      /\ \A i \in 1..Len(front) + Len(rest) : image[i] = IF i <= Len(front) THEN front[i] ELSE rest[i - Len(front)]
                    BY <3>4, <3>7, ConcatProperties
                <4>2. Len(front) = t /\ Len(rest) = z - b BY <3>4, <3>7
                <4> HIDE DEF image
                <4> QED BY <4>1, <4>2
            <3>9. Image(s, bytes) = image BY <3>1 DEF front
            <3> HIDE DEF image
            <3>10. ASSUME bytes = s.base PROVE image = s.tmp
                <4>1. z = b BY <3>10 DEF z, b
                <4>2. \A i \in 1..t : image[i] = s.tmp[i]
                    <5> TAKE i \in 1..t
                    <5>0. i \in 1..t + (z - b) /\ i <= t BY <1>1, <4>1
                    <5>1. image[i] = front[i] BY <3>8, <5>0
                    <5>2. CASE i <= b
                        <6>1. i \in 1..b BY <1>1, <5>2
                        <6>2. front[i] = old[i] BY <3>7, <5>2
                        <6> QED BY <1>5, <3>6, <3>10, <5>1, <6>1, <6>2
                    <5>3. CASE i > b
                        <6>1. ~(i <= b) /\ i - b \in 1..t - b /\ b + (i - b) = i BY <1>1, <5>3
                        <6> QED BY <3>5, <3>7, <5>1, <6>1
                    <5> QED BY <1>1, <5>2, <5>3
                <4>3. Len(image) = t BY <1>1, <3>8, <4>1
                <4> QED BY <1>1, <3>8, <4>2, <4>3, SeqEqual DEF t
            <3>11. ASSUME NEW k \in 1..z, k - 1 \notin s.ranges \/ k > b
                   PROVE  image[k] = bytes[k] \/ image[k + (Len(image) - z)] = bytes[k]
                <4>1. CASE k <= b
                    <5>1. k \in 1..b /\ k \in 1..t /\ k \in 1..t + (z - b) /\ k <= t /\ ~(k > b) BY <1>1, <3>2, <4>1
                    <5>2. image[k] = front[k] /\ front[k] = old[k] BY <3>7, <3>8, <4>1, <5>1
                    <5> QED BY <3>6, <3>11, <5>1, <5>2
                <4>2. CASE k > b
                    <5>1. PICK j \in Nat : j = k + (t - b) BY <1>1, <3>2
                    <5>2. Len(image) - z = t - b BY <1>1, <3>8
                    <5>3. j \in 1..t + (z - b) /\ ~(j <= t) /\ j - t = k - b /\ k - b \in 1..z - b /\ b + (k - b) = k
                        BY <1>1, <3>2, <4>2, <5>1
                    <5>4. image[j] = rest[j - t] BY <3>8, <5>3
                    <5>5. rest[k - b] = bytes[k] BY <3>4, <5>3
                    <5>6. image[j] = bytes[k] BY <5>3, <5>4, <5>5
                    <5> QED BY <5>1, <5>2, <5>6
                <4> QED BY <1>1, <4>1, <4>2
            <3>12. Len(bytes) = z /\ Len(s.base) = b BY DEF z, b
            <3> QED BY <1>1, <3>8, <3>9, <3>10, <3>11, <3>12
        <2> QED BY <2>a, <2>b, <2>c

-----------------------------------------------------------------------------
(* Handles and the calls on them.                                          *)

Points == {"idle", "pin", "insert", "await", "held", "commit", "verbs", "drain", "repin", "reap", "rewait"}
Handled == {"held", "commit", "verbs", "drain", "repin"}
Sending == {"commit", "verbs", "drain", "repin"}
Requests == {"none", "write", "truncate", "link", "relink", "sync", "close", "discard"}
CallRecord ==
    [pc : Points, op : Requests, h : Handles \cup {None}, now : 0..MaxClock, targets : Seq(Names),
     rest : Seq(Names), ret : {"ok", "failed"}, conflict : Inodes \cup {None}]

\* What a commit goes to: all pending names, or one name.
Aims(s, targets) ==
    /\ targets # <<>>
    /\ s.pending # <<>> => targets = s.pending
    /\ s.pending = <<>> => Len(targets) = 1 /\ (s.created => targets[1] = s.path)

\* Where a call r of caller c may find its handle.
Placed(c, r, s) ==
    /\ r.pc = "pin" => s = [FreeSession EXCEPT !.state = "opening", !.lastUse = s.lastUse]
    /\ r.pc = "insert" => s.state = "opening"
    /\ r.pc \in {"await", "reap", "rewait"} => s.state \in {"live", "gone"}
    /\ r.pc \in Handled => s.state = "live" /\ s.mu = c
    /\ r.pc \in Sending => Aims(s, r.targets)
    /\ r.pc \in {"commit", "verbs", "drain"} => s.staged /\ s.dirty /\ s.path # None
    /\ r.pc = "verbs" => /\ ~s.applied /\ r.rest # <<>> /\ Range(r.rest) \subseteq Range(r.targets)
                         /\ s.pending = <<>> => r.rest = r.targets
    /\ r.pc = "drain" => s.applied

FilesTyped ==
    /\ live \in [Names -> Inodes \cup {None}] /\ data \in [Inodes -> Bytes \cup {None}]
    /\ \A n \in Names : live[n] # None => data[live[n]] # None
Typed ==
    /\ clock \in 0..MaxClock /\ FilesTyped
    /\ session \in [Handles -> SessionRecord] /\ call \in [Callers -> CallRecord]
    /\ table \in Callers \cup {None} /\ commitMu \in Callers \cup {None}
Serving ==
    \A c \in Callers : call[c].pc # "idle" =>
        call[c].h \in Handles /\ Placed(c, call[c], session[call[c].h])
Openers == {"pin", "insert"}
Apart ==
    \A c, d \in Callers : c # d /\ call[c].pc \in Openers /\ call[d].pc \in Openers => call[c].h # call[d].h
Counted == IsFiniteSet(InTable) /\ Cardinality(InTable) <= Cap
Base == Typed /\ (\A h \in Handles : Fine(session[h])) /\ Serving /\ Apart /\ Counted

\* What a step does to a handle it is not about.
Spared(s, s2) ==
    \/ s2 = s
    \/ s.state = "live" /\ s.mu = None /\ s2 = Destroyed(s)
    \/ (s.path # None \/ s.pin # None) /\ s2 = [s EXCEPT !.touched = TRUE]

LEMMA FreeFine ==
    /\ Fine(FreeSession) /\ Fine([FreeSession EXCEPT !.state = "gone"])
    /\ \A t \in 0..MaxClock : Fine([FreeSession EXCEPT !.state = "opening", !.lastUse = t])
    <1>1. <<>> \in Bytes /\ <<>> \in Seq(Names) /\ 0 \in 0..MaxClock BY Limits DEF Bytes
    <1>2. FreeSession \in SessionRecord BY <1>1 DEF FreeSession, SessionRecord
    <1> DEFINE Blank(s) == /\ ~s.applied /\ s.tmp = <<>> /\ ~s.full /\ s.pending = <<>> /\ s.path = None
                           /\ ~s.created /\ ~s.staged /\ s.base = <<>>
    <1>3. ASSUME NEW s \in SessionRecord, Blank(s) PROVE Fine(s)
        BY <1>3 DEF Fine, Coherent, Tracks, View
    <1>4. Blank(FreeSession) BY DEF FreeSession
    <1>5. [FreeSession EXCEPT !.state = "gone"] \in SessionRecord /\ Blank([FreeSession EXCEPT !.state = "gone"])
        BY <1>2, <1>4 DEF SessionRecord
    <1>6. ASSUME NEW t \in 0..MaxClock
          PROVE  LET s == [FreeSession EXCEPT !.state = "opening", !.lastUse = t]
                 IN  s \in SessionRecord /\ Blank(s)
        BY <1>2, <1>4 DEF SessionRecord
    <1> HIDE DEF Blank
    <1> QED BY <1>2, <1>3, <1>4, <1>5, <1>6

LEMMA SparedFine ==
    ASSUME NEW s, NEW s2, Fine(s), Spared(s, s2)
    PROVE  /\ Fine(s2) /\ (s2.state = "live" => s.state = "live")
           /\ \A c \in Callers, r \in CallRecord : Placed(c, r, s) => Placed(c, r, s2)
    <1>1. CASE s2 = s BY <1>1
    <1>2. CASE s.state = "live" /\ s.mu = None /\ s2 = Destroyed(s)
        <2>1. Fine(s2) /\ s2.state = "gone" BY <1>2, FreeFine DEF Destroyed, FreeSession
        <2>2. \A c \in Callers, r \in CallRecord : Placed(c, r, s) => Placed(c, r, s2)
            <3> SUFFICES ASSUME NEW c \in Callers, NEW r \in CallRecord, Placed(c, r, s) PROVE Placed(c, r, s2)
                OBVIOUS
            <3>1. r.pc \notin Handled /\ r.pc \notin Openers BY <1>2, Limits DEF Placed, Openers, FreeSession
            <3> QED BY <2>1, <3>1 DEF Placed, Handled, Sending, Openers
        <2> QED BY <2>1, <2>2
    <1>3. CASE (s.path # None \/ s.pin # None) /\ s2 = [s EXCEPT !.touched = TRUE]
        <2>0. s \in SessionRecord BY DEF Fine
        <2>1. s2 \in SessionRecord BY <1>3, <2>0 DEF SessionRecord
        <2>2. /\ s2.state = s.state /\ s2.mu = s.mu /\ s2.pending = s.pending /\ s2.path = s.path /\ s2.pin = s.pin
              /\ s2.created = s.created /\ s2.staged = s.staged /\ s2.applied = s.applied /\ s2.dirty = s.dirty
              /\ s2.tmp = s.tmp /\ s2.full = s.full /\ s2.base = s.base /\ s2.tail = s.tail /\ s2.ranges = s.ranges
            BY <1>3, <2>0 DEF SessionRecord
        <2>3. View(s2) = View(s) BY <2>2 DEF View
        <2>4. Fine(s2) BY <2>1, <2>2, <2>3 DEF Fine, Coherent, Tracks
        <2>5. \A c \in Callers, r \in CallRecord : Placed(c, r, s) => Placed(c, r, s2)
            <3> SUFFICES ASSUME NEW c \in Callers, NEW r \in CallRecord, Placed(c, r, s) PROVE Placed(c, r, s2)
                OBVIOUS
            <3>1. r.pc # "pin" BY <1>3 DEF Placed, FreeSession
            <3> QED BY <2>2, <3>1 DEF Placed, Aims
        <2> QED BY <2>2, <2>4, <2>5
    <1> QED BY <1>1, <1>2, <1>3 DEF Spared

LEMMA OpeningState ==
    ASSUME NEW c, NEW r, NEW s, Placed(c, r, s), r.pc \in Openers
    PROVE  s.state = "opening"
    BY DEF Placed, Openers, FreeSession

\* No other call minds when the handle h becomes s.
Alone(c, h, s) ==
    \A d \in Callers \ {c} : call[d].pc # "idle" /\ call[d].h = h => Placed(d, call[d], s)

LEMMA HeldAlone ==
    ASSUME Base, NEW c \in Callers, NEW h \in Handles, NEW s, s.state \in {"live", "gone"},
           session[h].state \in {"live", "gone"}, session[h].state = "live" => session[h].mu \in {c, None}
    PROVE  Alone(c, h, s)
    <1> SUFFICES ASSUME NEW d \in Callers \ {c}, call[d].pc # "idle", call[d].h = h
                 PROVE  Placed(d, call[d], s)
        BY DEF Alone
    <1>1. Placed(d, call[d], session[h]) BY DEF Base, Serving
    <1>2. call[d].pc \notin Handled BY <1>1, Limits DEF Placed
    <1>3. call[d].pc \in Openers => session[h].state = "opening" BY <1>1, OpeningState
    <1>4. call[d].pc \notin Openers BY <1>3
    <1> QED BY <1>2, <1>4 DEF Placed, Handled, Openers, Sending

LEMMA OpeningAlone ==
    ASSUME Base, NEW c \in Callers, NEW h \in Handles, NEW s,
           session[h].state = "free" \/ (call[c].pc \in Openers /\ call[c].h = h)
    PROVE  Alone(c, h, s)
    <1> SUFFICES ASSUME NEW d \in Callers \ {c}, call[d].pc # "idle", call[d].h = h
                 PROVE  FALSE
        BY DEF Alone
    <1>1. Placed(d, call[d], session[h]) /\ call[d] \in CallRecord BY DEF Base, Serving, Typed
    <1>2. CASE call[c].pc \in Openers /\ call[c].h = h
        <2>1. Placed(c, call[c], session[h]) BY <1>2 DEF Base, Serving, Openers
        <2>2. session[h].state = "opening" BY <1>2, <2>1, OpeningState
        <2>3. call[d].pc \notin Openers BY <1>2 DEF Base, Apart
        <2> QED BY <1>1, <2>2, <2>3 DEF Placed, Handled, Openers, CallRecord, Points
    <1>3. CASE session[h].state = "free"
        <2>1. call[d].pc # "pin" BY <1>1, <1>3 DEF Placed, FreeSession
        <2> QED BY <1>1, <1>3, <2>1 DEF Placed, Handled, Openers, CallRecord, Points
    <1> QED BY <1>2, <1>3

\* A step of one call on one handle; the others are kept.
LEMMA StepBase ==
    ASSUME Base, NEW c \in Callers, NEW h \in Handles, NEW r \in CallRecord, NEW s, Fine(s),
           clock' = clock, FilesTyped', table' \in Callers \cup {None}, commitMu' \in Callers \cup {None},
           call' = [call EXCEPT ![c] = r], DOMAIN session' = Handles, session' = [g \in Handles |-> session'[g]],
           session'[h] = s, \A g \in Handles \ {h} : Spared(session[g], session'[g]),
           Alone(c, h, s), r.pc # "idle" => r.h = h /\ Placed(c, r, s),
           r.pc \in Openers => (call[c].pc \in Openers /\ call[c].h = h) \/ session[h].state = "free",
           s.state = "live" => session[h].state = "live" \/ Counted'
    PROVE  Base'
    <1>1. \A g \in Handles : session[g] \in SessionRecord /\ Fine(session[g]) BY DEF Base, Typed, Fine
    <1>2. \A g \in Handles : Fine(session'[g]) BY <1>1, SparedFine
    <1>3. session' \in [Handles -> SessionRecord]
        <2>1. \A g \in Handles : session'[g] \in SessionRecord BY <1>2 DEF Fine
        <2> QED BY <2>1
    <1>4. call \in [Callers -> CallRecord] BY DEF Base, Typed
    <1>5. call' \in [Callers -> CallRecord] /\ call'[c] = r /\ \A d \in Callers \ {c} : call'[d] = call[d]
        BY <1>4
    <1>6. Typed' BY <1>3, <1>5 DEF Base, Typed
    <1>7. Serving'
        <2> SUFFICES ASSUME NEW d \in Callers, call'[d].pc # "idle"
                     PROVE  call'[d].h \in Handles /\ Placed(d, call'[d], session'[call'[d].h])
            BY DEF Serving
        <2>1. CASE d = c BY <1>5, <2>1
        <2>2. CASE d # c
            <3>1. call'[d] = call[d] BY <1>5, <2>2
            <3>2. call[d].h \in Handles /\ Placed(d, call[d], session[call[d].h]) /\ call[d] \in CallRecord
                BY <1>4, <3>1 DEF Base, Serving
            <3>3. CASE call[d].h = h BY <2>2, <3>1, <3>2, <3>3 DEF Alone
            <3>4. CASE call[d].h # h
                <4>1. Fine(session[call[d].h]) /\ Spared(session[call[d].h], session'[call[d].h]) BY <1>1, <3>2, <3>4
                <4> QED BY <3>1, <3>2, <4>1, SparedFine
            <3> QED BY <3>3, <3>4
        <2> QED BY <2>1, <2>2
    <1>8. Apart'
        <2> SUFFICES ASSUME NEW d \in Callers, NEW e \in Callers, d # e, call'[d].pc \in Openers, call'[e].pc \in Openers
                     PROVE  call'[d].h # call'[e].h
            BY DEF Apart
        <2>0. Apart BY DEF Base
        <2>1. ASSUME NEW x \in Callers \ {c}, call'[c].pc \in Openers, call'[x].pc \in Openers
              PROVE  call'[x].h # call'[c].h
            <3>1. call'[x] = call[x] /\ r.pc \in Openers /\ r.h = h /\ call'[c].h = h BY <1>5, <2>1 DEF Openers
            <3>2. CASE call[c].pc \in Openers /\ call[c].h = h BY <2>0, <2>1, <3>1, <3>2 DEF Apart
            <3>3. CASE session[h].state = "free"
                <4>1. Placed(x, call[x], session[call[x].h]) BY <2>1, <3>1 DEF Base, Serving, Openers
                <4>2. session[call[x].h].state = "opening" BY <2>1, <3>1, <4>1, OpeningState
                <4> QED BY <3>1, <3>3, <4>2
            <3> QED BY <3>1, <3>2, <3>3
        <2>2. CASE d = c BY <2>1, <2>2
        <2>3. CASE e = c BY <2>1, <2>3
        <2>4. CASE d # c /\ e # c BY <1>5, <2>0, <2>4 DEF Apart
        <2> QED BY <2>2, <2>3, <2>4
    <1>9. Counted'
        <2>1. CASE s.state = "live" /\ session[h].state # "live" BY <2>1
        <2>2. CASE ~(s.state = "live" /\ session[h].state # "live")
            <3>1. InTable' \subseteq InTable
                <4> SUFFICES ASSUME NEW g \in Handles, session'[g].state = "live" PROVE session[g].state = "live"
                    BY DEF InTable
                <4>1. CASE g = h BY <2>2, <4>1
                <4>2. CASE g # h BY <1>1, <4>2, SparedFine
                <4> QED BY <4>1, <4>2
            <3>2. IsFiniteSet(InTable) /\ Cardinality(InTable) <= Cap BY DEF Base, Counted
            <3>3. IsFiniteSet(InTable') /\ Cardinality(InTable') <= Cardinality(InTable) BY <3>1, <3>2, FS_Subset
            <3>4. Cardinality(InTable) \in Nat /\ Cardinality(InTable') \in Nat BY <3>2, <3>3, FS_CardinalityType
            <3> QED BY <3>2, <3>3, <3>4, Limits DEF Counted
        <2> QED BY <2>1, <2>2
    <1> QED BY <1>2, <1>6, <1>7, <1>8, <1>9 DEF Base

\* Only the lock and the time of use differ.
Alike(r, s) ==
    /\ r.state = s.state /\ r.append = s.append /\ r.path = s.path /\ r.pending = s.pending
    /\ r.published = s.published /\ r.pin = s.pin /\ r.base = s.base /\ r.tmp = s.tmp /\ r.staged = s.staged
    /\ r.dirty = s.dirty /\ r.applied = s.applied /\ r.created = s.created /\ r.full = s.full
    /\ r.tail = s.tail /\ r.ranges = s.ranges /\ r.touched = s.touched

LEMMA AlikeFine ==
    ASSUME NEW s, Fine(s), NEW r \in SessionRecord, Alike(r, s)
    PROVE  Fine(r)
    <1>1. View(r) = View(s) BY DEF Alike, View
    <1> QED BY <1>1 DEF Fine, Coherent, Tracks, Alike

LEMMA LockFine ==
    ASSUME NEW s, Fine(s), NEW m \in Callers \cup {None}
    PROVE  Fine([s EXCEPT !.mu = m]) /\ Alike([s EXCEPT !.mu = m], s) /\ [s EXCEPT !.mu = m].mu = m
    <1> DEFINE r == [s EXCEPT !.mu = m]
    <1>1. s \in SessionRecord BY DEF Fine
    <1>2. r \in SessionRecord BY <1>1 DEF SessionRecord
    <1>3. Alike(r, s) /\ r.mu = m BY <1>1 DEF SessionRecord, Alike
    <1> HIDE DEF r
    <1>4. Fine(r) BY <1>2, <1>3, AlikeFine
    <1> QED BY <1>3, <1>4 DEF r

LEMMA UseFine ==
    ASSUME NEW s, Fine(s), NEW t \in 0..MaxClock
    PROVE  LET r == [[s EXCEPT !.lastUse = t] EXCEPT !.mu = None]
           IN  Fine(r) /\ Alike(r, s) /\ r.mu = None
    <1> DEFINE u == [s EXCEPT !.lastUse = t]
               r == [u EXCEPT !.mu = None]
    <1>1. s \in SessionRecord BY DEF Fine
    <1>2. u \in SessionRecord BY <1>1 DEF SessionRecord
    <1>3. Alike(u, s) BY <1>1 DEF SessionRecord, Alike
    <1> HIDE DEF u
    <1>4. Fine(u) BY <1>2, <1>3, AlikeFine
    <1>5. Fine(r) /\ Alike(r, u) /\ r.mu = None BY <1>4, LockFine
    <1> HIDE DEF r
    <1>6. Alike(r, s) BY <1>3, <1>5 DEF Alike
    <1> QED BY <1>5, <1>6 DEF r, u

LEMMA PlacedAlike ==
    ASSUME NEW c, NEW r, NEW s, NEW s2, Placed(c, r, s), Alike(s2, s), r.pc # "pin",
           r.pc \in Handled => s2.mu = c
    PROVE  Placed(c, r, s2)
    BY DEF Placed, Alike, Aims, Handled, Sending

LEMMA BaseFacts ==
    ASSUME Base
    PROVE  /\ FilesTyped /\ clock \in 0..MaxClock /\ table \in Callers \cup {None} /\ commitMu \in Callers \cup {None}
           /\ session \in [Handles -> SessionRecord] /\ call \in [Callers -> CallRecord]
           /\ \A h \in Handles : session[h] \in SessionRecord /\ Fine(session[h])
           /\ \A c \in Callers : call[c] \in CallRecord
           /\ \A c \in Callers : call[c].pc # "idle" =>
                call[c].h \in Handles /\ Placed(c, call[c], session[call[c].h])
    BY DEF Base, Typed, Serving

LEMMA Answers ==
    ASSUME NEW ret \in {"ok", "failed"}
    PROVE  [Idle EXCEPT !.ret = ret] \in CallRecord /\ [Idle EXCEPT !.ret = ret].pc = "idle"
    <1>1. 0 \in 0..MaxClock /\ <<>> \in Seq(Names) BY Limits
    <1>2. Idle \in CallRecord BY <1>1 DEF Idle, CallRecord, Points, Requests
    <1> QED BY <1>2 DEF CallRecord, Idle

LEMMA FilesKept ==
    ASSUME FilesTyped, UNCHANGED files
    PROVE  FilesTyped'
    BY DEF FilesTyped, files

\* A step of the call that holds the handle, or that no other call may hold.
LEMMA HandleStep ==
    ASSUME Base, NEW c \in Callers, NEW h \in Handles, NEW r \in CallRecord, NEW s, Fine(s),
           clock' = clock, FilesTyped', table' \in Callers \cup {None}, commitMu' \in Callers \cup {None},
           call' = [call EXCEPT ![c] = r], session' = [session EXCEPT ![h] = s],
           s.state \in {"live", "gone"}, session[h].state \in {"live", "gone"},
           session[h].state = "live" => session[h].mu \in {c, None},
           session[h].state = "gone" => s.state = "gone",
           r.pc # "idle" => r.h = h /\ Placed(c, r, s), r.pc \notin Openers
    PROVE  Base'
    <1>1. session \in [Handles -> SessionRecord] BY BaseFacts
    <1>2. /\ DOMAIN session' = Handles /\ session' = [g \in Handles |-> session'[g]]
          /\ session'[h] = s /\ \A g \in Handles \ {h} : Spared(session[g], session'[g])
        BY <1>1 DEF Spared
    <1>3. Alone(c, h, s) BY HeldAlone
    <1> QED BY <1>2, <1>3, StepBase

\* The handle of a request that holds it.
LEMMA Holding ==
    ASSUME Base, NEW c \in Callers, call[c].pc \in Handled
    PROVE  /\ call[c].h \in Handles /\ Mine(c) = session[call[c].h] /\ Fine(Mine(c))
           /\ Mine(c).state = "live" /\ Mine(c).mu = c /\ Placed(c, call[c], Mine(c))
           /\ Mine(c).mu \in {c, None} /\ call[c] \in CallRecord
    <1>1. call[c].h \in Handles /\ Placed(c, call[c], session[call[c].h]) BY BaseFacts DEF Handled
    <1>2. Fine(session[call[c].h]) BY <1>1, BaseFacts
    <1>3. session[call[c].h].state = "live" /\ session[call[c].h].mu = c BY <1>1 DEF Placed
    <1> QED BY <1>1, <1>2, <1>3, BaseFacts DEF Mine

\* The request ends and gives the handle back, changed to s.
LEMMA UsedBase ==
    ASSUME Base, NEW c \in Callers, call[c].pc \in Handled, NEW s, Fine(s), s.state = "live",
           session' = Used(call[c].h, s), NEW ret \in {"ok", "failed"}, Return(c, ret),
           clock' = clock, UNCHANGED files, table' = table, commitMu' = commitMu
    PROVE  Base'
    <1>1. /\ call[c].h \in Handles /\ session[call[c].h].state = "live"
          /\ session[call[c].h].mu \in {c, None}
        BY Holding
    <1> DEFINE u == [[s EXCEPT !.lastUse = clock] EXCEPT !.mu = None]
               r == [Idle EXCEPT !.ret = ret]
    <1>2. Fine(u) /\ u.state = "live"
        <2>1. clock \in 0..MaxClock BY BaseFacts
        <2>2. Fine(u) /\ Alike(u, s) BY <2>1, UseFine
        <2> QED BY <2>2 DEF Alike
    <1>3. session' = [session EXCEPT ![call[c].h] = u] BY DEF Used, Released
    <1>4. r \in CallRecord /\ r.pc = "idle" /\ call' = [call EXCEPT ![c] = r] BY Answers DEF Return
    <1>5. FilesTyped' BY BaseFacts, FilesKept
    <1>6. table' \in Callers \cup {None} /\ commitMu' \in Callers \cup {None} BY BaseFacts
    <1> HIDE DEF u, r
    <1> QED BY <1>1, <1>2, <1>3, <1>4, <1>5, <1>6, HandleStep DEF Openers

LEMMA DataBase ==
    ASSUME Base, NEW c \in Callers,
           Write(c) \/ Truncate(c) \/ Touch(c) \/ LinkSession(c) \/ RelinkSession(c)
    PROVE  Base'
    <1> DEFINE h == call[c].h
    <1>1. call[c].pc = "held" BY DEF Write, Truncate, Touch, LinkSession, RelinkSession, Holds
    <1>2. h \in Handles /\ Fine(Mine(c)) /\ Mine(c).state = "live" BY <1>1, Holding DEF Handled
    <1>3. Return(c, "ok") /\ clock' = clock /\ UNCHANGED files /\ table' = table /\ commitMu' = commitMu
        BY DEF Write, Truncate, Touch, LinkSession, RelinkSession, LocalStep
    <1>4. ASSUME NEW s, Fine(s), s.state = "live", session' = Used(h, s) PROVE Base'
        BY <1>1, <1>3, <1>4, UsedBase DEF Handled
    <1>5. CASE Write(c)
        <2>1. PICK at \in Offsets : LET w == StagedWrite(Mine(c), at, h) IN Len(w.tmp) <= MaxLen /\ session' = Used(h, w)
            BY <1>5 DEF Write
        <2>2. h \in Byte BY <1>2 DEF Byte
        <2>3. Fine(StagedWrite(Mine(c), at, h)) /\ StagedWrite(Mine(c), at, h).state = "live"
            BY <1>2, <2>1, <2>2, WriteFine DEF Same
        <2> QED BY <1>4, <2>1, <2>3
    <1>6. CASE Truncate(c)
        <2> DEFINE t(size) == [Hydrated(Mine(c)) EXCEPT !.tmp = Padded(View(Mine(c)), size), !.full = TRUE,
                                                        !.tail = FALSE, !.dirty = TRUE, !.applied = FALSE]
        <2>1. PICK size \in 0..MaxLen : session' = Used(h, IF size = Len(View(Mine(c))) THEN Mine(c) ELSE t(size))
            BY <1>6 DEF Truncate
        <2>2. size \in Nat BY Limits
        <2>3. Fine(t(size)) /\ t(size).state = "live" BY <1>2, <2>2, TruncateFine DEF Same
        <2> HIDE DEF t
        <2> QED BY <1>2, <1>4, <2>1, <2>3
    <1>7. CASE Touch(c) BY <1>2, <1>4, <1>7 DEF Touch
    <1>8. CASE LinkSession(c)
        <2> DEFINE l(n) == [Mine(c) EXCEPT !.pending = Append(@, n), !.path = Append(Mine(c).pending, n)[1],
                                           !.created = TRUE, !.dirty = TRUE]
        <2>1. PICK n \in Names : session' = Used(h, l(n)) BY <1>8 DEF LinkSession
        <2>2. Mine(c).path = None \/ Mine(c).pending # <<>> BY <1>8 DEF LinkSession
        <2>3. Fine(l(n)) /\ l(n).state = "live" BY <1>2, <2>2, LinkFine DEF Same
        <2> HIDE DEF l
        <2> QED BY <1>4, <2>1, <2>3
    <1>9. CASE RelinkSession(c)
        <2> DEFINE l(n) == [Mine(c) EXCEPT !.pending = <<n>>, !.path = n, !.created = TRUE, !.dirty = TRUE,
                                           !.applied = FALSE, !.published = {}]
        <2>1. PICK n \in Names : session' = Used(h, l(n)) BY <1>9 DEF RelinkSession
        <2>3. Fine(l(n)) /\ l(n).state = "live" BY <1>2, RelinkFine DEF Same
        <2> HIDE DEF l
        <2> QED BY <1>4, <2>1, <2>3
    <1> QED BY <1>5, <1>6, <1>7, <1>8, <1>9

LEMMA Moves ==
    ASSUME Base, NEW c \in Callers, NEW pc \in Points, At(c, pc)
    PROVE  LET r == [call[c] EXCEPT !.pc = pc]
           IN  /\ call' = [call EXCEPT ![c] = r] /\ r \in CallRecord /\ r.pc = pc /\ r.h = call[c].h
               /\ r.targets = call[c].targets /\ r.rest = call[c].rest
    <1>1. call[c] \in CallRecord BY BaseFacts
    <1> QED BY <1>1 DEF At, CallRecord

\* The request answers that it failed.
LEMMA FailBase ==
    ASSUME Base, NEW c \in Callers, call[c].pc \in Handled, NEW inode \in Inodes \cup {None},
           Fail(c, Mine(c), inode), clock' = clock, FilesTyped', table' = table
    PROVE  Base'
    <1> DEFINE h == call[c].h
               s == [Mine(c) EXCEPT !.mu = None]
               r == [Idle EXCEPT !.ret = "failed", !.h = h, !.conflict = inode]
    <1>1. h \in Handles /\ Fine(Mine(c)) /\ Mine(c).state = "live" /\ Mine(c) = session[h] /\ Mine(c).mu \in {c, None}
        BY Holding
    <1>2. Fine(s) /\ s.state = "live" BY <1>1, LockFine DEF Alike
    <1>3. session' = [session EXCEPT ![h] = s] /\ call' = [call EXCEPT ![c] = r] /\ commitMu' = None
        BY DEF Fail, Released
    <1>4. r \in CallRecord /\ r.pc = "idle"
        <2>1. [Idle EXCEPT !.ret = "failed"] \in CallRecord BY Answers
        <2> QED BY <1>1, <2>1 DEF CallRecord, Idle, Points
    <1>5. table' \in Callers \cup {None} /\ commitMu' \in Callers \cup {None} BY <1>3, BaseFacts
    <1> HIDE DEF s, r, h
    <1> QED BY <1>1, <1>2, <1>3, <1>4, <1>5, HandleStep DEF Openers

\* The request lets its handle go before it takes the table.
LEMMA DropBase ==
    ASSUME Base, NEW c \in Callers, call[c].pc \in Handled, Drop(c), clock' = clock, UNCHANGED files,
           table' = table, commitMu' \in Callers \cup {None}
    PROVE  Base'
    <1> DEFINE h == call[c].h
               s == [Mine(c) EXCEPT !.mu = None]
               r == [call[c] EXCEPT !.pc = "reap"]
    <1>1. h \in Handles /\ Fine(Mine(c)) /\ Mine(c).state = "live" /\ Mine(c) = session[h] /\ Mine(c).mu \in {c, None}
        BY Holding
    <1>2. Fine(s) /\ s.state = "live" BY <1>1, LockFine DEF Alike
    <1>3. call' = [call EXCEPT ![c] = r] /\ r \in CallRecord /\ r.pc = "reap" /\ r.h = h
        BY Moves DEF Drop, Points
    <1>4. session' = [session EXCEPT ![h] = s]
        <2>1. session \in [Handles -> SessionRecord] BY BaseFacts
        <2> QED BY <1>1, <2>1 DEF Drop
    <1>5. table' \in Callers \cup {None} /\ FilesTyped' BY BaseFacts, FilesKept
    <1> HIDE DEF s, r, h
    <1>6. Placed(c, r, s) BY <1>2, <1>3 DEF Placed, Handled, Sending
    <1> QED BY <1>1, <1>2, <1>3, <1>4, <1>5, <1>6, HandleStep DEF Openers

LEMMA TargetsAim ==
    ASSUME Base, NEW c \in Callers, CommitResolve(c)
    PROVE  LET s == Mine(c)
           IN  /\ CommitTargets(s) \in Seq(Names) /\ Aims(s, CommitTargets(s))
               /\ s.pending = <<>> => CommitTargets(s)[1] \in Names /\ CommitTargets(s) = <<CommitPath(s)>>
               /\ s.pending = <<>> /\ ~s.created => live[CommitTargets(s)[1]] = s.pin
    <1> DEFINE s == Mine(c)
    <1>1. s \in SessionRecord /\ s.path # None BY Holding DEF CommitResolve, Committing, Handled, Fine
    <1>2. s.pending \in Seq(Names) /\ s.path \in Names BY <1>1, Fields
    <1>3. CommitTargets(s) # <<None>> BY DEF CommitResolve
    <1>4. CASE s.pending # <<>> BY <1>2, <1>4 DEF CommitTargets, Aims
    <1>5. CASE s.pending = <<>>
        <2>1. CommitTargets(s) = <<CommitPath(s)>> /\ CommitPath(s) # None BY <1>3, <1>5 DEF CommitTargets
        <2>2. /\ CommitPath(s) \in Names /\ (s.created => CommitPath(s) = s.path)
              /\ ~s.created => live[CommitPath(s)] = s.pin
            <3>1. CASE s.created \/ live[s.path] = s.pin BY <1>2, <3>1 DEF CommitPath
            <3>2. CASE ~(s.created \/ live[s.path] = s.pin)
                <4>1. NamesOf(s.pin) # {} /\ CommitPath(s) = CHOOSE n \in NamesOf(s.pin) : TRUE
                    BY <2>1, <3>2 DEF CommitPath
                <4>2. CommitPath(s) \in NamesOf(s.pin) BY <4>1
                <4> QED BY <3>2, <4>2 DEF NamesOf
            <3> QED BY <3>1, <3>2
        <2> HIDE DEF s
        <2>3. <<CommitPath(s)>> \in Seq(Names) /\ Len(<<CommitPath(s)>>) = 1 /\ <<CommitPath(s)>>[1] = CommitPath(s)
              /\ <<CommitPath(s)>> # <<>>
            BY <2>2
        <2> QED BY <1>5, <2>1, <2>2, <2>3 DEF Aims, s
    <1> QED BY <1>4, <1>5

LEMMA CommitBase ==
    ASSUME Base, NEW c \in Callers,
           CommitNothing(c) \/ SyncUnlinked(c) \/ CommitResolve(c) \/ CommitLock(c) \/ CommitFault(c) \/ Drain(c)
    PROVE  Base'
    <1> DEFINE h == call[c].h
    <1>1. call[c].pc \in Handled
        BY DEF CommitNothing, SyncUnlinked, CommitResolve, CommitLock, CommitFault, Drain, Committing, Holds, Handled
    <1>2. /\ h \in Handles /\ Fine(Mine(c)) /\ Mine(c).state = "live" /\ Mine(c) = session[h] /\ Mine(c).mu = c
          /\ Mine(c).mu \in {c, None} /\ Placed(c, call[c], Mine(c)) /\ call[c] \in CallRecord
        BY <1>1, Holding
    <1>3. clock' = clock /\ UNCHANGED files /\ table' = table
        BY DEF CommitNothing, SyncUnlinked, CommitResolve, CommitLock, CommitFault, Drain, files
    <1>4. FilesTyped' /\ table' \in Callers \cup {None} /\ commitMu \in Callers \cup {None}
        BY <1>3, BaseFacts, FilesKept
    <1>10. session[h].state \in {"live", "gone"} /\ session[h].mu \in {c, None} /\ session[h].state # "gone"
        BY <1>2
    <1>5. CASE CommitNothing(c)
        <2>1. CASE call[c].op = "sync" BY <1>1, <1>2, <1>3, <1>5, <2>1, UsedBase DEF CommitNothing
        <2>2. CASE call[c].op # "sync" BY <1>1, <1>3, <1>4, <1>5, <2>2, DropBase DEF CommitNothing
        <2> QED BY <2>1, <2>2
    <1>6. CASE SyncUnlinked(c)
        <2> DEFINE s == [Mine(c) EXCEPT !.mu = None]
                   r == [Idle EXCEPT !.ret = "failed"]
        <2>1. Fine(s) /\ s.state = "live" BY <1>2, LockFine DEF Alike
        <2>2. session' = [session EXCEPT ![h] = s] /\ call' = [call EXCEPT ![c] = r] /\ commitMu' = commitMu
            BY <1>6 DEF SyncUnlinked, Released, Return
        <2>3. r \in CallRecord /\ r.pc = "idle" BY Answers
        <2> HIDE DEF s, r, h
        <2> QED BY <1>2, <1>3, <1>4, <2>1, <2>2, <2>3, HandleStep DEF Openers
    <1>7. CASE CommitResolve(c)
        <2> DEFINE s == Hydrated(Mine(c))
                   t == CommitTargets(Mine(c))
                   r == [call[c] EXCEPT !.pc = "commit", !.targets = t]
        <2>1. /\ Fine(s) /\ s.staged /\ s.path = Mine(c).path /\ s.pending = Mine(c).pending
              /\ s.created = Mine(c).created /\ s.state = "live" /\ s.mu = c /\ s.dirty = Mine(c).dirty
            BY <1>2, HydratedFine DEF Hydrated, Fine, SessionRecord
        <2>2. t \in Seq(Names) /\ Aims(Mine(c), t) BY <1>7, TargetsAim
        <2>3. /\ session' = [session EXCEPT ![h] = s] /\ Mine(c).path # None /\ Mine(c).dirty /\ commitMu' = commitMu
              /\ call' = [call EXCEPT ![c].pc = "commit", ![c].targets = t]
            BY <1>7 DEF CommitResolve
        <2> HIDE DEF t, s
        <2>4. call' = [call EXCEPT ![c] = r]
            <3>1. call \in [Callers -> CallRecord] BY BaseFacts
            <3> QED BY <2>3, <3>1 DEF CallRecord
        <2>5. r \in CallRecord /\ r.pc = "commit" /\ r.h = h /\ r.targets = t BY <1>2, <2>2 DEF CallRecord, Points
        <2> HIDE DEF r, h
        <2>6. Aims(s, t) BY <2>1, <2>2 DEF Aims
        <2>7. Placed(c, r, s) BY <2>1, <2>3, <2>5, <2>6 DEF Placed, Handled, Sending
        <2>8. r.pc \notin Openers BY <2>5 DEF Openers
        <2> QED BY <1>2, <1>3, <1>4, <1>10, <2>1, <2>3, <2>4, <2>5, <2>7, <2>8, HandleStep
    <1>8. CASE CommitLock(c)
        <2> DEFINE taken == Taken(Mine(c), call[c].targets)
        <2>1. CASE taken # {}
            <3>1. PICK n \in taken : Fail(c, Mine(c), live[n]) BY <1>8, <2>1 DEF CommitLock
            <3>2. n \in Names
                <4>1. call[c].targets \in Seq(Names) BY <1>2 DEF CallRecord
                <4>2. Range(call[c].targets) \subseteq Names BY <4>1 DEF Range
                <4> QED BY <3>1, <4>2 DEF Taken, Unpublished
            <3>3. live[n] \in Inodes \cup {None} BY <3>2, BaseFacts DEF FilesTyped
            <3> QED BY <1>1, <1>3, <1>4, <3>1, <3>3, FailBase
        <2>2. CASE taken = {}
            <3> DEFINE pc == IF Mine(c).applied THEN "drain" ELSE "verbs"
                       r == [call[c] EXCEPT !.pc = pc, !.rest = call[c].targets]
            <3>1. /\ commitMu' = c /\ session' = session
                  /\ call' = [call EXCEPT ![c].pc = pc, ![c].rest = call[c].targets] /\ call[c].pc = "commit"
                BY <1>8, <2>2 DEF CommitLock
            <3>2. call' = [call EXCEPT ![c] = r]
                <4>1. call \in [Callers -> CallRecord] BY BaseFacts
                <4> QED BY <3>1, <4>1 DEF CallRecord
            <3>3. pc \in Points /\ pc \in {"drain", "verbs"} BY DEF Points
            <3>4. r \in CallRecord /\ r.pc = pc /\ r.h = h /\ r.targets = call[c].targets /\ r.rest = call[c].targets
                BY <1>2, <3>3 DEF CallRecord
            <3>5. session' = [session EXCEPT ![h] = Mine(c)]
                <4>1. session \in [Handles -> SessionRecord] BY BaseFacts
                <4> QED BY <1>2, <3>1, <4>1
            <3>6. Mine(c).applied \in BOOLEAN BY <1>2, Fields DEF Fine
            <3>7. pc = "drain" => Mine(c).applied BY <3>6
            <3>8. pc = "verbs" => ~Mine(c).applied BY <3>6
            <3>9. Aims(Mine(c), call[c].targets) /\ Mine(c).staged /\ Mine(c).dirty /\ Mine(c).path # None
                BY <1>2, <3>1 DEF Placed, Sending
            <3> HIDE DEF r, h, pc
            <3>10. Placed(c, r, Mine(c))
                BY <1>2, <3>3, <3>4, <3>7, <3>8, <3>9 DEF Placed, Handled, Sending, Aims
            <3>11. r.pc \notin Openers /\ commitMu' \in Callers \cup {None} BY <3>1, <3>3, <3>4 DEF Openers
            <3> QED BY <1>2, <1>3, <1>4, <1>10, <3>2, <3>4, <3>5, <3>10, <3>11, HandleStep
        <2> QED BY <2>1, <2>2
    <1>9. CASE CommitFault(c) BY <1>1, <1>3, <1>4, <1>9, FailBase DEF CommitFault
    <1>11. CASE Drain(c)
        <2>0. commitMu' = None BY <1>11 DEF Drain
        <2>1. CASE call[c].op = "sync"
            <3> DEFINE r == [call[c] EXCEPT !.pc = "repin"]
            <3>1. At(c, "repin") /\ session' = session /\ call[c].pc = "drain" BY <1>11, <2>1 DEF Drain
            <3>2. call' = [call EXCEPT ![c] = r] /\ r \in CallRecord /\ r.pc = "repin" /\ r.h = h /\ r.targets = call[c].targets
                BY <3>1, Moves DEF Points
            <3>5. session' = [session EXCEPT ![h] = Mine(c)]
                <4>1. session \in [Handles -> SessionRecord] BY BaseFacts
                <4> QED BY <1>2, <3>1, <4>1
            <3>6. Aims(Mine(c), call[c].targets) BY <1>2, <3>1 DEF Placed, Sending
            <3> HIDE DEF r, h
            <3>7. Placed(c, r, Mine(c)) BY <1>2, <3>2, <3>6 DEF Placed, Handled, Sending
            <3> QED BY <1>2, <1>3, <1>4, <2>0, <3>2, <3>5, <3>7, HandleStep DEF Openers
        <2>2. CASE call[c].op # "sync" BY <1>1, <1>3, <1>4, <1>11, <2>0, <2>2, DropBase DEF Drain
        <2> QED BY <2>1, <2>2
    <1> QED BY <1>5, <1>6, <1>7, <1>8, <1>9, <1>11

LEMMA MarkedSpares ==
    ASSUME NEW ss \in [Handles -> SessionRecord], \A g \in Handles : Fine(ss[g]), NEW actor, NEW live2, NEW data2
    PROVE  LET m == Marked(ss, actor, live2, data2)
           IN  /\ DOMAIN m = Handles /\ m = [g \in Handles |-> m[g]] /\ (actor \in Handles => m[actor] = ss[actor])
               /\ \A g \in Handles : Spared(ss[g], m[g])
               /\ \A g \in Handles : m[g] = ss[g] \/ m[g] = [ss[g] EXCEPT !.touched = TRUE]
               /\ \A g \in Handles : g # actor /\ Sees(ss[g], live2, data2) => m[g] = [ss[g] EXCEPT !.touched = TRUE]
    <1>1. ASSUME NEW g \in Handles, Sees(ss[g], live2, data2) PROVE ss[g].path # None \/ ss[g].pin # None
        <2> SUFFICES ASSUME ss[g].path = None, ss[g].pin = None PROVE FALSE OBVIOUS
        <2>1. ss[g] \in SessionRecord OBVIOUS
        <2> DEFINE s == ss[g]
        <2>2. s.pin \notin Inodes BY Limits
        <2>3. s.pending = <<>>
            <3>1. s.pending \in Seq(Names) /\ Coherent(s) BY <2>1, Fields DEF Fine
            <3>2. s.pending # <<>> => s.pending[1] \in Names BY <3>1
            <3> QED BY <3>1, <3>2, Limits DEF Coherent
        <2>4. Watched(s) = {None} BY <2>3 DEF Watched, Range
        <2> HIDE DEF s
        <2> QED BY <1>1, <2>2, <2>4, Limits DEF Sees, s
    <1> QED BY <1>1 DEF Marked, Spared

\* A verb that is not refused, in a request of handle h: what it publishes.
LEMMA VerbPublishes ==
    ASSUME Base, NEW c \in Callers, VerbStep(c), files' # files \/ call'[c].pc # "idle"
    PROVE  LET h == call[c].h
               s == Mine(c)
               n == Head(call[c].rest)
               last == Len(call[c].rest) = 1
               done == [s EXCEPT !.published = IF s.pending # <<>> /\ s.created THEN @ \cup {n} ELSE @,
                                 !.applied = last]
           IN  /\ ~VerbRefused(s, n) /\ n \in Range(call[c].rest) /\ n \in Range(call[c].targets) /\ n \in Names
               /\ FilesTyped'
               /\ session' = Marked([session EXCEPT ![h] = done], h, live', data')
               /\ live'[n] # None /\ live'[n] \in Inodes /\ data'[live'[n]] \in Bytes
               /\ \A m \in Names : m # n => live'[m] = live[m]
               /\ \A i \in Inodes : i # live'[n] => data'[i] = data[i]
               /\ \/ live[n] = None /\ data[live'[n]] = None /\ data'[live'[n]] = s.tmp
                  \/ /\ live[n] = live'[n] /\ data[live[n]] \in Bytes
                     /\ data'[live[n]] = IF s.pending # <<>> THEN s.tmp ELSE Image(s, data[live[n]])
                     /\ s.pending = <<>> => ~s.created /\ EditsFit(s, data[live[n]])
               /\ call' = [call EXCEPT ![c].rest = Tail(@), ![c].pc = IF last THEN "drain" ELSE "verbs"]
               /\ table' = table /\ clock' = clock /\ commitMu' = commitMu
    <1> DEFINE h == call[c].h
               s == Mine(c)
               n == Head(call[c].rest)
               last == Len(call[c].rest) = 1
               done == [s EXCEPT !.published = IF s.pending # <<>> /\ s.created THEN @ \cup {n} ELSE @,
                                 !.applied = last]
               advance == call' = [call EXCEPT ![c].rest = Tail(@), ![c].pc = IF last THEN "drain" ELSE "verbs"]
    <1>1. /\ h \in Handles /\ Fine(s) /\ s.state = "live" /\ s.mu = c /\ Placed(c, call[c], s)
          /\ call[c] \in CallRecord /\ call[c].pc = "verbs"
        BY Holding DEF VerbStep, Handled
    <1>2. /\ call[c].rest \in Seq(Names) /\ call[c].rest # <<>> /\ call[c].targets \in Seq(Names)
          /\ Range(call[c].rest) \subseteq Range(call[c].targets) /\ s.staged
        BY <1>1 DEF Placed, CallRecord
    <1>3. n \in Names /\ n \in Range(call[c].rest) /\ n \in Range(call[c].targets)
        <2>1. n = call[c].rest[1] /\ 1 \in DOMAIN call[c].rest BY <1>2
        <2> HIDE DEF n
        <2>2. n \in Range(call[c].rest) BY <2>1 DEF Range
        <2>3. n \in Names BY <1>2, <2>1
        <2> QED BY <1>2, <2>2, <2>3
    <1>4. FilesTyped /\ s.tmp \in Bytes /\ s.created \in BOOLEAN BY <1>1, BaseFacts, Fields DEF Fine
    <1>5. s.tmp # None BY <1>4, Limits
    <1>6. clock' = clock /\ table' = table BY DEF VerbStep
    <1>7. ~(Fail(c, s, IF MakesFile(s, n) THEN live[n] ELSE None) /\ UNCHANGED files)
        <2> SUFFICES ASSUME Fail(c, s, IF MakesFile(s, n) THEN live[n] ELSE None), UNCHANGED files PROVE FALSE
            OBVIOUS
        <2>1. call \in [Callers -> CallRecord] BY BaseFacts
        <2>2. call'[c].pc = "idle" BY <2>1 DEF Fail, Idle
        <2> QED BY <2>2
    <1> HIDE DEF n, s, h
    <1>8. CASE /\ ~VerbRefused(s, n) /\ live[n] = None /\ CanMint
               /\ live' = [live EXCEPT ![n] = Minted]
               /\ data' = [data EXCEPT ![Minted] = s.tmp]
               /\ session' = Marked([session EXCEPT ![h] = done], h, live', data')
               /\ advance /\ UNCHANGED commitMu
        <2>1. Minted \in Inodes /\ data[Minted] = None BY <1>8 DEF CanMint, Minted
        <2>2. live'[n] = Minted /\ data'[Minted] = s.tmp
              /\ (\A m \in Names : m # n => live'[m] = live[m])
              /\ (\A i \in Inodes : i # Minted => data'[i] = data[i])
            BY <1>3, <1>4, <1>8, <2>1 DEF FilesTyped
        <2>3. live' \in [Names -> Inodes \cup {None}] /\ data' \in [Inodes -> Bytes \cup {None}]
            BY <1>4, <1>8, <2>1 DEF FilesTyped
        <2>5. \A m \in Names : live'[m] # None => data'[live'[m]] # None
            <3> TAKE m \in Names
            <3>1. CASE m = n BY <1>5, <2>2, <3>1
            <3>2. CASE m # n BY <1>4, <1>5, <2>1, <2>2, <3>2 DEF FilesTyped
            <3> QED BY <3>1, <3>2
        <2>6. FilesTyped' BY <2>3, <2>5 DEF FilesTyped
        <2>7. Minted # None BY <2>1, Limits
        <2> QED BY <1>3, <1>4, <1>6, <1>8, <2>1, <2>2, <2>6, <2>7 DEF n, s, h
    <1>9. CASE /\ ~VerbRefused(s, n) /\ live[n] # None
               /\ data' = [data EXCEPT ![live[n]] = IF s.pending # <<>> THEN s.tmp ELSE Image(s, @)]
               /\ session' = Marked([session EXCEPT ![h] = done], h, live, data')
               /\ advance /\ UNCHANGED <<live, commitMu>>
        <2> DEFINE i == live[n]
                   image == IF s.pending # <<>> THEN s.tmp ELSE Image(s, data[i])
        <2>1. i \in Inodes /\ data[i] \in Bytes /\ live' = live BY <1>3, <1>4, <1>9 DEF FilesTyped
        <2>2. s.pending = <<>> => ~s.created /\ EditsFit(s, data[i]) BY <1>9 DEF VerbRefused, MakesFile
        <2>3. image \in Bytes
            <3>1. s.pending = <<>> => Image(s, data[i]) \in Bytes BY <1>1, <1>2, <2>1, <2>2, ImageBytes
            <3> QED BY <1>4, <3>1
        <2>4. data' = [data EXCEPT ![i] = image] BY <1>9
        <2> HIDE DEF image
        <2>5. data'[i] = image /\ (\A j \in Inodes : j # i => data'[j] = data[j])
              /\ data' \in [Inodes -> Bytes \cup {None}]
            BY <1>4, <2>1, <2>3, <2>4 DEF FilesTyped
        <2>6. image # None BY <2>3, Limits
        <2>7. \A m \in Names : live'[m] # None => data'[live'[m]] # None
            BY <1>4, <2>1, <2>5, <2>6 DEF FilesTyped
        <2>8. FilesTyped' BY <1>4, <2>1, <2>5, <2>7 DEF FilesTyped
        <2>9. session' = Marked([session EXCEPT ![h] = done], h, live', data') BY <1>9, <2>1
        <2> QED BY <1>3, <1>6, <1>9, <2>1, <2>2, <2>3, <2>5, <2>8, <2>9 DEF n, s, h, image
    <1>10. \/ Fail(c, s, IF MakesFile(s, n) THEN live[n] ELSE None) /\ UNCHANGED files
           \/ /\ ~VerbRefused(s, n) /\ live[n] = None /\ CanMint
              /\ live' = [live EXCEPT ![n] = Minted]
              /\ data' = [data EXCEPT ![Minted] = s.tmp]
              /\ session' = Marked([session EXCEPT ![h] = done], h, live', data')
              /\ advance /\ UNCHANGED commitMu
           \/ /\ ~VerbRefused(s, n) /\ live[n] # None
              /\ data' = [data EXCEPT ![live[n]] = IF s.pending # <<>> THEN s.tmp ELSE Image(s, @)]
              /\ session' = Marked([session EXCEPT ![h] = done], h, live, data')
              /\ advance /\ UNCHANGED <<live, commitMu>>
        BY DEF VerbStep, n, s, h
    <1> QED BY <1>7, <1>8, <1>9, <1>10

LEMMA DoneFine ==
    ASSUME NEW s, Fine(s), s.staged, s.dirty, NEW n \in Names, NEW last \in BOOLEAN
    PROVE  Fine([s EXCEPT !.published = IF s.pending # <<>> /\ s.created THEN @ \cup {n} ELSE @, !.applied = last])
    <1> DEFINE d == [s EXCEPT !.published = IF s.pending # <<>> /\ s.created THEN @ \cup {n} ELSE @, !.applied = last]
    <1>1. s \in SessionRecord BY DEF Fine
    <1>2. /\ d \in SessionRecord /\ d.applied = last /\ d.path = s.path /\ d.pending = s.pending
          /\ d.pin = s.pin /\ d.base = s.base /\ d.tmp = s.tmp /\ d.staged = s.staged
          /\ d.dirty = s.dirty /\ d.created = s.created /\ d.full = s.full /\ d.tail = s.tail
          /\ d.ranges = s.ranges
        <2> DEFINE grown == IF s.pending # <<>> /\ s.created THEN s.published \cup {n} ELSE s.published
        <2>1. grown \in SUBSET Names BY <1>1 DEF SessionRecord
        <2>2. d = [s EXCEPT !.published = grown, !.applied = last] OBVIOUS
        <2> HIDE DEF d, grown
        <2>3. d \in SessionRecord BY <1>1, <2>1, <2>2 DEF SessionRecord
        <2>4. d.applied = last BY <1>1, <2>2 DEF SessionRecord
        <2>5. d.path = s.path /\ d.pending = s.pending /\ d.pin = s.pin /\ d.base = s.base
            BY <1>1, <2>2 DEF SessionRecord
        <2>6. d.tmp = s.tmp /\ d.staged = s.staged /\ d.dirty = s.dirty /\ d.created = s.created
            BY <1>1, <2>2 DEF SessionRecord
        <2>7. d.full = s.full /\ d.tail = s.tail /\ d.ranges = s.ranges
            BY <1>1, <2>2 DEF SessionRecord
        <2> QED BY <2>3, <2>4, <2>5, <2>6, <2>7
    <1> HIDE DEF d
    <1>3. Coherent(d) BY <1>2 DEF Fine, Coherent
    <1>4. View(d) = View(s) BY <1>2 DEF View
    <1>5. Tracks(d) BY <1>2, <1>4 DEF Fine, Tracks
    <1> QED BY <1>2, <1>3, <1>5 DEF Fine, d

LEMMA VerbBase ==
    ASSUME Base, NEW c \in Callers, VerbStep(c)
    PROVE  Base'
    <1> DEFINE h == call[c].h
               s == Mine(c)
               n == Head(call[c].rest)
               last == Len(call[c].rest) = 1
               done == [s EXCEPT !.published = IF s.pending # <<>> /\ s.created THEN @ \cup {n} ELSE @,
                                 !.applied = last]
    <1>1. /\ h \in Handles /\ Fine(s) /\ s.state = "live" /\ s.mu = c /\ Placed(c, call[c], s)
          /\ call[c] \in CallRecord /\ call[c].pc = "verbs" /\ s = session[h] /\ s \in SessionRecord
        BY Holding DEF VerbStep, Handled, Fine
    <1>2. clock' = clock /\ table' = table BY DEF VerbStep
    <1>3. CASE files' = files /\ call'[c].pc = "idle"
        <2> DEFINE inode == IF MakesFile(s, n) THEN live[n] ELSE None
        <2>1. Fail(c, s, inode)
            <3>1. call \in [Callers -> CallRecord] BY BaseFacts
            <3>2. ~(call' = [call EXCEPT ![c].rest = Tail(@), ![c].pc = IF last THEN "drain" ELSE "verbs"])
                <4> SUFFICES ASSUME call' = [call EXCEPT ![c].rest = Tail(@), ![c].pc = IF last THEN "drain" ELSE "verbs"]
                             PROVE  FALSE
                    OBVIOUS
                <4>1. call'[c].pc = IF last THEN "drain" ELSE "verbs" BY <3>1 DEF CallRecord
                <4> QED BY <1>3, <4>1
            <3> QED BY <3>2 DEF VerbStep
        <2>2. n \in Names
            <3>1. call[c].rest \in Seq(Names) /\ call[c].rest # <<>> BY <1>1 DEF CallRecord, Placed
            <3> QED BY <3>1
        <2>3. inode \in Inodes \cup {None} BY <2>2, BaseFacts DEF FilesTyped
        <2>4. FilesTyped' BY <1>3, BaseFacts, FilesKept
        <2> HIDE DEF inode
        <2> QED BY <1>1, <1>2, <2>1, <2>3, <2>4, FailBase DEF Handled
    <1>4. CASE files' # files \/ call'[c].pc # "idle"
        <2> DEFINE pc == IF last THEN "drain" ELSE "verbs"
                   r == [call[c] EXCEPT !.rest = Tail(@), !.pc = pc]
                   ss == [session EXCEPT ![h] = done]
        <2>1. /\ n \in Names /\ FilesTyped' /\ session' = Marked(ss, h, live', data') /\ commitMu' = commitMu
              /\ call' = [call EXCEPT ![c].rest = Tail(@), ![c].pc = pc]
            BY <1>4, VerbPublishes
        <2>2. call[c].rest \in Seq(Names) /\ call[c].rest # <<>> BY <1>1 DEF CallRecord, Placed
        <2>3. Tail(call[c].rest) \in Seq(Names) /\ pc \in Points BY <2>2 DEF Points
        <2>4. call' = [call EXCEPT ![c] = r]
            <3>1. call \in [Callers -> CallRecord] BY BaseFacts
            <3> QED BY <2>1, <3>1 DEF CallRecord
        <2>5. /\ r \in CallRecord /\ r.pc = pc /\ r.h = h /\ r.targets = call[c].targets
              /\ r.rest = Tail(call[c].rest)
            BY <1>1, <2>3 DEF CallRecord
        <2>6. /\ done \in SessionRecord /\ done.published \in SUBSET Names /\ done.applied = last
              /\ done.state = "live" /\ done.mu = c /\ done.path = s.path /\ done.pending = s.pending
              /\ done.pin = s.pin /\ done.base = s.base /\ done.tmp = s.tmp /\ done.staged = s.staged
              /\ done.dirty = s.dirty /\ done.created = s.created /\ done.full = s.full /\ done.tail = s.tail
              /\ done.ranges = s.ranges
            <3>1. s \in SessionRecord /\ n \in Names /\ last \in BOOLEAN BY <1>1, <2>1
            <3>2. s.state = "live" /\ s.mu = c BY <1>1
            <3> HIDE DEF s, n, last
            <3> QED BY <3>1, <3>2 DEF SessionRecord
        <2>7. /\ s.staged /\ s.dirty /\ s.path # None /\ Aims(s, call[c].targets)
              /\ call[c].rest # <<>> /\ Range(call[c].rest) \subseteq Range(call[c].targets)
              /\ s.pending = <<>> => call[c].rest = call[c].targets
            BY <1>1 DEF Placed, Sending
        <2> HIDE DEF done, r, s, h, n
        <2>8. Fine(done) BY <1>1, <2>1, <2>7, DoneFine DEF done, s, n, last
        <2>9. Aims(done, r.targets) BY <2>5, <2>6, <2>7 DEF Aims
        <2>10. r.pc \in Sending /\ r.pc \notin Openers /\ r.pc \in {"drain", "verbs"}
            BY <2>5 DEF Sending, Openers
        <2>11. Placed(c, r, done)
            <3>1. CASE last
                <4>1. pc = "drain" /\ done.applied BY <2>6, <3>1
                <4> QED BY <2>5, <2>6, <2>7, <2>9, <4>1 DEF Placed, Handled, Sending
            <3>2. CASE ~last
                <4>1. pc = "verbs" /\ ~done.applied BY <2>6, <3>2
                <4>2. done.pending # <<>> BY <2>6, <2>7, <3>2 DEF Aims
                <4>3. Len(call[c].rest) \in Nat /\ Len(call[c].rest) > 1
                    <5> DEFINE q == call[c].rest
                    <5>1. q \in Seq(Names) /\ q # <<>> /\ Len(q) # 1 BY <2>2, <3>2
                    <5> HIDE DEF q
                    <5>2. Len(q) \in Nat /\ Len(q) # 0 BY <5>1
                    <5>3. PICK k \in Nat : k = Len(q) BY <5>2
                    <5>4. k # 0 /\ k # 1 BY <5>1, <5>2, <5>3
                    <5>5. k > 1 BY <5>4
                    <5> QED BY <5>2, <5>3, <5>5 DEF q
                <4>4. Tail(call[c].rest) # <<>> /\ Range(Tail(call[c].rest)) \subseteq Range(call[c].rest)
                    <5> DEFINE q == call[c].rest
                    <5>1. q \in Seq(Names) BY <2>2
                    <5> HIDE DEF q
                    <5>0. q # <<>> BY <2>2 DEF q
                    <5>2. Len(Tail(q)) = Len(q) - 1 /\ \A i \in 1..Len(q) - 1 : Tail(q)[i] = q[i + 1]
                        BY <5>0, <5>1, HeadTailProperties
                    <5>3. Tail(q) # <<>> BY <4>3, <5>1, <5>2 DEF q
                    <5>4. DOMAIN q = 1..Len(q) /\ DOMAIN Tail(q) = 1..Len(q) - 1 BY <4>3, <5>1, <5>2 DEF q
                    <5>5. Range(Tail(q)) \subseteq Range(q) BY <5>1, <5>2, <5>4 DEF Range
                    <5> QED BY <5>3, <5>5 DEF q
                <4>5. Range(r.rest) \subseteq Range(r.targets) /\ r.rest # <<>> BY <2>5, <2>7, <4>4
                <4> QED BY <2>5, <2>6, <2>7, <2>9, <4>1, <4>2, <4>5 DEF Placed, Handled, Sending
            <3> QED BY <3>1, <3>2
        <2>12. /\ ss \in [Handles -> SessionRecord] /\ ss[h] = done /\ \A g \in Handles : Fine(ss[g])
               /\ \A g \in Handles \ {h} : ss[g] = session[g]
            <3>1. session \in [Handles -> SessionRecord] /\ \A g \in Handles : Fine(session[g]) BY BaseFacts
            <3>2. h \in Handles BY <1>1 DEF h
            <3> QED BY <2>6, <2>8, <3>1, <3>2
        <2> HIDE DEF ss
        <2>13. /\ DOMAIN session' = Handles /\ session' = [g \in Handles |-> session'[g]] /\ session'[h] = done
               /\ \A g \in Handles : Spared(ss[g], session'[g])
            <3>1. h \in Handles BY <1>1 DEF h
            <3> QED BY <2>1, <2>12, <3>1, MarkedSpares
        <2>14. h \in Handles /\ session[h].state = "live" /\ session[h].mu \in {c, None} BY <1>1 DEF h, s
        <2>15. Alone(c, h, done) BY <2>6, <2>14, HeldAlone
        <2>16. \A g \in Handles \ {h} : Spared(session[g], session'[g]) BY <2>12, <2>13
        <2>17. table' \in Callers \cup {None} /\ commitMu' \in Callers \cup {None} BY <1>2, <2>1, BaseFacts
        <2> QED BY <1>2, <2>1, <2>4, <2>5, <2>8, <2>10, <2>11, <2>13, <2>14, <2>15, <2>16, <2>17, StepBase, ZenonT(60)
    <1> QED BY <1>3, <1>4

\* The request waits for its handle; nobody's handle changes.
LEMMA WaitBase ==
    ASSUME Base, NEW c \in Callers, NEW r \in CallRecord, r.pc \in {"await", "rewait"}, r.h \in Handles,
           session[r.h].state \in {"live", "gone"}, session' = session, call' = [call EXCEPT ![c] = r],
           clock' = clock, UNCHANGED files, table' \in Callers \cup {None}, commitMu' = commitMu
    PROVE  Base'
    <1>1. session \in [Handles -> SessionRecord] /\ (\A g \in Handles : Fine(session[g]))
          /\ commitMu' \in Callers \cup {None} /\ FilesTyped'
        BY BaseFacts, FilesKept
    <1>2. Alone(c, r.h, session[r.h]) BY BaseFacts DEF Alone
    <1>3. Placed(c, r, session[r.h]) BY DEF Placed, Handled, Sending
    <1>4. \A g \in Handles : Spared(session[g], session'[g]) BY DEF Spared
    <1>5. DOMAIN session' = Handles /\ session' = [g \in Handles |-> session'[g]] BY <1>1
    <1>6. r.pc \notin Openers BY DEF Openers
    <1>7. session'[r.h] = session[r.h] /\ Fine(session[r.h]) BY <1>1
    <1> QED BY <1>1, <1>2, <1>3, <1>4, <1>5, <1>6, <1>7, StepBase

\* getLiveLocked, once nobody holds the handle.
LEMMA EnterBase ==
    ASSUME Base, NEW c \in Callers, NEW h \in Handles, NEW op \in Requests, NEW now, Enter(c, h, now, op),
           session[h].state \in {"live", "gone"}, session[h].mu = None,
           clock' = clock, UNCHANGED files, table' = None, commitMu' = commitMu
    PROVE  Base'
    <1>1. /\ session \in [Handles -> SessionRecord] /\ Fine(session[h]) /\ FilesTyped'
          /\ table' \in Callers \cup {None} /\ commitMu' \in Callers \cup {None}
        BY BaseFacts, FilesKept
    <1>2. /\ [Idle EXCEPT !.ret = "failed"] \in CallRecord /\ [Idle EXCEPT !.ret = "failed"].pc = "idle"
        BY Answers
    <1>3. CASE session[h].state # "live"
        <2>1. session' = [session EXCEPT ![h] = session[h]] BY <1>1, <1>3 DEF Enter
        <2>2. call' = [call EXCEPT ![c] = [Idle EXCEPT !.ret = "failed"]] BY <1>3 DEF Enter, Return
        <2> QED BY <1>1, <1>2, <2>1, <2>2, HandleStep DEF Openers
    <1>4. CASE session[h].state = "live" /\ Expired(session[h], now)
        <2> DEFINE s == Destroyed(session[h])
        <2>1. Fine(s) /\ s.state = "gone" BY FreeFine DEF Destroyed, FreeSession
        <2>2. session' = [session EXCEPT ![h] = s] /\ call' = [call EXCEPT ![c] = [Idle EXCEPT !.ret = "failed"]]
            BY <1>4 DEF Enter, Return
        <2> HIDE DEF s
        <2> QED BY <1>1, <1>2, <2>1, <2>2, HandleStep DEF Openers
    <1>5. CASE session[h].state = "live" /\ ~Expired(session[h], now)
        <2> DEFINE s == [session[h] EXCEPT !.mu = c]
                   r == [Idle EXCEPT !.pc = "held", !.op = op, !.h = h]
        <2>1. Fine(s) /\ s.state = "live" /\ s.mu = c BY <1>1, <1>5, LockFine DEF Alike
        <2>2. session' = [session EXCEPT ![h] = s] BY <1>1, <1>5 DEF Enter
        <2>3. call' = [call EXCEPT ![c] = r] BY <1>5 DEF Enter
        <2>4. r \in CallRecord /\ r.pc = "held" /\ r.h = h
            <3>1. 0 \in 0..MaxClock /\ <<>> \in Seq(Names) BY Limits
            <3> QED BY <3>1 DEF Idle, CallRecord, Points
        <2> HIDE DEF s, r
        <2>5. Placed(c, r, s) BY <2>1, <2>4 DEF Placed, Sending
        <2>6. r.pc \notin Openers BY <2>4 DEF Openers
        <2>7. session[h].mu \in {c, None} OBVIOUS
        <2> QED BY <1>1, <1>5, <2>1, <2>2, <2>3, <2>4, <2>5, <2>6, <2>7, HandleStep
    <1> QED BY <1>3, <1>4, <1>5

LEMMA LookupBase ==
    ASSUME Base, NEW c \in Callers,
           \/ \E h \in Handles, op \in {"write", "truncate", "link", "relink", "sync", "close", "discard"} :
                Lookup(c, h, op)
           \/ AwaitHandle(c)
    PROVE  Base'
    <1>1. CASE AwaitHandle(c)
        <2>1. /\ call[c].h \in Handles /\ call[c].op \in Requests /\ session[call[c].h].mu = None
              /\ session[call[c].h].state \in {"live", "gone"}
            BY <1>1, BaseFacts DEF AwaitHandle, Placed, CallRecord
        <2>2. Enter(c, call[c].h, call[c].now, call[c].op) /\ table' = None /\ clock' = clock
              /\ UNCHANGED files /\ commitMu' = commitMu
            BY <1>1 DEF AwaitHandle
        <2> QED BY <2>1, <2>2, EnterBase
    <1>2. ASSUME NEW h \in Handles, NEW op \in {"write", "truncate", "link", "relink", "sync", "close", "discard"},
                 Lookup(c, h, op)
          PROVE  Base'
        <2>1. /\ session[h].state = "live" /\ clock' = clock /\ UNCHANGED files /\ commitMu' = commitMu
              /\ op \in Requests
            BY <1>2 DEF Lookup, Requests
        <2>2. CASE session[h].mu = None
            <3>1. Enter(c, h, clock, op) /\ table' = None BY <1>2, <2>2 DEF Lookup
            <3> QED BY <2>1, <2>2, <3>1, EnterBase
        <2>3. CASE session[h].mu # None
            <3> DEFINE r == [Idle EXCEPT !.pc = "await", !.op = op, !.h = h, !.now = clock]
            <3>1. table' = c /\ session' = session /\ call' = [call EXCEPT ![c] = r] BY <1>2, <2>3 DEF Lookup
            <3>2. r \in CallRecord /\ r.pc = "await" /\ r.h = h
                <4>1. 0 \in 0..MaxClock /\ <<>> \in Seq(Names) /\ clock \in 0..MaxClock BY Limits, BaseFacts
                <4> QED BY <2>1, <4>1 DEF Idle, CallRecord, Points
            <3> HIDE DEF r
            <3> QED BY <2>1, <3>1, <3>2, WaitBase
        <2> QED BY <2>2, <2>3
    <1> QED BY <1>1, <1>2

LEMMA ReapBase ==
    ASSUME Base, NEW c \in Callers, Reap(c)
    PROVE  Base'
    <1> DEFINE h == call[c].h
    <1>1. /\ h \in Handles /\ session[h].state \in {"live", "gone"} /\ call[c].pc \in {"reap", "rewait"}
          /\ session \in [Handles -> SessionRecord] /\ clock' = clock /\ UNCHANGED files /\ commitMu' = commitMu
        BY BaseFacts DEF Reap, Placed
    <1>2. CASE session[h].state = "live" /\ session[h].mu # None
        <2> DEFINE r == [call[c] EXCEPT !.pc = "rewait"]
        <2>1. table' = c /\ At(c, "rewait") /\ session' = session BY <1>2 DEF Reap
        <2>2. call' = [call EXCEPT ![c] = r] /\ r \in CallRecord /\ r.pc = "rewait" /\ r.h = h
            BY <2>1, Moves DEF Points
        <2> HIDE DEF r
        <2> QED BY <1>1, <2>1, <2>2, WaitBase
    <1>3. CASE ~(session[h].state = "live" /\ session[h].mu # None)
        <2> DEFINE ret == IF session[h].state = "live" THEN "ok" ELSE ReapAnswer(session[h])
                   s == Destroyed(session[h])
        <2>1. session' = [session EXCEPT ![h] = s] /\ Return(c, ret) /\ table' = None BY <1>1, <1>3 DEF Reap
        <2>2. ret = "ok" BY <1>1 DEF ReapAnswer
        <2>3. call' = [call EXCEPT ![c] = [Idle EXCEPT !.ret = "ok"]] BY <2>1, <2>2 DEF Return
        <2>4. [Idle EXCEPT !.ret = "ok"] \in CallRecord /\ [Idle EXCEPT !.ret = "ok"].pc = "idle" BY Answers
        <2>5. Fine(s) /\ s.state = "gone" BY FreeFine DEF Destroyed, FreeSession
        <2>6. FilesTyped' /\ table' \in Callers \cup {None} /\ commitMu' \in Callers \cup {None}
            BY <1>1, <2>1, BaseFacts, FilesKept
        <2> HIDE DEF s, h
        <2> QED BY <1>1, <1>3, <2>1, <2>3, <2>4, <2>5, <2>6, HandleStep DEF Openers
    <1> QED BY <1>2, <1>3

LEMMA RepinBase ==
    ASSUME Base, NEW c \in Callers, Repin(c)
    PROVE  Base'
    <1> DEFINE h == call[c].h
               s == Mine(c)
               n == Head(call[c].targets)
    <1>1. /\ h \in Handles /\ Fine(s) /\ s.state = "live" /\ s.mu = c /\ Placed(c, call[c], s)
          /\ call[c] \in CallRecord /\ call[c].pc = "repin" /\ s = session[h] /\ s \in SessionRecord
        BY Holding DEF Repin, Handled, Fine
    <1>2. clock' = clock /\ UNCHANGED files /\ table' = table /\ commitMu' = commitMu BY DEF Repin
    <1>3. CASE live[n] = None
        <2> DEFINE u == [s EXCEPT !.mu = None]
        <2>1. Fine(u) /\ u.state = "live" BY <1>1, LockFine DEF Alike
        <2>2. session' = [session EXCEPT ![h] = u] BY <1>3 DEF Repin, Released
        <2>3. call' = [call EXCEPT ![c] = [Idle EXCEPT !.ret = "failed"]] BY <1>3 DEF Repin, Return
        <2>4. [Idle EXCEPT !.ret = "failed"] \in CallRecord /\ [Idle EXCEPT !.ret = "failed"].pc = "idle" BY Answers
        <2>5. FilesTyped' /\ table' \in Callers \cup {None} /\ commitMu' \in Callers \cup {None}
            BY <1>2, BaseFacts, FilesKept
        <2> HIDE DEF u, s, h
        <2>6. session[h].state = "live" /\ session[h].mu \in {c, None} BY <1>1
        <2> QED BY <1>1, <1>2, <2>1, <2>2, <2>3, <2>4, <2>5, <2>6, HandleStep DEF Openers
    <1>4. CASE live[n] # None
        <2> DEFINE u == [s EXCEPT !.pin = live[n], !.path = n, !.base = data[live[n]], !.tmp = <<>>,
                                  !.staged = FALSE, !.dirty = FALSE, !.applied = FALSE, !.created = FALSE,
                                  !.published = {}, !.full = FALSE, !.tail = TRUE, !.ranges = {},
                                  !.touched = FALSE]
        <2>1. session' = Used(h, u) /\ Return(c, "ok") BY <1>4 DEF Repin
        <2>2. /\ n \in Names /\ call[c].targets \in Seq(Names) /\ n = call[c].targets[1]
              /\ s.pending # <<>> => s.pending[1] = n
            <3>1. call[c].targets \in Seq(Names) /\ Aims(s, call[c].targets)
                BY <1>1 DEF CallRecord, Placed, Sending
            <3>2. call[c].targets # <<>> BY <3>1 DEF Aims
            <3>3. n \in Names /\ n = call[c].targets[1] BY <3>1, <3>2
            <3> QED BY <3>1, <3>3 DEF Aims
        <2>3. live[n] \in Inodes /\ data[live[n]] \in Bytes /\ <<>> \in Bytes
            BY <1>4, <2>2, BaseFacts DEF FilesTyped, Bytes
        <2> HIDE DEF n
        <2>4. u \in SessionRecord
            <3>1. PICK i \in Inodes : i = live[n] BY <2>3
            <3>2. PICK b \in Bytes : b = data[live[n]] BY <2>3
            <3> DEFINE v == [s EXCEPT !.pin = i, !.path = n, !.base = b]
            <3>3. v \in SessionRecord BY <1>1, <2>2 DEF SessionRecord
            <3> DEFINE w == [v EXCEPT !.tmp = <<>>, !.staged = FALSE, !.dirty = FALSE, !.applied = FALSE,
                                      !.created = FALSE]
            <3>4. u = [w EXCEPT !.published = {}, !.full = FALSE, !.tail = TRUE, !.ranges = {}, !.touched = FALSE]
                BY <1>1, <3>1, <3>2 DEF SessionRecord
            <3> HIDE DEF v
            <3>5. w \in SessionRecord BY <2>3, <3>3 DEF SessionRecord
            <3> HIDE DEF w, u
            <3> QED BY <3>4, <3>5 DEF SessionRecord
        <2>5. /\ u.state = "live" /\ u.pending = s.pending /\ u.path = n /\ u.pin = live[n] /\ u.base = data[live[n]]
              /\ u.tmp = <<>> /\ ~u.staged /\ ~u.applied /\ ~u.created /\ ~u.full /\ u.ranges = {}
            BY <1>1 DEF SessionRecord
        <2> HIDE DEF u, s
        <2>6. View(u) = u.base BY <2>5 DEF View
        <2>7. Coherent(u)
            <3>1. n # None /\ live[n] # None BY <2>2, <2>3, Limits
            <3> QED BY <2>2, <2>5, <3>1 DEF Coherent
        <2>8. Len(u.base) \in Nat BY <2>3, <2>5 DEF Bytes
        <2>9. Tracks(u) BY <2>5, <2>6, <2>8 DEF Tracks
        <2>10. Fine(u) BY <2>4, <2>7, <2>9 DEF Fine
        <2> QED BY <1>1, <1>2, <2>1, <2>5, <2>10, UsedBase DEF Handled
    <1> QED BY <1>3, <1>4

-----------------------------------------------------------------------------
(* Openings, sweeps and the rest of the world.                             *)

LEMMA SweepSpares ==
    ASSUME Base
    PROVE  /\ DOMAIN Sweep = Handles /\ \A g \in Handles : Spared(session[g], Sweep[g])
           /\ \A g \in Handles : session[g].state # "live" => Sweep[g] = session[g]
           /\ \A g \in Handles : Sweep[g].state = "live" => g \in Kept
           /\ IsFiniteSet(Kept) /\ Cardinality(Kept) \in Nat
    <1>1. \A g \in Handles : Sweep[g] = session[g] \/ (Sweepable(g) /\ Sweep[g] = Destroyed(session[g]))
        BY DEF Sweep
    <1>2. \A g \in Handles : Spared(session[g], Sweep[g]) BY <1>1 DEF Spared, Sweepable
    <1>3. \A g \in Handles : session[g].state # "live" => Sweep[g] = session[g] BY DEF Sweep, Sweepable
    <1>4. \A g \in Handles : Destroyed(session[g]).state = "gone" BY DEF Destroyed, FreeSession
    <1>5. \A g \in Handles : Sweep[g].state = "live" => g \in Kept BY <1>4 DEF Kept, InTable, Sweep
    <1>6. Kept \subseteq InTable /\ IsFiniteSet(InTable) BY DEF Kept, Base, Counted
    <1>7. IsFiniteSet(Kept) BY <1>6, FS_Subset
    <1> QED BY <1>2, <1>3, <1>5, <1>7, FS_CardinalityType DEF Sweep

\* A step that no call of ours takes.
LEMMA OthersBase ==
    ASSUME Base, \A g \in Handles : Spared(session[g], session'[g]),
           DOMAIN session' = Handles, session' = [g \in Handles |-> session'[g]],
           FilesTyped', clock' \in 0..MaxClock, UNCHANGED <<table, commitMu, call>>
    PROVE  Base'
    <1>1. \A g \in Handles : Fine(session[g]) BY BaseFacts
    <1>2. \A g \in Handles : Fine(session'[g]) BY <1>1, SparedFine
    <1>3. session' \in [Handles -> SessionRecord]
        <2>1. \A g \in Handles : session'[g] \in SessionRecord BY <1>2 DEF Fine
        <2> QED BY <2>1
    <1>4. Typed' BY <1>3, BaseFacts DEF Typed
    <1>5. Serving'
        <2> SUFFICES ASSUME NEW d \in Callers, call'[d].pc # "idle"
                     PROVE  call'[d].h \in Handles /\ Placed(d, call'[d], session'[call'[d].h])
            BY DEF Serving
        <2>1. call[d].h \in Handles /\ Placed(d, call[d], session[call[d].h]) /\ call[d] \in CallRecord
            BY BaseFacts
        <2> QED BY <1>1, <2>1, SparedFine
    <1>6. Apart' BY DEF Base, Apart
    <1>7. Counted'
        <2>1. InTable' \subseteq InTable BY <1>1, SparedFine DEF InTable
        <2>2. IsFiniteSet(InTable) /\ Cardinality(InTable) <= Cap BY DEF Base, Counted
        <2>3. IsFiniteSet(InTable') /\ Cardinality(InTable') <= Cardinality(InTable) BY <2>1, <2>2, FS_Subset
        <2>4. Cardinality(InTable) \in Nat /\ Cardinality(InTable') \in Nat BY <2>2, <2>3, FS_CardinalityType
        <2> QED BY <2>2, <2>3, <2>4, Limits DEF Counted
    <1> QED BY <1>2, <1>4, <1>5, <1>6, <1>7 DEF Base

LEMMA OpenAdmitBase ==
    ASSUME Base, NEW c \in Callers, NEW h \in Handles, OpenAdmit(c, h)
    PROVE  Base'
    <1>1. /\ session[h].state = "free" /\ session[h] \in SessionRecord /\ Fine(session[h]) /\ clock \in 0..MaxClock
          /\ clock' = clock /\ FilesTyped' /\ table' \in Callers \cup {None} /\ commitMu' \in Callers \cup {None}
        BY BaseFacts, FilesKept DEF OpenAdmit
    <1>2. \A s : Alone(c, h, s) BY <1>1, OpeningAlone
    <1>3. CASE Cardinality(Kept) >= Cap
        <2> DEFINE r == [Idle EXCEPT !.ret = "failed"]
        <2>1. session' = Sweep /\ call' = [call EXCEPT ![c] = r] BY <1>3 DEF OpenAdmit, Return
        <2>2. /\ DOMAIN session' = Handles /\ session' = [g \in Handles |-> session'[g]]
              /\ session'[h] = session[h] /\ \A g \in Handles \ {h} : Spared(session[g], session'[g])
            BY <1>1, <2>1, SweepSpares DEF Sweep
        <2>3. r \in CallRecord /\ r.pc = "idle" BY Answers
        <2>4. r.pc \notin Openers /\ session[h].state # "live" BY <1>1, <2>3 DEF Openers
        <2> HIDE DEF r
        <2> QED BY <1>1, <1>2, <2>1, <2>2, <2>3, <2>4, StepBase
    <1>4. CASE ~(Cardinality(Kept) >= Cap)
        <2> DEFINE s == [FreeSession EXCEPT !.state = "opening", !.lastUse = clock]
                   r == [Idle EXCEPT !.pc = "pin", !.h = h]
        <2>1. session' = [Sweep EXCEPT ![h] = s] /\ call' = [call EXCEPT ![c] = r] BY <1>4 DEF OpenAdmit
        <2>2. Fine(s) BY <1>1, FreeFine
        <2>3. s.state = "opening" /\ s = [FreeSession EXCEPT !.state = "opening", !.lastUse = s.lastUse]
            BY DEF FreeSession
        <2>4. r \in CallRecord /\ r.pc = "pin" /\ r.h = h
            <3>1. 0 \in 0..MaxClock /\ <<>> \in Seq(Names) BY Limits
            <3> QED BY <3>1 DEF Idle, CallRecord, Points, Requests
        <2> HIDE DEF s, r
        <2>5. /\ DOMAIN session' = Handles /\ session' = [g \in Handles |-> session'[g]]
              /\ session'[h] = s /\ \A g \in Handles \ {h} : Spared(session[g], session'[g])
            BY <2>1, SweepSpares DEF Sweep
        <2>6. Placed(c, r, s) BY <2>3, <2>4 DEF Placed, Handled, Sending
        <2> QED BY <1>1, <1>2, <2>1, <2>2, <2>3, <2>4, <2>5, <2>6, StepBase
    <1> QED BY <1>3, <1>4

LEMMA PinFine ==
    ASSUME Base, NEW t \in 0..MaxClock, NEW kind \in OpenKinds, NEW n \in Names,
           kind \in {"append", "truncate", "update"} => live[n] # None
    PROVE  LET s == PinTarget([FreeSession EXCEPT !.state = "opening", !.lastUse = t], kind, n)
           IN  Fine(s) /\ s.state = "opening"
    <1> DEFINE o == [FreeSession EXCEPT !.state = "opening", !.lastUse = t]
    <1>1. Fine(o) /\ o \in SessionRecord BY FreeFine DEF Fine
    <1>2. /\ o.state = "opening" /\ o.pending = <<>> /\ ~o.applied /\ ~o.staged /\ ~o.created /\ ~o.full
          /\ o.tmp = <<>> /\ o.path = None /\ o.ranges = {}
        BY DEF FreeSession
    <1> HIDE DEF o
    <1>3. CASE kind = "scratch" BY <1>1, <1>2, <1>3 DEF PinTarget, o
    <1>4. CASE kind = "create" /\ live[n] = None
        <2> DEFINE s == Created(o, n)
        <2>1. PinTarget(o, kind, n) = s BY <1>4 DEF PinTarget
        <2>2. /\ s \in SessionRecord /\ s.state = "opening" /\ s.pending = <<>> /\ ~s.applied /\ ~s.staged
              /\ s.created /\ ~s.full /\ s.tmp = <<>> /\ s.path = n /\ s.base = o.base /\ s.tail = o.tail
              /\ s.ranges = o.ranges
            BY <1>1, <1>2 DEF Created, SessionRecord
        <2> HIDE DEF s
        <2>3. Coherent(s) BY <2>2, Limits DEF Coherent
        <2>4. Tracks(s) BY <1>1, <1>2, <2>2 DEF Fine, Tracks, View
        <2> QED BY <2>1, <2>2, <2>3, <2>4 DEF Fine, o
    <1>5. CASE kind # "scratch" /\ live[n] # None
        <2> DEFINE p == Pinned(o, n)
        <2>1. live[n] \in Inodes /\ data[live[n]] \in Bytes BY <1>5, BaseFacts DEF FilesTyped
        <2>2. /\ p \in SessionRecord /\ p.state = "opening" /\ p.pending = <<>> /\ ~p.applied /\ ~p.staged
              /\ ~p.created /\ ~p.full /\ p.tmp = <<>> /\ p.path = n /\ p.pin = live[n]
              /\ p.base = data[live[n]] /\ p.ranges = {}
            BY <1>1, <1>2, <2>1 DEF Pinned, SessionRecord
        <2>3. p.pin # None /\ p.base \in Bytes /\ Len(p.base) \in Nat BY <2>1, <2>2, Limits DEF Bytes
        <2> HIDE DEF p
        <2>4. CASE kind \in {"create", "update"}
            <3>1. PinTarget(o, kind, n) = p BY <1>5, <2>4 DEF PinTarget, p
            <3>2. Coherent(p) BY <2>2, <2>3, Limits DEF Coherent
            <3>3. Tracks(p) BY <2>2, <2>3 DEF Tracks, View
            <3> QED BY <2>2, <3>1, <3>2, <3>3 DEF Fine, o
        <2>5. CASE kind = "append"
            <3> DEFINE s == [p EXCEPT !.append = TRUE]
            <3>1. PinTarget(o, kind, n) = s BY <2>5 DEF PinTarget, p
            <3>2. /\ s \in SessionRecord /\ s.state = "opening" /\ s.pending = <<>> /\ ~s.applied /\ ~s.staged
                  /\ ~s.created /\ ~s.full /\ s.tmp = <<>> /\ s.path = n /\ s.pin = p.pin /\ s.base = p.base
                  /\ s.ranges = {}
                BY <2>2 DEF SessionRecord
            <3> HIDE DEF s
            <3>3. Coherent(s) BY <2>3, <3>2, Limits DEF Coherent
            <3>4. Tracks(s) BY <2>3, <3>2 DEF Tracks, View
            <3> QED BY <3>1, <3>2, <3>3, <3>4 DEF Fine, o
        <2>6. CASE kind = "truncate"
            <3> DEFINE s == [p EXCEPT !.staged = TRUE, !.dirty = TRUE, !.full = TRUE, !.tail = FALSE]
            <3>1. PinTarget(o, kind, n) = s BY <2>6 DEF PinTarget, p
            <3>2. /\ s \in SessionRecord /\ s.state = "opening" /\ s.pending = <<>> /\ ~s.applied /\ s.staged
                  /\ ~s.created /\ s.full /\ s.path = n /\ s.pin = p.pin
                BY <2>2 DEF SessionRecord
            <3> HIDE DEF s
            <3>3. Coherent(s) BY <2>3, <3>2, Limits DEF Coherent
            <3>4. Tracks(s) BY <3>2 DEF Tracks
            <3> QED BY <3>1, <3>2, <3>3, <3>4 DEF Fine, o
        <2>7. kind \in {"scratch", "create", "append", "truncate", "update"} BY Limits
        <2> QED BY <1>5, <2>4, <2>5, <2>6, <2>7
    <1>6. kind \in {"scratch", "create", "append", "truncate", "update"} BY Limits
    <1> QED BY <1>3, <1>4, <1>5, <1>6

LEMMA OpenBase ==
    ASSUME Base, NEW c \in Callers, OpenPin(c) \/ OpenInsert(c)
    PROVE  Base'
    <1> DEFINE h == call[c].h
    <1>1. /\ call[c].pc \in Openers /\ clock' = clock /\ UNCHANGED files /\ table' = table /\ commitMu' = commitMu
          /\ call[c].pc # "idle"
        BY DEF OpenPin, OpenInsert, Openers
    <1>2. /\ h \in Handles /\ Placed(c, call[c], session[h]) /\ session[h] \in SessionRecord /\ Fine(session[h])
          /\ FilesTyped' /\ table' \in Callers \cup {None} /\ commitMu' \in Callers \cup {None}
        BY <1>1, BaseFacts, FilesKept
    <1>3. session[h].state = "opening" /\ \A s : Alone(c, h, s) BY <1>1, <1>2, OpeningState, OpeningAlone
    <1>4. CASE OpenPin(c)
        <2>1. call[c].pc = "pin" /\ At(c, "insert") BY <1>4 DEF OpenPin
        <2>2. PICK kind \in OpenKinds, n \in Names :
                /\ kind \in {"append", "truncate", "update"} => live[n] # None
                /\ session' = [session EXCEPT ![h] = PinTarget(session[h], kind, n)]
            BY <1>4 DEF OpenPin
        <2> DEFINE s == PinTarget(session[h], kind, n)
                   r == [call[c] EXCEPT !.pc = "insert"]
        <2>3. Fine(s) /\ s.state = "opening"
            <3>1. session[h] = [FreeSession EXCEPT !.state = "opening", !.lastUse = session[h].lastUse]
                BY <1>2, <2>1 DEF Placed
            <3>2. PICK t \in 0..MaxClock : t = session[h].lastUse BY <1>2, Fields
            <3>3. session[h] = [FreeSession EXCEPT !.state = "opening", !.lastUse = t] BY <3>1, <3>2
            <3> DEFINE o == [FreeSession EXCEPT !.state = "opening", !.lastUse = t]
            <3>4. Fine(PinTarget(o, kind, n)) /\ PinTarget(o, kind, n).state = "opening" BY <2>2, PinFine
            <3>5. session[h] = o BY <3>3
            <3> HIDE DEF o, h
            <3> QED BY <3>4, <3>5
        <2>4. call' = [call EXCEPT ![c] = r] /\ r \in CallRecord /\ r.pc = "insert" /\ r.h = h
            BY <2>1, Moves DEF Points
        <2> HIDE DEF s, r
        <2>5. session \in [Handles -> SessionRecord] BY BaseFacts
        <2>6. /\ DOMAIN session' = Handles /\ session' = [g \in Handles |-> session'[g]]
              /\ session'[h] = s /\ \A g \in Handles \ {h} : Spared(session[g], session'[g])
            BY <1>2, <2>2, <2>5 DEF Spared, s
        <2>7. Placed(c, r, s) BY <2>3, <2>4 DEF Placed, Handled, Sending
        <2> HIDE DEF h
        <2> QED BY <1>1, <1>2, <1>3, <2>3, <2>4, <2>6, <2>7, StepBase DEF h
    <1>5. CASE OpenInsert(c) /\ Cardinality(Kept) >= Cap
        <2> DEFINE s == Destroyed(session[h])
                   r == [Idle EXCEPT !.ret = "failed"]
        <2>1. session' = [Sweep EXCEPT ![h] = s] /\ call' = [call EXCEPT ![c] = r] BY <1>5 DEF OpenInsert, Return
        <2>2. Fine(s) /\ s.state = "gone" BY FreeFine DEF Destroyed, FreeSession
        <2>3. r \in CallRecord /\ r.pc = "idle" BY Answers
        <2>4. r.pc \notin Openers BY <2>3 DEF Openers
        <2> HIDE DEF s, r
        <2>5. /\ DOMAIN session' = Handles /\ session' = [g \in Handles |-> session'[g]]
              /\ session'[h] = s /\ \A g \in Handles \ {h} : Spared(session[g], session'[g])
            BY <1>2, <2>1, SweepSpares DEF Sweep
        <2> HIDE DEF h
        <2> QED BY <1>1, <1>2, <1>3, <2>1, <2>2, <2>3, <2>4, <2>5, StepBase
    <1>6. CASE OpenInsert(c) /\ ~(Cardinality(Kept) >= Cap)
        <2> DEFINE s == [session[h] EXCEPT !.state = "live"]
                   r == [Idle EXCEPT !.ret = "ok"]
        <2>1. session' = [Sweep EXCEPT ![h] = s] /\ call' = [call EXCEPT ![c] = r]
            <3>1. Sweep[h] = session[h] BY <1>2, <1>3, SweepSpares
            <3>2. session' = [Sweep EXCEPT ![h].state = "live"] BY <1>6 DEF OpenInsert
            <3>3. call' = [call EXCEPT ![c] = r] BY <1>6 DEF OpenInsert, Return
            <3> QED BY <1>2, <3>1, <3>2, <3>3, SweepSpares
        <2>2. Fine(s) /\ s.state = "live"
            <3>1. /\ s \in SessionRecord /\ s.path = session[h].path /\ s.pending = session[h].pending
                  /\ s.pin = session[h].pin /\ s.base = session[h].base /\ s.tmp = session[h].tmp
                  /\ s.staged = session[h].staged /\ s.dirty = session[h].dirty /\ s.created = session[h].created
                  /\ s.full = session[h].full /\ s.tail = session[h].tail /\ s.ranges = session[h].ranges
                  /\ s.applied = session[h].applied /\ s.state = "live"
                BY <1>2 DEF SessionRecord
            <3> HIDE DEF s
            <3>2. View(s) = View(session[h]) BY <3>1 DEF View
            <3> QED BY <1>2, <3>1, <3>2 DEF Fine, Coherent, Tracks
        <2>3. r \in CallRecord /\ r.pc = "idle" BY Answers
        <2>4. r.pc \notin Openers BY <2>3 DEF Openers
        <2> HIDE DEF s, r
        <2>5. /\ DOMAIN session' = Handles /\ session' = [g \in Handles |-> session'[g]]
              /\ session'[h] = s /\ \A g \in Handles \ {h} : session'[g] = Sweep[g] /\ Spared(session[g], session'[g])
            BY <1>2, <2>1, SweepSpares DEF Sweep
        <2>6. Counted'
            <3>1. IsFiniteSet(Kept) /\ Cardinality(Kept) \in Nat BY SweepSpares
            <3>2. InTable' \subseteq Kept \cup {h} BY <2>5, SweepSpares DEF InTable
            <3>3. Cardinality(Kept) + 1 <= Cap BY <1>6, <3>1, Limits
            <3>4. IsFiniteSet(Kept \cup {h}) /\ Cardinality(Kept \cup {h}) <= Cardinality(Kept) + 1
                <4>1. IsFiniteSet(Kept \cup {h})
                      /\ Cardinality(Kept \cup {h}) = IF h \in Kept THEN Cardinality(Kept) ELSE Cardinality(Kept) + 1
                    BY <3>1, FS_AddElement
                <4> HIDE DEF h
                <4> QED BY <3>1, <4>1
            <3>5. IsFiniteSet(InTable') /\ Cardinality(InTable') <= Cardinality(Kept \cup {h})
                BY <3>2, <3>4, FS_Subset
            <3>6. Cardinality(InTable') \in Nat /\ Cardinality(Kept \cup {h}) \in Nat
                BY <3>4, <3>5, FS_CardinalityType
            <3> HIDE DEF h
            <3> QED BY <3>1, <3>3, <3>4, <3>5, <3>6, Limits DEF Counted
        <2> HIDE DEF h
        <2> QED BY <1>1, <1>2, <1>3, <2>1, <2>2, <2>3, <2>4, <2>5, <2>6, StepBase
    <1> QED BY <1>4, <1>5, <1>6

LEMMA RivalBase ==
    ASSUME Base, Rival
    PROVE  Base'
    <1>1. /\ FilesTyped /\ session \in [Handles -> SessionRecord] /\ \A g \in Handles : Fine(session[g])
          /\ clock \in 0..MaxClock
        BY BaseFacts
    <1>2. clock' = clock /\ UNCHANGED <<table, commitMu, call>> /\ session' = Marked(session, None, live', data')
        BY DEF Rival
    <1>3. /\ DOMAIN session' = Handles /\ session' = [g \in Handles |-> session'[g]]
          /\ \A g \in Handles : Spared(session[g], session'[g])
        BY <1>1, <1>2, MarkedSpares
    <1>4. FilesTyped'
        <2>0. Foreign \in Byte /\ <<Foreign>> \in Bytes /\ \A b \in Bytes : Append(b, Foreign) \in Bytes
            BY DEF Byte, Bytes
        <2>1. PICK n \in Names :
             \/ /\ live[n] # None
                /\ data' = [data EXCEPT ![live[n]] = Spliced(@, 0, Foreign)]
                /\ UNCHANGED live
             \/ /\ live[n] # None
                /\ data' = [data EXCEPT ![live[n]] = Append(@, Foreign)]
                /\ UNCHANGED live
             \/ /\ live[n] # None /\ data[live[n]] # <<>>
                /\ data' = [data EXCEPT ![live[n]] = Front(@)]
                /\ UNCHANGED live
             \/ /\ live[n] # None
                /\ live' = [live EXCEPT ![n] = None]
                /\ UNCHANGED data
             \/ /\ live[n] # None
                /\ \E m \in Names : live' = [live EXCEPT ![n] = None, ![m] = live[n]]
                /\ UNCHANGED data
             \/ /\ CanMint
                /\ live' = [live EXCEPT ![n] = Minted]
                /\ data' = [data EXCEPT ![Minted] = <<Foreign>>]
            BY DEF Rival
        <2>2. CASE live[n] # None /\ UNCHANGED live
                   /\ \E b \in Bytes : data' = [data EXCEPT ![live[n]] = b]
            <3>1. PICK b \in Bytes : data' = [data EXCEPT ![live[n]] = b] BY <2>2
            <3>2. live[n] \in Inodes /\ b # None BY <1>1, <2>2, Limits DEF FilesTyped
            <3>3. data' \in [Inodes -> Bytes \cup {None}] /\ \A i \in Inodes : data[i] # None => data'[i] # None
                BY <1>1, <3>1, <3>2 DEF FilesTyped
            <3> QED BY <1>1, <2>2, <3>3 DEF FilesTyped
        <2>3. CASE live[n] # None /\ live' = [live EXCEPT ![n] = None] /\ UNCHANGED data
            BY <1>1, <2>3 DEF FilesTyped
        <2>4. CASE live[n] # None /\ (\E m \in Names : live' = [live EXCEPT ![n] = None, ![m] = live[n]])
                   /\ UNCHANGED data
            BY <1>1, <2>4 DEF FilesTyped
        <2>5. CASE /\ CanMint /\ live' = [live EXCEPT ![n] = Minted]
                   /\ data' = [data EXCEPT ![Minted] = <<Foreign>>]
            <3>1. Minted \in Inodes BY <2>5 DEF CanMint, Minted
            <3>2. <<Foreign>> # None BY <2>0, Limits
            <3>3. live' \in [Names -> Inodes \cup {None}] /\ data' \in [Inodes -> Bytes \cup {None}]
                  /\ live'[n] = Minted /\ (\A m \in Names : m # n => live'[m] = live[m])
                  /\ data'[Minted] = <<Foreign>> /\ (\A i \in Inodes : i # Minted => data'[i] = data[i])
                BY <1>1, <2>0, <2>5, <3>1 DEF FilesTyped
            <3>4. \A m \in Names : live'[m] # None => data'[live'[m]] # None
                BY <1>1, <3>1, <3>2, <3>3 DEF FilesTyped
            <3> QED BY <1>1, <2>5, <3>3, <3>4 DEF FilesTyped
        <2>6. ASSUME live[n] # None
              PROVE  Spliced(data[live[n]], 0, Foreign) \in Bytes /\ Append(data[live[n]], Foreign) \in Bytes
            <3>1. data[live[n]] \in Bytes BY <1>1, <2>6 DEF FilesTyped
            <3>2. Spliced(data[live[n]], 0, Foreign) \in Bytes BY <2>0, <3>1, SplicedBytes
            <3> QED BY <2>0, <3>1, <3>2
        <2>7. ASSUME live[n] # None, data[live[n]] # <<>> PROVE Front(data[live[n]]) \in Bytes
            <3>1. data[live[n]] \in Bytes /\ Bytes = Seq(Byte) BY <1>1, <2>7 DEF FilesTyped, Bytes, Byte
            <3> DEFINE b == data[live[n]]
                       f == SubSeq(b, 1, Len(b) - 1)
            <3>2. Front(b) = f BY DEF Front
            <3>3. f \in Seq(Byte)
                <4> HIDE DEF b
                <4>1. b \in Seq(Byte) /\ Len(b) \in Nat BY <3>1 DEF b
                <4>2. \A i \in 1..Len(b) - 1 : b[i] \in Byte BY <4>1
                <4>3. 1 \in Int /\ Len(b) - 1 \in Int BY <4>1
                <4> QED BY <4>2, <4>3, SubSeqProperties
            <3> QED BY <3>1, <3>2, <3>3
        <2> QED BY <2>1, <2>2, <2>3, <2>4, <2>5, <2>6, <2>7
    <1> QED BY <1>1, <1>2, <1>3, <1>4, OthersBase

LEMMA TickBase ==
    ASSUME Base, Tick
    PROVE  Base'
    <1>1. /\ session' = session /\ UNCHANGED files /\ UNCHANGED <<table, commitMu, call>>
          /\ clock' = clock + 1 /\ clock < MaxClock
        BY DEF Tick
    <1>2. clock' \in 0..MaxClock BY <1>1, BaseFacts, Limits
    <1>3. /\ DOMAIN session' = Handles /\ session' = [g \in Handles |-> session'[g]]
          /\ \A g \in Handles : Spared(session[g], session'[g])
        BY <1>1, BaseFacts DEF Spared
    <1> QED BY <1>1, <1>2, <1>3, BaseFacts, FilesKept, OthersBase

LEMMA NextBase == Base /\ [Next]_vars => Base'
    <1> SUFFICES ASSUME Base, [Next]_vars PROVE Base'
        OBVIOUS
    <1>1. ASSUME NEW c \in Callers, Step(c) PROVE Base'
        BY <1>1, OpenAdmitBase, LookupBase, OpenBase, DataBase, CommitBase, VerbBase, RepinBase, ReapBase
        DEF Step, Request, Serve
    <1>2. CASE UNCHANGED vars
        BY <1>2 DEF vars, Base, Typed, FilesTyped, Serving, Apart, Counted, InTable
    <1> QED BY <1>1, <1>2, RivalBase, TickBase DEF Next

-----------------------------------------------------------------------------
(* The table and its handles.                                              *)

LEMMA Named == FirstName \in Names /\ OtherName \in Names /\ OtherName # FirstName
    <1>1. \E m, n \in Names : m # n BY SessionsAssumption
    <1>2. FirstName \in Names BY <1>1 DEF FirstName
    <1>3. Names \ {FirstName} # {} BY <1>1, <1>2
    <1>4. OtherName \in Names \ {FirstName} BY <1>3 DEF OtherName
    <1> QED BY <1>2, <1>4

LEMMA OpenedFine ==
    ASSUME NEW kind
    PROVE  Fine(OpenedAs(kind)) /\ OpenedAs(kind).state = "live"
    <1> DEFINE o == [FreeSession EXCEPT !.state = "live"]
               pinned == [o EXCEPT !.path = FirstName, !.pin = 1, !.base = Content]
    <1>1. /\ o \in SessionRecord /\ o.state = "live" /\ o.pending = <<>> /\ ~o.applied /\ ~o.staged /\ ~o.created
          /\ ~o.full /\ o.tmp = <<>> /\ o.path = None /\ o.ranges = {} /\ o.base = <<>>
        <2>1. FreeSession \in SessionRecord BY FreeFine DEF Fine
        <2>2. o \in SessionRecord /\ o.state = "live" BY <2>1 DEF SessionRecord
        <2> QED BY <2>2 DEF FreeSession
    <1>2. /\ FirstName \in Names /\ OtherName \in Names /\ FirstName # None /\ OtherName # None
          /\ 1 \in Inodes /\ 1 # None /\ Content \in Bytes /\ Len(Content) = 2
        BY Named, Limits DEF Inodes, Content, Bytes
    <1>3. /\ pinned \in SessionRecord /\ pinned.state = "live" /\ pinned.pending = <<>> /\ ~pinned.applied
          /\ ~pinned.staged /\ ~pinned.created /\ ~pinned.full /\ pinned.tmp = <<>> /\ pinned.path = FirstName
          /\ pinned.pin = 1 /\ pinned.base = Content /\ pinned.ranges = {}
        BY <1>1, <1>2 DEF SessionRecord
    <1> HIDE DEF o, pinned
    <1>4. CASE kind = "scratch"
        <2>1. OpenedAs(kind) = o BY <1>4 DEF OpenedAs, o
        <2> QED BY <1>1, <2>1 DEF Fine, Coherent, Tracks, View
    <1>5. CASE kind = "linked"
        <2> DEFINE s == [o EXCEPT !.pending = <<FirstName, OtherName>>, !.path = FirstName,
                                  !.created = TRUE, !.dirty = TRUE]
        <2>1. OpenedAs(kind) = s BY <1>5 DEF OpenedAs, o
        <2>2. <<FirstName, OtherName>> \in Seq(Names) /\ <<FirstName, OtherName>>[1] = FirstName BY <1>2
        <2>3. /\ s \in SessionRecord /\ s.state = "live" /\ s.pending = <<FirstName, OtherName>> /\ ~s.applied
              /\ ~s.staged /\ s.created /\ ~s.full /\ s.tmp = <<>> /\ s.path = FirstName /\ s.base = <<>>
            BY <1>1, <1>2, <2>2 DEF SessionRecord
        <2> HIDE DEF s
        <2>4. Coherent(s) BY <1>2, <2>2, <2>3 DEF Coherent
        <2>5. Tracks(s) BY <2>3 DEF Tracks, View
        <2> QED BY <2>1, <2>3, <2>4, <2>5 DEF Fine
    <1>6. CASE kind = "create"
        <2> DEFINE s == [o EXCEPT !.path = OtherName, !.created = TRUE, !.dirty = TRUE]
        <2>1. OpenedAs(kind) = s BY <1>6 DEF OpenedAs, o
        <2>2. /\ s \in SessionRecord /\ s.state = "live" /\ s.pending = <<>> /\ ~s.applied
              /\ ~s.staged /\ s.created /\ ~s.full /\ s.tmp = <<>> /\ s.path = OtherName /\ s.base = <<>>
            BY <1>1, <1>2 DEF SessionRecord
        <2> HIDE DEF s
        <2>3. Coherent(s) BY <1>2, <2>2 DEF Coherent
        <2>4. Tracks(s) BY <2>2 DEF Tracks, View
        <2> QED BY <2>1, <2>2, <2>3, <2>4 DEF Fine
    <1>7. CASE kind = "truncate"
        <2> DEFINE s == [pinned EXCEPT !.staged = TRUE, !.dirty = TRUE, !.full = TRUE, !.tail = FALSE]
        <2>1. OpenedAs(kind) = s BY <1>7 DEF OpenedAs, o, pinned
        <2>2. /\ s \in SessionRecord /\ s.state = "live" /\ s.pending = <<>> /\ ~s.applied
              /\ s.staged /\ ~s.created /\ s.full /\ s.path = FirstName /\ s.pin = 1
            BY <1>3 DEF SessionRecord
        <2> HIDE DEF s
        <2>3. Coherent(s) /\ Tracks(s) BY <1>2, <2>2 DEF Coherent, Tracks
        <2> QED BY <2>1, <2>2, <2>3 DEF Fine
    <1>8. CASE kind \notin {"scratch", "linked", "create", "truncate"}
        <2> DEFINE s == OpenedAs(kind)
        <2>1. s \in {[pinned EXCEPT !.append = TRUE], [pinned EXCEPT !.touched = TRUE], pinned}
            BY <1>8 DEF OpenedAs, o, pinned
        <2> HIDE DEF s
        <2>2. /\ s \in SessionRecord /\ s.state = "live" /\ s.pending = <<>> /\ ~s.applied
              /\ ~s.staged /\ ~s.created /\ ~s.full /\ s.tmp = <<>> /\ s.path = FirstName
              /\ s.pin = 1 /\ s.base = Content /\ s.ranges = {}
            BY <1>3, <2>1 DEF SessionRecord
        <2>3. View(s) = s.base BY <2>2 DEF View
        <2>4. Coherent(s) BY <1>2, <2>2 DEF Coherent
        <2>5. Tracks(s) BY <1>2, <2>2, <2>3 DEF Tracks
        <2> QED BY <2>2, <2>4, <2>5 DEF Fine, s
    <1> QED BY <1>4, <1>5, <1>6, <1>7, <1>8

LEMMA InitBase == Init => Base
    <1> SUFFICES ASSUME Init PROVE Base
        OBVIOUS
    <1>1. PICK kind \in Kinds :
            /\ session = [h \in Handles |-> IF h = FirstHandle THEN OpenedAs(kind) ELSE FreeSession]
            /\ live = [n \in Names |-> CASE kind = "linked" -> None
                                         [] kind = "moved" -> IF n = FirstName THEN 2 ELSE 1
                                         [] OTHER -> IF n = FirstName THEN 1 ELSE None]
            /\ data = [i \in Inodes |-> CASE kind = "linked" \/ i > 2 -> None
                                          [] i = 2 -> IF kind = "moved" THEN <<Foreign>> ELSE None
                                          [] OTHER -> Content]
        BY DEF Init
    <1>2. \A h \in Handles : Fine(session[h]) /\ session[h].state \in {"free", "live"}
        BY <1>1, OpenedFine, FreeFine DEF FreeSession
    <1>3. session \in [Handles -> SessionRecord]
        <2>1. \A h \in Handles : session[h] \in SessionRecord BY <1>2 DEF Fine
        <2> QED BY <1>1, <2>1
    <1>4. FilesTyped
        <2>1. /\ 1 \in Inodes /\ 2 \in Inodes /\ Content \in Bytes /\ <<Foreign>> \in Bytes
              /\ Content # None /\ <<Foreign>> # None
            <3>1. 1 \in Inodes /\ 2 \in Inodes BY Limits DEF Inodes
            <3>2. Content \in Bytes /\ <<Foreign>> \in Bytes BY DEF Content, Bytes
            <3> QED BY <3>1, <3>2, Limits
        <2>2. \A i \in Inodes : data[i] \in {None, <<Foreign>>, Content}
            <3> TAKE i \in Inodes
            <3>0. i \in Int BY Limits DEF Inodes
            <3>1. CASE kind = "linked" \/ i > 2 BY <1>1, <3>0, <3>1
            <3>2. CASE ~(kind = "linked" \/ i > 2) /\ i = 2 BY <1>1, <3>0, <3>2
            <3>3. CASE ~(kind = "linked" \/ i > 2) /\ i # 2 BY <1>1, <3>0, <3>3
            <3> QED BY <3>1, <3>2, <3>3
        <2>3. data \in [Inodes -> Bytes \cup {None}] BY <1>1, <2>1, <2>2
        <2>4. \A n \in Names : live[n] \in {None, 1, 2} /\ (live[n] = 2 => kind = "moved")
                               /\ (live[n] # None => kind # "linked")
            BY <1>1, <2>1, Limits
        <2>5. live \in [Names -> Inodes \cup {None}] BY <1>1, <2>1, <2>4
        <2>6. kind = "moved" => data[2] = <<Foreign>> BY <1>1, <2>1
        <2>7. kind # "linked" => data[1] = Content BY <1>1, <2>1
        <2>8. \A n \in Names : live[n] # None => data[live[n]] # None BY <2>1, <2>4, <2>6, <2>7
        <2> QED BY <2>3, <2>5, <2>8 DEF FilesTyped
    <1>5. call \in [Callers -> CallRecord] /\ \A c \in Callers : call[c].pc = "idle"
        <2>1. 0 \in 0..MaxClock /\ <<>> \in Seq(Names) BY Limits
        <2>2. Idle \in CallRecord /\ Idle.pc = "idle" BY <2>1 DEF Idle, CallRecord, Points, Requests
        <2> QED BY <2>2 DEF Init
    <1>6. Typed BY <1>3, <1>4, <1>5, Limits DEF Typed, Init
    <1>7. Counted
        <2>1. InTable \subseteq {FirstHandle} BY <1>1 DEF InTable, FreeSession
        <2>2. IsFiniteSet({FirstHandle}) /\ Cardinality({FirstHandle}) = 1 BY FS_Singleton
        <2>3. IsFiniteSet(InTable) /\ Cardinality(InTable) <= 1 BY <2>1, <2>2, FS_Subset
        <2>4. Cardinality(InTable) \in Nat BY <2>3, FS_CardinalityType
        <2> QED BY <2>3, <2>4, Limits DEF Counted
    <1> QED BY <1>2, <1>5, <1>6, <1>7 DEF Base, Serving, Apart, Openers

LEMMA BaseSound == Base => HandlesSound
    <1> SUFFICES ASSUME Base PROVE HandlesSound
        OBVIOUS
    <1>1. ASSUME NEW h \in Handles
          PROVE  LET s == session[h] IN
                 /\ s.applied => s.dirty
                 /\ ~s.staged => s.tmp = <<>>
                 /\ s.pending # <<>> => s.path = s.pending[1]
        BY BaseFacts DEF Fine, Coherent
    <1>2. TypeOK BY <1>1, BaseFacts DEF TypeOK, FilesTyped
    <1>3. CapRespected BY DEF Base, Counted, CapRespected
    <1>4. InUseIsLive BY BaseFacts DEF InUseIsLive, Placed, Handled
    <1> QED BY <1>2, <1>3, <1>4 DEF HandlesSound

\* Base is inductive.
LEMMA AlwaysBase == Spec => []Base
    BY InitBase, NextBase, PTL DEF Spec

(* However opens, calls, sweeps and the other writers interleave, and      *)
(* whichever of the windows are open, a handle is destroyed only when no   *)
(* call works on it, and the caps hold although an open pins its target    *)
(* outside the table lock (getLiveLocked, OpenSession, destroySession).    *)
THEOREM HandlesAlwaysSound == Spec => []HandlesSound
    BY AlwaysBase, BaseSound, PTL

-----------------------------------------------------------------------------
(* What a commit publishes, while the windows are shut.                    *)

Landed(s, n, lv, dt) == lv[n] # None /\ dt[lv[n]] = s.tmp

\* Unless another writer touched it, a handle knows its files: the pinned bytes, the
\* names it is still to make, and what it published but has not drained.
Faithful(s, lv, dt) ==
    s.touched \/
        /\ s.pending = <<>> /\ ~s.created /\ s.pin # None => dt[s.pin] = IF s.applied THEN s.tmp ELSE s.base
        /\ s.pending = <<>> /\ s.created /\ ~s.applied => lv[s.path] = None
        /\ s.pending = <<>> /\ s.created /\ s.applied => Landed(s, s.path, lv, dt)
        /\ s.pending # <<>> /\ s.created => \A n \in Range(s.pending) \ s.published : lv[n] = None
        /\ s.pending # <<>> /\ s.applied => \A n \in Range(s.pending) : Landed(s, n, lv, dt)

\* A commit goes to the file its handle has pinned, and what it has been through has landed.
Aiming == {"commit", "verbs", "drain"}
Progress(r, s, lv, dt) ==
    /\ r.pc = "verbs" => s.touched \/ \A n \in Range(r.targets) \ Range(r.rest) : Landed(s, n, lv, dt)
    /\ r.pc \in Aiming /\ s.pending = <<>> /\ ~s.created =>
         (r.pc = "drain" /\ s.touched) \/ lv[r.targets[1]] = s.pin
    /\ r.pc # "idle" => r.conflict = None

Loyal ==
    /\ Base
    /\ \A h \in Handles : Faithful(session[h], live, data)
    /\ \A c \in Callers : call[c].pc # "idle" => Progress(call[c], session[call[c].h], live, data)

\* Another handle: it is marked if it can see a change.
Witness(s, s2) == Spared(s, s2) /\ (s2 = s => s.touched \/ ~Sees(s, live', data'))

LEMMA UnseenKept ==
    ASSUME Base, NEW s, Fine(s), ~Sees(s, live', data')
    PROVE  /\ \A n \in Names \cap Watched(s) : live'[n] = live[n]
           /\ \A n \in Names \cap Watched(s) : live[n] # None => data'[live[n]] = data[live[n]]
           /\ s.pin # None => /\ data'[s.pin] = data[s.pin]
                              /\ \A n \in Names : live[n] = s.pin => live'[n] = s.pin
    <1>1. \A n \in Names : live[n] # None => live[n] \in Inodes BY BaseFacts DEF FilesTyped
    <1>2. s.pin # None => s.pin \in Inodes BY Fields DEF Fine
    <1>3. \A n \in Names \cap Watched(s) : live'[n] = live[n] BY DEF Sees
    <1>4. \A n \in Names \cap Watched(s) : live[n] # None => data'[live[n]] = data[live[n]] BY <1>1 DEF Sees
    <1>5. s.pin # None => data'[s.pin] = data[s.pin] BY <1>2 DEF Sees
    <1>6. s.pin # None => \A n \in Names : live[n] = s.pin => live'[n] = s.pin BY DEF Sees
    <1> QED BY <1>3, <1>4, <1>5, <1>6

LEMMA NamesWatched ==
    ASSUME NEW s, Fine(s)
    PROVE  /\ Range(s.pending) \subseteq Names \cap Watched(s)
           /\ s.created \/ s.pending # <<>> => s.path \in Names \cap Watched(s)
    <1>1. s.pending \in Seq(Names) /\ s.path \in Names \cup {None} BY Fields DEF Fine
    <1>2. Range(s.pending) \subseteq Names BY <1>1 DEF Range
    <1>3. s.created => s.path # None BY DEF Fine, Coherent
    <1>4. s.pending # <<>> => s.path \in Names BY <1>1 DEF Fine, Coherent
    <1> QED BY <1>1, <1>2, <1>3, <1>4 DEF Watched

LEMMA WitnessFaithful ==
    ASSUME Base, NEW s, NEW s2, Fine(s), Witness(s, s2), Faithful(s, live, data)
    PROVE  Faithful(s2, live', data')
    <1>1. CASE s2 = s /\ s.touched BY <1>1 DEF Faithful
    <1>2. CASE s2 = s /\ ~s.touched
        <2>1. ~Sees(s, live', data') BY <1>2 DEF Witness
        <2>2. \A n \in Names \cap Watched(s) : Landed(s, n, live, data) => Landed(s, n, live', data')
            BY <2>1, UnseenKept DEF Landed
        <2>3. \A n \in Range(s.pending) : Landed(s, n, live, data) => Landed(s, n, live', data')
            BY <2>2, NamesWatched
        <2>4. \A n \in Range(s.pending) : live'[n] = live[n] BY <2>1, UnseenKept, NamesWatched
        <2>5. s.created => live'[s.path] = live[s.path]
                           /\ (Landed(s, s.path, live, data) => Landed(s, s.path, live', data'))
            BY <2>1, <2>2, UnseenKept, NamesWatched
        <2>6. s.pin # None => data'[s.pin] = data[s.pin] BY <2>1, UnseenKept
        <2> QED BY <1>2, <2>3, <2>4, <2>5, <2>6 DEF Faithful
    <1>3. CASE s2 = Destroyed(s) BY <1>3 DEF Faithful, Destroyed, FreeSession
    <1>4. CASE s2 = [s EXCEPT !.touched = TRUE]
        <2>1. s2.touched BY <1>4 DEF Fine, SessionRecord
        <2> QED BY <2>1 DEF Faithful
    <1> QED BY <1>1, <1>2, <1>3, <1>4 DEF Witness, Spared

\* A name of a commit under way is not taken from it.
Steady(r) == r.pc \in {"commit", "verbs"} => (live[r.targets[1]] # None => live'[r.targets[1]] = live[r.targets[1]])

LEMMA WitnessProgress ==
    ASSUME Base, NEW c \in Callers, NEW r \in CallRecord, NEW s, NEW s2, Fine(s), Witness(s, s2), Placed(c, r, s),
           Steady(r), Progress(r, s, live, data)
    PROVE  Progress(r, s2, live', data')
    <1>1. CASE s.state = "live" /\ s.mu = None /\ s2 = Destroyed(s)
        <2>1. r.pc \notin Handled BY <1>1, Limits DEF Placed
        <2> QED BY <2>1 DEF Progress, Handled, Aiming
    <1>2. CASE s2 = s \/ s2 = [s EXCEPT !.touched = TRUE]
        <2>1. s2.pending = s.pending /\ s2.created = s.created /\ s2.pin = s.pin /\ s2.tmp = s.tmp
              /\ (s.touched => s2.touched)
            BY <1>2 DEF Fine, SessionRecord
        <2>2. s2.touched \/ ~Sees(s, live', data') BY <1>2 DEF Witness, Fine, SessionRecord
        <2>3. r.pc = "verbs" => s2.touched \/ \A n \in Range(r.targets) \ Range(r.rest) : Landed(s2, n, live', data')
            <3> SUFFICES ASSUME r.pc = "verbs", ~s2.touched, NEW n \in Range(r.targets) \ Range(r.rest)
                         PROVE  Landed(s2, n, live', data')
                OBVIOUS
            <3>1. Landed(s, n, live, data) BY <2>1 DEF Progress
            <3>2. n \in Names \cap Watched(s)
                <4>1. Aims(s, r.targets) /\ (s.pending = <<>> => r.rest = r.targets) BY DEF Placed, Sending
                <4>2. s.pending # <<>> BY <4>1
                <4> QED BY <4>1, <4>2, NamesWatched DEF Aims
            <3> QED BY <2>1, <2>2, <3>1, <3>2, UnseenKept DEF Landed
        <2>4. ASSUME r.pc \in Aiming, s2.pending = <<>>, ~s2.created
              PROVE  (r.pc = "drain" /\ s2.touched) \/ live'[r.targets[1]] = s2.pin
            <3>1. s.path # None /\ s.pin # None BY <2>1, <2>4 DEF Placed, Aiming, Fine, Coherent
            <3>2. r.targets[1] \in Names
                <4>1. r.targets \in Seq(Names) /\ r.targets # <<>>
                    BY <2>4 DEF Placed, Sending, Aiming, Aims, CallRecord
                <4> QED BY <4>1
            <3>3. CASE r.pc = "drain" /\ ~s2.touched
                <4>1. live[r.targets[1]] = s.pin BY <2>1, <2>4, <3>3 DEF Progress
                <4>2. ~Sees(s, live', data') BY <2>2, <3>3
                <4> QED BY <2>1, <3>1, <3>2, <4>1, <4>2, UnseenKept
            <3>4. CASE r.pc # "drain" BY <2>1, <2>4, <3>1, <3>4 DEF Progress, Steady, Aiming
            <3> QED BY <3>3, <3>4
        <2> QED BY <2>3, <2>4 DEF Progress
    <1> QED BY <1>1, <1>2 DEF Witness, Spared

\* A step of one call, or of none, on one handle.
LEMMA StepLoyal ==
    ASSUME Loyal, Base', NEW c \in Callers, NEW h \in Handles, NEW r, NEW s,
           call' = [call EXCEPT ![c] = r], session'[h] = s, Faithful(s, live', data'),
           r.pc # "idle" => r.h = h /\ Progress(r, s, live', data'),
           \A g \in Handles \ {h} : Witness(session[g], session'[g]),
           \A d \in Callers \ {c} : call[d].pc # "idle" /\ call[d].h = h => call[d].pc \notin Aiming,
           \A d \in Callers \ {c} : Steady(call[d])
    PROVE  Loyal'
    <1>0. Base /\ \A g \in Handles : Fine(session[g]) /\ Faithful(session[g], live, data) BY BaseFacts DEF Loyal
    <1>1. ASSUME NEW g \in Handles PROVE Faithful(session'[g], live', data')
        <2>1. CASE g = h BY <2>1
        <2>2. CASE g # h BY <1>0, <2>2, WitnessFaithful
        <2> QED BY <2>1, <2>2
    <1>2. ASSUME NEW d \in Callers, call'[d].pc # "idle"
          PROVE  Progress(call'[d], session'[call'[d].h], live', data')
        <2>0. call \in [Callers -> CallRecord] BY <1>0, BaseFacts
        <2>1. CASE d = c
            <3>1. call'[d] = r BY <2>0, <2>1
            <3> QED BY <1>2, <3>1
        <2>2. CASE d # c
            <3>1. call'[d] = call[d] BY <2>0, <2>2
            <3>2. /\ call[d].h \in Handles /\ Placed(d, call[d], session[call[d].h]) /\ call[d] \in CallRecord
                  /\ Progress(call[d], session[call[d].h], live, data)
                BY <1>0, <1>2, <3>1, BaseFacts DEF Loyal
            <3>3. CASE call[d].h = h
                <4>1. call[d].pc \notin Aiming BY <1>2, <2>2, <3>1, <3>3
                <4> QED BY <3>1, <3>2, <4>1 DEF Progress, Aiming
            <3>4. CASE call[d].h # h
                <4>1. Witness(session[call[d].h], session'[call[d].h]) /\ Steady(call[d]) BY <2>2, <3>2, <3>4
                <4> QED BY <1>0, <3>1, <3>2, <4>1, WitnessProgress
            <3> QED BY <3>3, <3>4
        <2> QED BY <2>1, <2>2
    <1> QED BY <1>1, <1>2 DEF Loyal

LEMMA FaithfulAlike ==
    ASSUME NEW s, NEW s2, Alike(s2, s), Faithful(s, live, data)
    PROVE  Faithful(s2, live, data)
    BY DEF Alike, Faithful, Landed

LEMMA HeldElsewhere ==
    ASSUME Base, NEW c \in Callers, NEW h \in Handles, session[h].state = "live" => session[h].mu \in {c, None}
    PROVE  \A d \in Callers \ {c} : call[d].pc # "idle" /\ call[d].h = h => call[d].pc \notin Aiming
    <1> SUFFICES ASSUME NEW d \in Callers \ {c}, call[d].pc # "idle", call[d].h = h, call[d].pc \in Aiming
                 PROVE  FALSE
        OBVIOUS
    <1>1. Placed(d, call[d], session[h]) BY BaseFacts
    <1>2. session[h].state = "live" /\ session[h].mu = d BY <1>1 DEF Placed, Aiming, Handled
    <1> QED BY <1>2, Limits

\* The files stay; the calls and the handles move.
LEMMA QuietLoyal ==
    ASSUME Loyal, Base', UNCHANGED files, NEW c \in Callers, NEW h \in Handles, NEW r, NEW s,
           call' = [call EXCEPT ![c] = r], session'[h] = s, Faithful(s, live, data),
           r.pc # "idle" => r.h = h /\ Progress(r, s, live, data),
           \A g \in Handles \ {h} : Spared(session[g], session'[g]),
           session[h].state = "live" => session[h].mu \in {c, None}
    PROVE  Loyal'
    <1>1. live' = live /\ data' = data BY DEF files
    <1>2. \A g \in Handles \ {h} : Witness(session[g], session'[g]) BY <1>1 DEF Witness, Sees
    <1>3. \A d \in Callers \ {c} : Steady(call[d]) BY <1>1 DEF Steady
    <1>4. Faithful(s, live', data') /\ (r.pc # "idle" => r.h = h /\ Progress(r, s, live', data')) BY <1>1
    <1>5. \A d \in Callers \ {c} : call[d].pc # "idle" /\ call[d].h = h => call[d].pc \notin Aiming
        BY HeldElsewhere DEF Loyal
    <1> QED BY <1>2, <1>3, <1>4, <1>5, StepLoyal, ZenonT(60)

LEMMA HandleLoyal ==
    ASSUME Loyal, Base', UNCHANGED files, NEW c \in Callers, NEW h \in Handles, NEW r, NEW s,
           call' = [call EXCEPT ![c] = r], session' = [session EXCEPT ![h] = s], Faithful(s, live, data),
           r.pc # "idle" => r.h = h /\ Progress(r, s, live, data),
           session[h].state = "live" => session[h].mu \in {c, None}
    PROVE  Loyal'
    <1>1. session \in [Handles -> SessionRecord] BY BaseFacts DEF Loyal
    <1>2. session'[h] = s /\ \A g \in Handles \ {h} : Spared(session[g], session'[g]) BY <1>1 DEF Spared
    <1> QED BY <1>2, QuietLoyal

LEMMA LoyalHolding ==
    ASSUME Loyal, NEW c \in Callers, call[c].pc \in Handled
    PROVE  /\ call[c].h \in Handles /\ Mine(c) = session[call[c].h] /\ Fine(Mine(c)) /\ Mine(c).state = "live"
           /\ Mine(c).mu = c /\ Placed(c, call[c], Mine(c)) /\ call[c] \in CallRecord
           /\ Faithful(Mine(c), live, data) /\ Progress(call[c], Mine(c), live, data)
           /\ session[call[c].h].state = "live" => session[call[c].h].mu \in {c, None}
    <1>1. /\ call[c].h \in Handles /\ Mine(c) = session[call[c].h] /\ Fine(Mine(c)) /\ Mine(c).state = "live"
          /\ Mine(c).mu = c /\ Placed(c, call[c], Mine(c)) /\ call[c] \in CallRecord
        BY Holding DEF Loyal
    <1>2. call[c].pc # "idle" BY DEF Handled
    <1> QED BY <1>1, <1>2 DEF Loyal

\* The request ends; its handle keeps what it knows.
LEMMA UsedLoyal ==
    ASSUME Loyal, Base', NEW c \in Callers, call[c].pc \in Handled, UNCHANGED files, NEW s, Fine(s),
           Faithful(s, live, data), session' = Used(call[c].h, s), NEW ret \in {"ok", "failed"}, Return(c, ret)
    PROVE  Loyal'
    <1> DEFINE u == [[s EXCEPT !.lastUse = clock] EXCEPT !.mu = None]
               r == [Idle EXCEPT !.ret = ret]
    <1>1. Alike(u, s) BY BaseFacts, UseFine DEF Loyal
    <1>2. session' = [session EXCEPT ![call[c].h] = u] /\ call' = [call EXCEPT ![c] = r]
        BY DEF Used, Released, Return
    <1>3. r.pc = "idle" BY DEF Idle
    <1> HIDE DEF u, r
    <1>4. Faithful(u, live, data) BY <1>1, FaithfulAlike
    <1> QED BY <1>2, <1>3, <1>4, LoyalHolding, HandleLoyal

\* A stage that is not applied is as faithful as the one it came from.
LEMMA StagedFaithful ==
    ASSUME NEW s, NEW r, Same(r, s), r.pending = s.pending, r.created = s.created, r.path = s.path,
           r.published = s.published, ~r.applied, ~s.applied, Faithful(s, live, data)
    PROVE  Faithful(r, live, data)
    BY DEF Same, Faithful, Landed

LEMMA DataLoyal ==
    ASSUME Windows = {}, Loyal, Base', NEW c \in Callers,
           Write(c) \/ Truncate(c) \/ Touch(c) \/ LinkSession(c) \/ RelinkSession(c)
    PROVE  Loyal'
    <1> DEFINE h == call[c].h
               s == Mine(c)
    <1>1. call[c].pc \in Handled BY DEF Write, Truncate, Touch, LinkSession, RelinkSession, Holds, Handled
    <1>2. h \in Handles /\ Fine(s) /\ s.state = "live" /\ Faithful(s, live, data) BY <1>1, LoyalHolding
    <1>3. Return(c, "ok") /\ UNCHANGED files
        BY DEF Write, Truncate, Touch, LinkSession, RelinkSession, LocalStep
    <1>4. ASSUME NEW r, Fine(r), Faithful(r, live, data), session' = Used(h, r) PROVE Loyal'
        BY <1>1, <1>3, <1>4, UsedLoyal
    <1>5. \A w : ~Open(w) BY DEF Open
    <1>6. CASE Write(c)
        <2>1. PICK at \in Offsets :
                /\ LET w == StagedWrite(s, at, h) IN Len(w.tmp) <= MaxLen /\ session' = Used(h, w)
                /\ Open("reapply") \/ ~s.applied
            BY <1>6 DEF Write
        <2> DEFINE r == StagedWrite(s, at, h)
        <2>2. h \in Byte BY <1>2 DEF Byte
        <2>3. /\ Fine(r) /\ Same(r, s) /\ r.path = s.path /\ r.pending = s.pending /\ r.created = s.created
              /\ r.published = s.published /\ ~r.applied
            BY <1>2, <2>1, <2>2, WriteFine
        <2>4. session' = Used(h, r) /\ ~s.applied BY <1>5, <2>1
        <2> HIDE DEF r, s, h
        <2>5. Faithful(r, live, data) BY <1>2, <2>3, <2>4, StagedFaithful
        <2> QED BY <1>4, <2>3, <2>4, <2>5
    <1>7. CASE Truncate(c)
        <2> DEFINE t(size) == [Hydrated(s) EXCEPT !.tmp = Padded(View(s), size), !.full = TRUE,
                                                  !.tail = FALSE, !.dirty = TRUE, !.applied = FALSE]
        <2>1. PICK size \in 0..MaxLen :
                /\ session' = Used(h, IF size = Len(View(s)) THEN s ELSE t(size))
                /\ Open("reapply") \/ ~s.applied
            BY <1>7 DEF Truncate
        <2>2. size \in Nat BY Limits
        <2> DEFINE r == t(size)
        <2>3. /\ Fine(r) /\ Same(r, s) /\ r.path = s.path /\ r.pending = s.pending /\ r.created = s.created
              /\ r.published = s.published /\ ~r.applied
            BY <1>2, <2>2, TruncateFine
        <2>4. session' = Used(h, IF size = Len(View(s)) THEN s ELSE r) /\ ~s.applied BY <1>5, <2>1
        <2> HIDE DEF r, t, s, h
        <2>5. Faithful(r, live, data) BY <1>2, <2>3, <2>4, StagedFaithful
        <2> QED BY <1>2, <1>4, <2>3, <2>4, <2>5
    <1>8. CASE Touch(c) BY <1>2, <1>4, <1>8 DEF Touch
    <1>9. CASE LinkSession(c)
        <2> DEFINE l(n) == [s EXCEPT !.pending = Append(@, n), !.path = Append(s.pending, n)[1],
                                     !.created = TRUE, !.dirty = TRUE]
        <2>1. PICK n \in Names \ Range(s.pending) :
                /\ live[n] = None /\ (Open("link") \/ (~s.applied /\ s.pin = None)) /\ session' = Used(h, l(n))
            BY <1>9 DEF LinkSession
        <2> DEFINE r == l(n)
        <2>2. s.path = None \/ s.pending # <<>> BY <1>9 DEF LinkSession
        <2>3. /\ Fine(r) /\ Same(r, s) /\ r.created /\ r.published = s.published /\ r.applied = s.applied
              /\ r.pending # <<>> /\ Range(r.pending) = Range(s.pending) \cup {n}
            BY <1>2, <2>2, LinkFine
        <2>4. session' = Used(h, r) /\ ~s.applied /\ s.pin = None /\ live[n] = None BY <1>5, <2>1
        <2> HIDE DEF r, l, s, h
        <2>5. Faithful(r, live, data)
            <3>1. s.pending # <<>> => s.created
                <4>1. s.pending # <<>> => s.path # None
                    <5>1. s.pending \in Seq(Names) BY <1>2, Fields DEF Fine
                    <5>2. s.pending # <<>> => s.pending[1] \in Names BY <5>1
                    <5> QED BY <1>2, <5>2, Limits DEF Fine, Coherent
                <4> QED BY <1>2, <2>4, <4>1 DEF Fine, Coherent
            <3>2. s.pending = <<>> => Range(s.pending) = {} BY DEF Range
            <3>3. s.touched \/ \A m \in Range(r.pending) \ r.published : live[m] = None
                BY <1>2, <2>3, <2>4, <3>1, <3>2 DEF Faithful
            <3> QED BY <2>3, <2>4, <3>3 DEF Faithful, Same
        <2> QED BY <1>4, <2>3, <2>4, <2>5
    <1>10. CASE RelinkSession(c)
        <2> DEFINE l(n) == [s EXCEPT !.pending = <<n>>, !.path = n, !.created = TRUE, !.dirty = TRUE,
                                     !.applied = FALSE, !.published = {}]
        <2>1. PICK n \in Names : live[n] = None /\ session' = Used(h, l(n)) BY <1>10 DEF RelinkSession
        <2> DEFINE r == l(n)
        <2>2. Fine(r) /\ r.pending = <<n>> /\ r.created /\ ~r.applied BY <1>2, RelinkFine
        <2>3. session' = Used(h, r) /\ live[n] = None BY <2>1
        <2> HIDE DEF r, l, s, h
        <2>4. Range(r.pending) = {n} /\ r.pending # <<>> BY <2>2 DEF Range
        <2>5. Faithful(r, live, data) BY <2>2, <2>3, <2>4 DEF Faithful
        <2> QED BY <1>4, <2>2, <2>3, <2>5
    <1> QED BY <1>6, <1>7, <1>8, <1>9, <1>10

LEMMA FailLoyal ==
    ASSUME Loyal, Base', NEW c \in Callers, call[c].pc \in Handled, UNCHANGED files, NEW inode,
           Fail(c, Mine(c), inode)
    PROVE  Loyal'
    <1> DEFINE h == call[c].h
               s == [Mine(c) EXCEPT !.mu = None]
               r == [Idle EXCEPT !.ret = "failed", !.h = h, !.conflict = inode]
    <1>1. Alike(s, Mine(c)) BY LoyalHolding, LockFine
    <1>2. session' = [session EXCEPT ![h] = s] /\ call' = [call EXCEPT ![c] = r] BY DEF Fail, Released
    <1>3. r.pc = "idle" BY DEF Idle
    <1> HIDE DEF s, r
    <1>4. Faithful(s, live, data) BY <1>1, LoyalHolding, FaithfulAlike
    <1> QED BY <1>2, <1>3, <1>4, LoyalHolding, HandleLoyal

LEMMA DropLoyal ==
    ASSUME Loyal, Base', NEW c \in Callers, call[c].pc \in Handled, UNCHANGED files, Drop(c)
    PROVE  Loyal'
    <1> DEFINE h == call[c].h
               s == [Mine(c) EXCEPT !.mu = None]
               r == [call[c] EXCEPT !.pc = "reap"]
    <1>1. Alike(s, Mine(c)) BY LoyalHolding, LockFine
    <1>2. session' = [session EXCEPT ![h] = s] /\ call' = [call EXCEPT ![c] = r]
        <2>1. session \in [Handles -> SessionRecord] /\ Mine(c) = session[h] BY BaseFacts, LoyalHolding DEF Loyal
        <2> QED BY <2>1 DEF Drop, At
    <1>3. r.pc = "reap" /\ r.h = h /\ r.conflict = None
        <2>1. call[c] \in CallRecord /\ call[c].conflict = None BY LoyalHolding DEF Progress, Handled
        <2> QED BY <2>1 DEF CallRecord
    <1> HIDE DEF s, r
    <1>4. Faithful(s, live, data) BY <1>1, LoyalHolding, FaithfulAlike
    <1>5. Progress(r, s, live, data) BY <1>3 DEF Progress, Aiming
    <1> QED BY <1>2, <1>3, <1>4, <1>5, LoyalHolding, HandleLoyal

LEMMA CommitLoyal ==
    ASSUME Loyal, Base', NEW c \in Callers,
           CommitNothing(c) \/ SyncUnlinked(c) \/ CommitResolve(c) \/ CommitLock(c) \/ CommitFault(c) \/ Drain(c)
    PROVE  Loyal'
    <1> DEFINE h == call[c].h
    <1>1. call[c].pc \in Handled /\ UNCHANGED files
        BY DEF CommitNothing, SyncUnlinked, CommitResolve, CommitLock, CommitFault, Drain, Committing, Holds, Handled
    <1>2. /\ h \in Handles /\ Fine(Mine(c)) /\ Mine(c) = session[h] /\ Placed(c, call[c], Mine(c))
          /\ call[c] \in CallRecord /\ Faithful(Mine(c), live, data) /\ Progress(call[c], Mine(c), live, data)
          /\ session[h].state = "live" => session[h].mu \in {c, None}
        BY <1>1, LoyalHolding
    <1>3. Base /\ session \in [Handles -> SessionRecord] /\ call \in [Callers -> CallRecord] BY BaseFacts DEF Loyal
    <1>4. session = [session EXCEPT ![h] = Mine(c)] BY <1>2, <1>3
    <1>5. CASE CommitNothing(c)
        <2>1. CASE call[c].op = "sync" BY <1>1, <1>2, <1>5, <2>1, UsedLoyal DEF CommitNothing
        <2>2. CASE call[c].op # "sync" BY <1>1, <1>5, <2>2, DropLoyal DEF CommitNothing
        <2> QED BY <2>1, <2>2
    <1>6. CASE SyncUnlinked(c)
        <2> DEFINE s == [Mine(c) EXCEPT !.mu = None]
                   r == [Idle EXCEPT !.ret = "failed"]
        <2>1. Alike(s, Mine(c)) BY <1>2, LockFine
        <2>2. session' = [session EXCEPT ![h] = s] /\ call' = [call EXCEPT ![c] = r]
            BY <1>6 DEF SyncUnlinked, Released, Return
        <2>3. r.pc = "idle" BY DEF Idle
        <2> HIDE DEF s, r, h
        <2>4. Faithful(s, live, data) BY <1>2, <2>1, FaithfulAlike
        <2> QED BY <1>1, <1>2, <2>2, <2>3, <2>4, HandleLoyal
    <1>7. CASE CommitResolve(c)
        <2> DEFINE s == Hydrated(Mine(c))
                   t == CommitTargets(Mine(c))
                   r == [call[c] EXCEPT !.pc = "commit", !.targets = t]
        <2>1. /\ Mine(c).pending = <<>> /\ ~Mine(c).created => live[t[1]] = Mine(c).pin
              /\ t \in Seq(Names)
            BY <1>3, <1>7, TargetsAim
        <2>2. /\ s.pending = Mine(c).pending /\ s.created = Mine(c).created /\ s.pin = Mine(c).pin
              /\ s.touched = Mine(c).touched /\ s.applied = Mine(c).applied /\ s.path = Mine(c).path
              /\ s.published = Mine(c).published /\ s.base = Mine(c).base /\ s.tmp = View(Mine(c))
            BY <1>2, HydratedFine DEF Hydrated, Fine, SessionRecord
        <2>3. s.applied => s.tmp = Mine(c).tmp BY <1>2, <2>2 DEF View, Fine, Coherent
        <2>4. session' = [session EXCEPT ![h] = s] /\ call' = [call EXCEPT ![c].pc = "commit", ![c].targets = t]
            BY <1>7 DEF CommitResolve
        <2> HIDE DEF s, t
        <2>5. call' = [call EXCEPT ![c] = r] BY <1>3, <2>4 DEF CallRecord
        <2>6. r.pc = "commit" /\ r.h = h /\ r.targets = t /\ r.conflict = call[c].conflict
            BY <1>2, <2>1 DEF CallRecord
        <2>7. call[c].conflict = None BY <1>1, <1>2 DEF Progress, Handled
        <2> HIDE DEF r, h
        <2>8. Faithful(s, live, data) BY <1>2, <2>2, <2>3 DEF Faithful, Landed
        <2>9. Progress(r, s, live, data) BY <2>1, <2>2, <2>6, <2>7 DEF Progress
        <2> QED BY <1>1, <1>2, <2>4, <2>5, <2>6, <2>8, <2>9, HandleLoyal
    <1>8. CASE CommitLock(c)
        <2> DEFINE taken == Taken(Mine(c), call[c].targets)
        <2>1. CASE taken # {}
            <3>1. PICK n \in taken : Fail(c, Mine(c), live[n]) BY <1>8, <2>1 DEF CommitLock
            <3> QED BY <1>1, <3>1, FailLoyal
        <2>2. CASE taken = {}
            <3> DEFINE pc == IF Mine(c).applied THEN "drain" ELSE "verbs"
                       r == [call[c] EXCEPT !.pc = pc, !.rest = call[c].targets]
            <3>1. /\ session' = [session EXCEPT ![h] = Mine(c)] /\ call[c].pc = "commit"
                  /\ call' = [call EXCEPT ![c].pc = pc, ![c].rest = call[c].targets]
                BY <1>4, <1>8, <2>2 DEF CommitLock
            <3>2. call' = [call EXCEPT ![c] = r] BY <1>3, <3>1 DEF CallRecord
            <3>3. /\ r.pc = pc /\ r.h = h /\ r.targets = call[c].targets /\ r.rest = call[c].targets
                  /\ r.conflict = call[c].conflict /\ pc \in {"drain", "verbs"}
                BY <1>2 DEF CallRecord
            <3> HIDE DEF r, h, pc
            <3>4. Progress(r, Mine(c), live, data) BY <1>2, <3>1, <3>3 DEF Progress, Aiming
            <3> QED BY <1>1, <1>2, <3>1, <3>2, <3>3, <3>4, HandleLoyal
        <2> QED BY <2>1, <2>2
    <1>9. CASE CommitFault(c) BY <1>1, <1>9, FailLoyal DEF CommitFault
    <1>10. CASE Drain(c)
        <2>1. CASE call[c].op = "sync"
            <3> DEFINE r == [call[c] EXCEPT !.pc = "repin"]
            <3>1. session' = [session EXCEPT ![h] = Mine(c)] /\ call' = [call EXCEPT ![c] = r]
                BY <1>4, <1>10, <2>1 DEF Drain, At
            <3>2. r.pc = "repin" /\ r.h = h /\ r.conflict = call[c].conflict BY <1>2 DEF CallRecord
            <3>3. call[c].conflict = None BY <1>1, <1>2 DEF Progress, Handled
            <3> HIDE DEF r, h
            <3>4. Progress(r, Mine(c), live, data) BY <3>2, <3>3 DEF Progress, Aiming
            <3> QED BY <1>1, <1>2, <3>1, <3>2, <3>4, HandleLoyal
        <2>2. CASE call[c].op # "sync" BY <1>1, <1>10, <2>2, DropLoyal DEF Drain
        <2> QED BY <2>1, <2>2
    <1> QED BY <1>5, <1>6, <1>7, <1>8, <1>9, <1>10

LEMMA LookupLoyal ==
    ASSUME Loyal, Base', NEW c \in Callers,
           \/ \E h \in Handles, op \in {"write", "truncate", "link", "relink", "sync", "close", "discard"} :
                Lookup(c, h, op)
           \/ AwaitHandle(c) \/ Reap(c)
    PROVE  Loyal'
    <1>0. Base /\ session \in [Handles -> SessionRecord] /\ call \in [Callers -> CallRecord] BY BaseFacts DEF Loyal
    <1>1. UNCHANGED files BY DEF Lookup, AwaitHandle, Reap
    <1>2. ASSUME NEW h \in Handles, NEW r, session' = session, call' = [call EXCEPT ![c] = r], r.h = h,
                 r.pc \in {"await", "rewait"}, r.conflict = None
          PROVE  Loyal'
        <2>1. live' = live /\ data' = data BY <1>1 DEF files
        <2>2. \A g \in Handles : Faithful(session'[g], live', data') BY <1>2, <2>1 DEF Loyal
        <2>3. ASSUME NEW d \in Callers, call'[d].pc # "idle"
              PROVE  Progress(call'[d], session'[call'[d].h], live', data')
            <3>1. CASE d = c
                <4>1. call'[d] = r BY <1>0, <1>2, <3>1
                <4> QED BY <1>2, <4>1 DEF Progress, Aiming
            <3>2. CASE d # c
                <4>1. call'[d] = call[d] BY <1>0, <1>2, <3>2
                <4> QED BY <1>2, <2>1, <2>3, <4>1 DEF Loyal
            <3> QED BY <3>1, <3>2
        <2> QED BY <2>2, <2>3 DEF Loyal
    <1>3. ASSUME NEW h \in Handles, NEW op, NEW now, Enter(c, h, now, op), session[h].mu = None
          PROVE  Loyal'
        <2>0. /\ Fine(session[h]) /\ Faithful(session[h], live, data) /\ session[h].mu \in {c, None}
            BY <1>0, <1>3, BaseFacts DEF Loyal
        <2>1. CASE session[h].state # "live"
            <3>1. session' = [session EXCEPT ![h] = session[h]] /\ call' = [call EXCEPT ![c] = [Idle EXCEPT !.ret = "failed"]]
                BY <1>0, <1>3, <2>1 DEF Enter, Return
            <3>2. [Idle EXCEPT !.ret = "failed"].pc = "idle" BY DEF Idle
            <3> QED BY <1>1, <2>0, <3>1, <3>2, HandleLoyal
        <2>2. CASE session[h].state = "live" /\ Expired(session[h], now)
            <3> DEFINE s == Destroyed(session[h])
            <3>1. session' = [session EXCEPT ![h] = s] /\ call' = [call EXCEPT ![c] = [Idle EXCEPT !.ret = "failed"]]
                BY <1>3, <2>2 DEF Enter, Return
            <3>2. [Idle EXCEPT !.ret = "failed"].pc = "idle" BY DEF Idle
            <3>3. Faithful(s, live, data) BY DEF Faithful, Destroyed, FreeSession
            <3> HIDE DEF s
            <3> QED BY <1>1, <2>0, <3>1, <3>2, <3>3, HandleLoyal
        <2>3. CASE session[h].state = "live" /\ ~Expired(session[h], now)
            <3> DEFINE s == [session[h] EXCEPT !.mu = c]
                       r == [Idle EXCEPT !.pc = "held", !.op = op, !.h = h]
            <3>1. session' = [session EXCEPT ![h] = s] /\ call' = [call EXCEPT ![c] = r]
                BY <1>0, <1>3, <2>3 DEF Enter
            <3>2. r.pc = "held" /\ r.h = h /\ r.conflict = None BY DEF Idle
            <3>3. Alike(s, session[h]) BY <2>0, LockFine
            <3> HIDE DEF s, r
            <3>4. Faithful(s, live, data) BY <2>0, <3>3, FaithfulAlike
            <3>5. Progress(r, s, live, data) BY <3>2 DEF Progress, Aiming
            <3> QED BY <1>1, <2>0, <3>1, <3>2, <3>4, <3>5, HandleLoyal
        <2> QED BY <2>1, <2>2, <2>3
    <1>4. CASE AwaitHandle(c)
        <2>1. call[c].h \in Handles /\ session[call[c].h].mu = None /\ Enter(c, call[c].h, call[c].now, call[c].op)
            BY <1>0, <1>4, BaseFacts DEF AwaitHandle
        <2> QED BY <1>3, <2>1
    <1>5. ASSUME NEW h \in Handles, NEW op \in {"write", "truncate", "link", "relink", "sync", "close", "discard"},
                 Lookup(c, h, op)
          PROVE  Loyal'
        <2>1. CASE session[h].mu = None BY <1>3, <1>5, <2>1 DEF Lookup
        <2>2. CASE session[h].mu # None
            <3> DEFINE r == [Idle EXCEPT !.pc = "await", !.op = op, !.h = h, !.now = clock]
            <3>1. session' = session /\ call' = [call EXCEPT ![c] = r] BY <1>5, <2>2 DEF Lookup
            <3>2. r.pc = "await" /\ r.h = h /\ r.conflict = None BY DEF Idle
            <3> HIDE DEF r
            <3> QED BY <1>2, <3>1, <3>2
        <2> QED BY <2>1, <2>2
    <1>6. CASE Reap(c)
        <2> DEFINE h == call[c].h
        <2>1. /\ h \in Handles /\ call[c].pc \in {"reap", "rewait"} /\ call[c] \in CallRecord /\ call[c].conflict = None
            <3>1. call[c].pc \in {"reap", "rewait"} /\ call[c].pc # "idle" BY <1>6 DEF Reap
            <3> QED BY <1>0, <3>1, BaseFacts DEF Loyal, Progress
        <2>2. CASE session[h].state = "live" /\ session[h].mu # None
            <3> DEFINE r == [call[c] EXCEPT !.pc = "rewait"]
            <3>1. session' = session /\ call' = [call EXCEPT ![c] = r] BY <1>6, <2>2 DEF Reap, At
            <3>2. r.pc = "rewait" /\ r.h = h /\ r.conflict = None BY <2>1 DEF CallRecord
            <3> HIDE DEF r
            <3> QED BY <1>2, <2>1, <3>1, <3>2
        <2>3. CASE ~(session[h].state = "live" /\ session[h].mu # None)
            <3> DEFINE ret == IF session[h].state = "live" THEN "ok" ELSE ReapAnswer(session[h])
                       s == Destroyed(session[h])
                       r == [Idle EXCEPT !.ret = ret]
            <3>1. session' = [session EXCEPT ![h] = s] /\ call' = [call EXCEPT ![c] = r]
                BY <1>0, <1>6, <2>1, <2>3 DEF Reap, Return
            <3>2. r.pc = "idle" BY DEF Idle
            <3>3. Faithful(s, live, data) BY DEF Faithful, Destroyed, FreeSession
            <3>4. session[h].state = "live" => session[h].mu \in {c, None} BY <2>3
            <3> HIDE DEF s, r, h
            <3> QED BY <1>1, <2>1, <3>1, <3>2, <3>3, <3>4, HandleLoyal
        <2> QED BY <2>2, <2>3
    <1> QED BY <1>4, <1>5, <1>6

LEMMA RepinLoyal ==
    ASSUME Loyal, Base', NEW c \in Callers, Repin(c)
    PROVE  Loyal'
    <1> DEFINE h == call[c].h
               s == Mine(c)
               n == Head(call[c].targets)
    <1>1. call[c].pc \in Handled /\ UNCHANGED files BY DEF Repin, Handled
    <1>2. h \in Handles /\ Fine(s) /\ s \in SessionRecord /\ Faithful(s, live, data)
          /\ (session[h].state = "live" => session[h].mu \in {c, None})
        BY <1>1, LoyalHolding DEF Fine
    <1>3. CASE live[n] = None
        <2> DEFINE u == [s EXCEPT !.mu = None]
                   r == [Idle EXCEPT !.ret = "failed"]
        <2>1. Alike(u, s) BY <1>2, LockFine
        <2>2. session' = [session EXCEPT ![h] = u] /\ call' = [call EXCEPT ![c] = r]
            BY <1>3 DEF Repin, Released, Return
        <2>3. r.pc = "idle" BY DEF Idle
        <2> HIDE DEF u, r, s, h
        <2>4. Faithful(u, live, data) BY <1>2, <2>1, FaithfulAlike
        <2> QED BY <1>1, <1>2, <2>2, <2>3, <2>4, HandleLoyal
    <1>4. CASE live[n] # None
        <2> DEFINE u == [s EXCEPT !.pin = live[n], !.path = n, !.base = data[live[n]], !.tmp = <<>>,
                                  !.staged = FALSE, !.dirty = FALSE, !.applied = FALSE, !.created = FALSE,
                                  !.published = {}, !.full = FALSE, !.tail = TRUE, !.ranges = {},
                                  !.touched = FALSE]
                   v == [[u EXCEPT !.lastUse = clock] EXCEPT !.mu = None]
                   r == [Idle EXCEPT !.ret = "ok"]
        <2>1. session' = [session EXCEPT ![h] = v] /\ call' = [call EXCEPT ![c] = r]
            BY <1>4 DEF Repin, Used, Released, Return
        <2>2. /\ v.pin = live[n] /\ v.base = data[live[n]] /\ ~v.applied /\ ~v.created
            BY <1>2 DEF SessionRecord
        <2>3. r.pc = "idle" BY DEF Idle
        <2> HIDE DEF u, v, r, s, h
        <2>4. Faithful(v, live, data) BY <2>2 DEF Faithful
        <2> QED BY <1>1, <1>2, <2>1, <2>3, <2>4, HandleLoyal
    <1> QED BY <1>3, <1>4

LEMMA PinFaithful ==
    ASSUME NEW t \in 0..MaxClock, NEW kind \in OpenKinds, NEW n \in Names
    PROVE  Faithful(PinTarget([FreeSession EXCEPT !.state = "opening", !.lastUse = t], kind, n), live, data)
    <1> DEFINE o == [FreeSession EXCEPT !.state = "opening", !.lastUse = t]
               p == PinTarget(o, kind, n)
    <1>1. kind \in {"scratch", "create", "append", "truncate", "update"} BY Limits
    <1>2. CASE kind = "scratch" BY <1>2 DEF PinTarget, FreeSession, Faithful
    <1>3. CASE kind = "create" /\ live[n] = None
        <2>1. p.pending = <<>> /\ p.created /\ ~p.applied /\ p.path = n
            BY <1>3 DEF PinTarget, Created, FreeSession
        <2> HIDE DEF p
        <2>2. Faithful(p, live, data) BY <1>3, <2>1 DEF Faithful
        <2> QED BY <2>2 DEF p
    <1>4. CASE kind # "scratch" /\ ~(kind = "create" /\ live[n] = None)
        <2>1. p.pending = <<>> /\ ~p.created /\ ~p.applied /\ p.pin = live[n] /\ p.base = data[live[n]]
            BY <1>1, <1>4 DEF PinTarget, Pinned, FreeSession
        <2> HIDE DEF p
        <2>2. Faithful(p, live, data) BY <2>1 DEF Faithful
        <2> QED BY <2>2 DEF p
    <1> QED BY <1>2, <1>3, <1>4

LEMMA OpenLoyal ==
    ASSUME Loyal, Base', NEW c \in Callers,
           (\E h \in Handles : OpenAdmit(c, h)) \/ OpenPin(c) \/ OpenInsert(c)
    PROVE  Loyal'
    <1>0. /\ Base /\ session \in [Handles -> SessionRecord] /\ call \in [Callers -> CallRecord] /\ UNCHANGED files
          /\ \A g \in Handles : Faithful(session[g], live, data) /\ session[g] \in SessionRecord
        BY BaseFacts DEF Loyal, OpenAdmit, OpenPin, OpenInsert
    <1>1. ASSUME NEW h \in Handles, OpenAdmit(c, h) PROVE Loyal'
        <2>1. session[h].state = "free" BY <1>1 DEF OpenAdmit
        <2>2. CASE Cardinality(Kept) >= Cap
            <3> DEFINE r == [Idle EXCEPT !.ret = "failed"]
            <3>1. session' = Sweep /\ call' = [call EXCEPT ![c] = r] BY <1>1, <2>2 DEF OpenAdmit, Return
            <3>2. session'[h] = session[h] /\ \A g \in Handles \ {h} : Spared(session[g], session'[g])
                BY <1>0, <2>1, <3>1, SweepSpares
            <3>3. r.pc = "idle" BY DEF Idle
            <3> HIDE DEF r
            <3> QED BY <1>0, <2>1, <3>1, <3>2, <3>3, QuietLoyal
        <2>3. CASE ~(Cardinality(Kept) >= Cap)
            <3> DEFINE s == [FreeSession EXCEPT !.state = "opening", !.lastUse = clock]
                       r == [Idle EXCEPT !.pc = "pin", !.h = h]
            <3>1. session' = [Sweep EXCEPT ![h] = s] /\ call' = [call EXCEPT ![c] = r] BY <1>1, <2>3 DEF OpenAdmit
            <3>2. Faithful(s, live, data) BY DEF Faithful, FreeSession
            <3>3. r.pc = "pin" /\ r.h = h /\ r.conflict = None BY DEF Idle
            <3> HIDE DEF s, r
            <3>4. session'[h] = s /\ \A g \in Handles \ {h} : Spared(session[g], session'[g])
                BY <1>0, <3>1, SweepSpares
            <3>5. Progress(r, s, live, data) BY <3>3 DEF Progress, Aiming
            <3> QED BY <1>0, <2>1, <3>1, <3>2, <3>3, <3>4, <3>5, QuietLoyal
        <2> QED BY <2>2, <2>3
    <1> DEFINE h == call[c].h
    <1>2. ASSUME OpenPin(c) \/ OpenInsert(c)
          PROVE  /\ h \in Handles /\ session[h].state = "opening" /\ call[c].conflict = None /\ call[c] \in CallRecord
                 /\ Placed(c, call[c], session[h])
        <2>1. call[c].pc \in Openers /\ call[c].pc # "idle" BY <1>2 DEF OpenPin, OpenInsert, Openers
        <2>2. h \in Handles /\ Placed(c, call[c], session[h]) /\ call[c] \in CallRecord BY <1>0, <2>1, BaseFacts
        <2>3. session[h].state = "opening" BY <2>1, <2>2, OpeningState
        <2> QED BY <2>1, <2>2, <2>3 DEF Loyal, Progress
    <1>3. CASE OpenPin(c)
        <2>1. call[c].pc = "pin" /\ At(c, "insert") BY <1>3 DEF OpenPin
        <2>2. PICK kind \in OpenKinds, n \in Names : session' = [session EXCEPT ![h] = PinTarget(session[h], kind, n)]
            BY <1>3 DEF OpenPin
        <2> DEFINE s == PinTarget(session[h], kind, n)
                   r == [call[c] EXCEPT !.pc = "insert"]
        <2>3. Faithful(s, live, data)
            <3>1. session[h] = [FreeSession EXCEPT !.state = "opening", !.lastUse = session[h].lastUse]
                BY <1>2, <1>3, <2>1 DEF Placed
            <3>2. session[h] \in SessionRecord BY <1>0, <1>2, <1>3
            <3>3. PICK t \in 0..MaxClock : t = session[h].lastUse BY <3>2, Fields
            <3> DEFINE o == [FreeSession EXCEPT !.state = "opening", !.lastUse = t]
            <3>4. Faithful(PinTarget(o, kind, n), live, data) BY PinFaithful
            <3>5. session[h] = o BY <3>1, <3>3
            <3> HIDE DEF o, h
            <3> QED BY <3>4, <3>5
        <2>4. session' = [session EXCEPT ![h] = s] /\ call' = [call EXCEPT ![c] = r] BY <2>1, <2>2 DEF At
        <2>5. r.pc = "insert" /\ r.h = h /\ r.conflict = None BY <1>2, <1>3 DEF CallRecord
        <2>6. h \in Handles /\ session[h].state = "opening" BY <1>2, <1>3
        <2> HIDE DEF s, r, h
        <2>7. Progress(r, s, live, data) BY <2>5 DEF Progress, Aiming
        <2> QED BY <1>0, <2>3, <2>4, <2>5, <2>6, <2>7, HandleLoyal
    <1>4. CASE OpenInsert(c) /\ Cardinality(Kept) >= Cap
        <2> DEFINE s == Destroyed(session[h])
                   r == [Idle EXCEPT !.ret = "failed"]
        <2>1. session' = [Sweep EXCEPT ![h] = s] /\ call' = [call EXCEPT ![c] = r] BY <1>4 DEF OpenInsert, Return
        <2>2. Faithful(s, live, data) BY DEF Faithful, Destroyed, FreeSession
        <2>3. r.pc = "idle" BY DEF Idle
        <2>4. h \in Handles /\ session[h].state = "opening" BY <1>2, <1>4
        <2> HIDE DEF s, r, h
        <2>5. session'[h] = s /\ \A g \in Handles \ {h} : Spared(session[g], session'[g])
            BY <1>0, <2>1, <2>4, SweepSpares
        <2> QED BY <1>0, <2>1, <2>2, <2>3, <2>4, <2>5, QuietLoyal
    <1>5. CASE OpenInsert(c) /\ ~(Cardinality(Kept) >= Cap)
        <2> DEFINE s == [session[h] EXCEPT !.state = "live"]
                   r == [Idle EXCEPT !.ret = "ok"]
        <2>1. h \in Handles /\ session[h].state = "opening" /\ session[h].state # "live" BY <1>2, <1>5
        <2>2. session' = [Sweep EXCEPT ![h] = s] /\ call' = [call EXCEPT ![c] = r]
            <3>1. Sweep[h] = session[h] BY <1>0, <2>1, SweepSpares
            <3>2. session' = [Sweep EXCEPT ![h].state = "live"] BY <1>5 DEF OpenInsert
            <3>3. call' = [call EXCEPT ![c] = r] BY <1>5 DEF OpenInsert, Return
            <3> QED BY <1>0, <2>1, <3>1, <3>2, <3>3, SweepSpares
        <2>3. Faithful(s, live, data)
            <3>1. session[h] \in SessionRecord /\ Faithful(session[h], live, data) BY <1>0, <2>1
            <3>2. /\ s.path = session[h].path /\ s.pending = session[h].pending /\ s.pin = session[h].pin
                  /\ s.base = session[h].base /\ s.tmp = session[h].tmp /\ s.created = session[h].created
                  /\ s.applied = session[h].applied /\ s.published = session[h].published
                  /\ s.touched = session[h].touched
                BY <3>1 DEF SessionRecord
            <3> HIDE DEF s
            <3> QED BY <3>1, <3>2 DEF Faithful, Landed
        <2>4. r.pc = "idle" BY DEF Idle
        <2> HIDE DEF s, r, h
        <2>5. session'[h] = s /\ \A g \in Handles \ {h} : Spared(session[g], session'[g])
            BY <1>0, <2>1, <2>2, SweepSpares
        <2> QED BY <1>0, <2>1, <2>2, <2>3, <2>4, <2>5, QuietLoyal
    <1> QED BY <1>1, <1>3, <1>4, <1>5

LEMMA RivalLoyal ==
    ASSUME Windows = {}, Loyal, Base', Rival
    PROVE  Loyal'
    <1>0. /\ Base /\ session \in [Handles -> SessionRecord] /\ call \in [Callers -> CallRecord] /\ FilesTyped
          /\ \A g \in Handles : Fine(session[g]) /\ Faithful(session[g], live, data)
        BY BaseFacts DEF Loyal
    <1>1. session' = Marked(session, None, live', data') /\ call' = call BY DEF Rival
    <1>2. /\ \A g \in Handles : Spared(session[g], session'[g])
          /\ \A g \in Handles : session'[g] = session[g] \/ session'[g] = [session[g] EXCEPT !.touched = TRUE]
          /\ \A g \in Handles : g # None /\ Sees(session[g], live', data') => session'[g] = [session[g] EXCEPT !.touched = TRUE]
        BY <1>0, <1>1, MarkedSpares
    <1>3. \A g \in Handles : Witness(session[g], session'[g])
        <2> TAKE g \in Handles
        <2>1. session[g] \in SessionRecord BY <1>0
        <2>2. Sees(session[g], live', data') => session'[g] = [session[g] EXCEPT !.touched = TRUE]
            BY <1>2, Limits
        <2>3. [session[g] EXCEPT !.touched = TRUE].touched BY <2>1 DEF SessionRecord
        <2> QED BY <1>2, <2>2, <2>3 DEF Witness
    <1>4. \A g \in Handles : Faithful(session'[g], live', data') BY <1>0, <1>3, WitnessFaithful
    <1>5. \A n \in Names : live[n] # None /\ Waits(n) => live'[n] = live[n]
        <2>1. ~Open("resolve") BY DEF Open
        <2> QED BY <1>0, <2>1 DEF Rival, FilesTyped
    <1>6. ASSUME NEW d \in Callers, call'[d].pc # "idle"
          PROVE  Progress(call'[d], session'[call'[d].h], live', data')
        <2>1. /\ call[d].h \in Handles /\ Placed(d, call[d], session[call[d].h]) /\ call[d] \in CallRecord
              /\ Progress(call[d], session[call[d].h], live, data)
            BY <1>0, <1>1, <1>6, BaseFacts DEF Loyal
        <2>2. Steady(call[d])
            <3> SUFFICES ASSUME call[d].pc \in {"commit", "verbs"}, live[call[d].targets[1]] # None
                         PROVE  live'[call[d].targets[1]] = live[call[d].targets[1]]
                BY DEF Steady
            <3>1. call[d].targets \in Seq(Names) /\ call[d].targets # <<>>
                BY <2>1 DEF Placed, Sending, Aims, CallRecord
            <3>2. 1 \in DOMAIN call[d].targets /\ call[d].targets[1] \in Names BY <3>1
            <3>3. call[d].targets[1] \in Range(call[d].targets) BY <3>2 DEF Range
            <3>4. Waits(call[d].targets[1]) BY <3>3 DEF Waits
            <3> QED BY <1>5, <3>2, <3>4
        <2> QED BY <1>0, <1>1, <1>3, <2>1, <2>2, WitnessProgress
    <1> QED BY <1>4, <1>6 DEF Loyal

\* A verb carries the staged bytes to its name, and to the pinned file alone unless it
\* makes one.
LEMMA VerbLands ==
    ASSUME Loyal, NEW c \in Callers, VerbStep(c), files' # files \/ call'[c].pc # "idle"
    PROVE  LET s == Mine(c)
               n == Head(call[c].rest)
           IN  /\ s.pending = <<>> => /\ call[c].rest = call[c].targets /\ Len(call[c].rest) = 1
                                      /\ n = call[c].targets[1]
               /\ s.pending = <<>> /\ ~s.created =>
                    /\ live[n] = s.pin /\ live'[n] = s.pin /\ s.pin # None
                    /\ data'[s.pin] = Image(s, data[s.pin]) /\ EditsFit(s, data[s.pin]) /\ data[s.pin] \in Bytes
                    /\ \A i \in Inodes : i # s.pin => data'[i] = data[i]
               /\ ~s.touched => live'[n] # None /\ data'[live'[n]] = s.tmp
    <1> DEFINE s == Mine(c)
               n == Head(call[c].rest)
    <1>1. /\ Fine(s) /\ Placed(c, call[c], s) /\ call[c] \in CallRecord /\ call[c].pc = "verbs"
          /\ Faithful(s, live, data) /\ Progress(call[c], s, live, data)
        BY LoyalHolding DEF VerbStep, Handled
    <1>2. /\ n \in Names /\ live'[n] # None /\ live'[n] \in Inodes
          /\ \A i \in Inodes : i # live'[n] => data'[i] = data[i]
          /\ \/ live[n] = None /\ data[live'[n]] = None /\ data'[live'[n]] = s.tmp
             \/ /\ live[n] = live'[n] /\ data[live[n]] \in Bytes
                /\ data'[live[n]] = IF s.pending # <<>> THEN s.tmp ELSE Image(s, data[live[n]])
                /\ s.pending = <<>> => ~s.created /\ EditsFit(s, data[live[n]])
        BY VerbPublishes DEF Loyal
    <1>3. s.staged /\ ~s.applied /\ Aims(s, call[c].targets) /\ (s.pending = <<>> => call[c].rest = call[c].targets)
          /\ s.path # None
        BY <1>1 DEF Placed, Sending
    <1>4. s.pending = <<>> => /\ call[c].rest = call[c].targets /\ Len(call[c].rest) = 1
                              /\ n = call[c].targets[1]
        BY <1>3 DEF Aims
    <1> HIDE DEF n, s
    <1>5. ASSUME s.pending = <<>>, ~s.created
          PROVE  /\ live[n] = s.pin /\ live'[n] = s.pin /\ s.pin # None
                 /\ data'[s.pin] = Image(s, data[s.pin]) /\ EditsFit(s, data[s.pin]) /\ data[s.pin] \in Bytes
                 /\ \A i \in Inodes : i # s.pin => data'[i] = data[i]
        <2>1. live[n] = s.pin BY <1>1, <1>4, <1>5 DEF Progress, Aiming
        <2>2. s.pin # None BY <1>1, <1>3, <1>5 DEF Fine, Coherent
        <2> QED BY <1>2, <1>5, <2>1, <2>2
    <1>6. ASSUME ~s.touched PROVE data'[live'[n]] = s.tmp
        <2>1. CASE s.pending # <<>> BY <1>2, <2>1
        <2>2. CASE s.pending = <<>> /\ s.created BY <1>2, <2>2
        <2>3. CASE s.pending = <<>> /\ ~s.created
            <3>1. data[s.pin] = s.base BY <1>1, <1>3, <1>5, <1>6, <2>3 DEF Faithful
            <3>2. Image(s, data[s.pin]) = s.tmp BY <1>1, <1>3, <1>5, <2>3, <3>1, ImageBytes
            <3> QED BY <1>5, <2>3, <3>2
        <2> QED BY <2>1, <2>2, <2>3
    <1> QED BY <1>2, <1>4, <1>5, <1>6 DEF n, s

LEMMA VerbLoyal ==
    ASSUME Loyal, Base', NEW c \in Callers, VerbStep(c)
    PROVE  Loyal'
    <1> DEFINE h == call[c].h
               s == Mine(c)
               n == Head(call[c].rest)
               last == Len(call[c].rest) = 1
               done == [s EXCEPT !.published = IF s.pending # <<>> /\ s.created THEN @ \cup {n} ELSE @,
                                 !.applied = last]
    <1>1. /\ Base /\ h \in Handles /\ Fine(s) /\ s \in SessionRecord /\ s = session[h] /\ Placed(c, call[c], s)
          /\ call[c] \in CallRecord /\ call[c].pc = "verbs" /\ Faithful(s, live, data)
          /\ Progress(call[c], s, live, data)
          /\ session[h].state = "live" => session[h].mu \in {c, None}
        BY LoyalHolding DEF VerbStep, Handled, Fine, Loyal
    <1>2. session \in [Handles -> SessionRecord] /\ call \in [Callers -> CallRecord] /\ FilesTyped
        BY <1>1, BaseFacts
    <1>3. CASE files' = files /\ call'[c].pc = "idle"
        <2> DEFINE inode == IF MakesFile(s, n) THEN live[n] ELSE None
        <2>1. Fail(c, s, inode)
            <3>1. ~(call' = [call EXCEPT ![c].rest = Tail(@), ![c].pc = IF last THEN "drain" ELSE "verbs"])
                <4> SUFFICES ASSUME call' = [call EXCEPT ![c].rest = Tail(@), ![c].pc = IF last THEN "drain" ELSE "verbs"]
                             PROVE  FALSE
                    OBVIOUS
                <4>1. call'[c].pc = IF last THEN "drain" ELSE "verbs" BY <1>2 DEF CallRecord
                <4> QED BY <1>3, <4>1
            <3> QED BY <3>1 DEF VerbStep
        <2> HIDE DEF inode
        <2> QED BY <1>1, <1>3, <2>1, FailLoyal DEF Handled, files
    <1>4. CASE files' # files \/ call'[c].pc # "idle"
        <2> DEFINE pc == IF last THEN "drain" ELSE "verbs"
                   r == [call[c] EXCEPT !.rest = Tail(@), !.pc = pc]
                   ss == [session EXCEPT ![h] = done]
        <2>1. /\ ~VerbRefused(s, n) /\ n \in Names /\ n \in Range(call[c].rest)
              /\ session' = Marked(ss, h, live', data')
              /\ live'[n] # None /\ live'[n] \in Inodes
              /\ \A m \in Names : m # n => live'[m] = live[m]
              /\ \A i \in Inodes : i # live'[n] => data'[i] = data[i]
              /\ live[n] # None => live'[n] = live[n]
              /\ call' = [call EXCEPT ![c].rest = Tail(@), ![c].pc = pc]
            BY <1>1, <1>4, VerbPublishes
        <2>2. /\ s.pending = <<>> => /\ call[c].rest = call[c].targets /\ last /\ n = call[c].targets[1]
              /\ s.pending = <<>> /\ ~s.created => live[n] = s.pin /\ live'[n] = s.pin /\ data'[s.pin] = Image(s, data[s.pin])
              /\ ~s.touched => live'[n] # None /\ data'[live'[n]] = s.tmp
            BY <1>4, VerbLands
        <2>3. /\ call' = [call EXCEPT ![c] = r] /\ r.pc = pc /\ r.h = h /\ r.targets = call[c].targets
              /\ r.rest = Tail(call[c].rest) /\ r.conflict = call[c].conflict
            BY <1>1, <1>2, <2>1 DEF CallRecord
        <2>4. /\ done \in SessionRecord /\ done.applied = last
              /\ done.published = (IF s.pending # <<>> /\ s.created THEN s.published \cup {n} ELSE s.published)
              /\ done.path = s.path /\ done.pending = s.pending
              /\ done.pin = s.pin /\ done.base = s.base /\ done.tmp = s.tmp /\ done.staged = s.staged
              /\ done.dirty = s.dirty /\ done.created = s.created /\ done.full = s.full /\ done.tail = s.tail
              /\ done.ranges = s.ranges /\ done.touched = s.touched
            <3>1. s \in SessionRecord /\ n \in Names /\ last \in BOOLEAN BY <1>1, <2>1
            <3> HIDE DEF s, n, last
            <3> QED BY <3>1 DEF SessionRecord
        <2>5. /\ ~s.applied /\ Aims(s, call[c].targets) /\ Range(call[c].rest) \subseteq Range(call[c].targets)
              /\ call[c].targets \in Seq(Names) /\ call[c].rest \in Seq(Names) /\ call[c].rest # <<>>
            BY <1>1 DEF Placed, Sending, CallRecord
        <2>13. /\ call[c].conflict = None
               /\ s.touched \/ \A m \in Range(call[c].targets) \ Range(call[c].rest) : Landed(s, m, live, data)
            BY <1>1 DEF Progress
        <2>6. /\ Range(call[c].rest) \subseteq {n} \cup Range(Tail(call[c].rest))
              /\ last => Range(call[c].rest) = {n}
            <3> DEFINE q == call[c].rest
                       l == Len(q)
            <3>1. /\ q \in Seq(Names) /\ q # <<>> /\ l \in Nat /\ DOMAIN q = 1..l /\ n = q[1]
                BY <2>5
            <3>2. Tail(q) \in Seq(Names) /\ Len(Tail(q)) = l - 1 /\ \A i \in 1..Len(Tail(q)) : Tail(q)[i] = q[i + 1]
                BY <3>1, HeadTailProperties
            <3>3. DOMAIN Tail(q) = 1..(l - 1) BY <3>1, <3>2
            <3>4. \A i \in 1..l : i = 1 \/ q[i] \in Range(Tail(q))
                <4> SUFFICES ASSUME NEW i \in 1..l, i # 1 PROVE q[i] \in Range(Tail(q))
                    OBVIOUS
                <4>1. i - 1 \in 1..(l - 1) /\ (i - 1) + 1 = i BY <3>1
                <4>2. Tail(q)[i - 1] = q[i] BY <3>2, <4>1
                <4> QED BY <3>3, <4>1, <4>2 DEF Range
            <3>5. last => l = 1 OBVIOUS
            <3> HIDE DEF q, l, n
            <3>6. Range(q) \subseteq {n} \cup Range(Tail(q)) BY <3>1, <3>4 DEF Range
            <3>7. l = 1 => Range(q) = {n} BY <3>1 DEF Range
            <3> QED BY <3>5, <3>6, <3>7 DEF q
        <2>7. Range(s.pending) \subseteq Names /\ (s.created => s.path \in Names) BY <1>1, NamesWatched
        <2> HIDE DEF done, r, s, h, n, last, pc
        <2>8. ASSUME ~s.touched, NEW m \in Names, m = n \/ Landed(s, m, live, data)
              PROVE  Landed(done, m, live', data')
            <3>1. CASE m = n BY <2>2, <2>4, <2>8, <3>1 DEF Landed
            <3>2. CASE m # n /\ Landed(s, m, live, data)
                <4>1. live'[m] = live[m] /\ live[m] \in Inodes /\ data[live[m]] = s.tmp
                    BY <1>2, <2>1, <3>2 DEF Landed, FilesTyped
                <4>2. data'[live[m]] = s.tmp
                    <5>1. CASE live[m] = live'[n] BY <2>2, <2>8, <5>1
                    <5>2. CASE live[m] # live'[n] BY <2>1, <4>1, <5>2
                    <5> QED BY <5>1, <5>2
                <4> QED BY <2>4, <3>2, <4>1, <4>2 DEF Landed
            <3> QED BY <2>8, <3>1, <3>2
        <2>9. ASSUME ~s.touched, NEW m \in Range(call[c].targets), m \notin Range(Tail(call[c].rest))
              PROVE  Landed(done, m, live', data')
            <3>1. m \in Names BY <2>5, <2>9 DEF Range
            <3>2. m = n \/ m \notin Range(call[c].rest) BY <2>6, <2>9
            <3>3. m \notin Range(call[c].rest) => Landed(s, m, live, data) BY <2>9, <2>13
            <3> QED BY <2>8, <2>9, <3>1, <3>2, <3>3
        <2>10. ASSUME last, ~s.touched, NEW m \in Range(call[c].targets) PROVE Landed(done, m, live', data')
            <3>1. m \in Names BY <2>5 DEF Range
            <3>2. m = n \/ m \notin Range(call[c].rest) BY <2>6, <2>10
            <3>3. m \notin Range(call[c].rest) => Landed(s, m, live, data) BY <2>10, <2>13
            <3> QED BY <2>8, <2>10, <3>1, <3>2, <3>3
        <2>11. Faithful(done, live', data')
            <3> SUFFICES ASSUME ~s.touched PROVE Faithful(done, live', data')
                BY <2>4 DEF Faithful
            <3>1. CASE s.pending # <<>>
                <4>1. ASSUME s.created, NEW m \in Range(s.pending), m \notin done.published PROVE live'[m] = None
                    <5>1. m # n /\ m \notin s.published BY <2>4, <3>1, <4>1
                    <5>2. live[m] = None BY <1>1, <3>1, <4>1, <5>1 DEF Faithful
                    <5> QED BY <2>1, <2>7, <5>1, <5>2
                <4>2. call[c].targets = s.pending BY <2>5, <3>1 DEF Aims
                <4>3. ASSUME last, NEW m \in Range(s.pending) PROVE Landed(done, m, live', data')
                    BY <2>10, <4>2, <4>3
                <4> QED BY <2>4, <3>1, <4>1, <4>3 DEF Faithful
            <3>2. CASE s.pending = <<>> /\ s.created
                <4>1. last /\ n = s.path BY <2>2, <2>5, <3>2 DEF Aims
                <4>2. Landed(done, n, live', data') BY <2>1, <2>8
                <4> QED BY <2>4, <3>2, <4>1, <4>2 DEF Faithful
            <3>3. CASE s.pending = <<>> /\ ~s.created
                <4>1. last /\ data'[s.pin] = s.tmp BY <2>2, <3>3
                <4> QED BY <2>4, <3>3, <4>1 DEF Faithful
            <3> QED BY <3>1, <3>2, <3>3
        <2>12. Progress(r, done, live', data')
            <3>1. r.pc = "verbs" => done.touched \/ \A m \in Range(r.targets) \ Range(r.rest) : Landed(done, m, live', data')
                BY <2>3, <2>4, <2>9
            <3>2. done.pending = <<>> /\ ~done.created => live'[r.targets[1]] = done.pin
                BY <2>2, <2>3, <2>4
            <3> QED BY <2>3, <2>13, <3>1, <3>2 DEF Progress
        <2>14. s.staged /\ s.dirty /\ h \in Handles /\ \A g \in Handles : Fine(session[g])
            <3>1. \A g \in Handles : Fine(session[g]) BY <1>1, BaseFacts
            <3> QED BY <1>1, <3>1 DEF Placed, h
        <2>15. Fine(done) BY <1>1, <2>1, <2>14, DoneFine DEF done, last
        <2>16. /\ ss \in [Handles -> SessionRecord] /\ ss[h] = done /\ (\A g \in Handles : Fine(ss[g]))
               /\ \A g \in Handles \ {h} : ss[g] = session[g]
            BY <1>2, <2>4, <2>14, <2>15
        <2> HIDE DEF ss
        <2>17. /\ session'[h] = done
               /\ \A g \in Handles : Spared(ss[g], session'[g])
               /\ \A g \in Handles : g # h /\ Sees(ss[g], live', data') => session'[g] = [ss[g] EXCEPT !.touched = TRUE]
            BY <2>1, <2>14, <2>16, MarkedSpares
        <2>18. ASSUME NEW g \in Handles \ {h} PROVE Witness(session[g], session'[g])
            <3>1. ss[g] = session[g] /\ session[g] \in SessionRecord BY <1>2, <2>16
            <3>2. Sees(session[g], live', data') => session'[g] = [session[g] EXCEPT !.touched = TRUE]
                BY <2>17, <2>18, <3>1
            <3>3. [session[g] EXCEPT !.touched = TRUE].touched BY <3>1 DEF SessionRecord
            <3> QED BY <2>17, <3>1, <3>2, <3>3 DEF Witness
        <2>19. \A d \in Callers \ {c} : call[d].pc # "idle" /\ call[d].h = h => call[d].pc \notin Aiming
            BY <1>1, <2>14, HeldElsewhere DEF h
        <2>20. \A d \in Callers \ {c} : Steady(call[d])
            <3> SUFFICES ASSUME NEW d \in Callers \ {c}, call[d].pc \in {"commit", "verbs"},
                                live[call[d].targets[1]] # None
                         PROVE  live'[call[d].targets[1]] = live[call[d].targets[1]]
                BY DEF Steady
            <3>1. call[d].targets[1] \in Names
                <4>1. Placed(d, call[d], session[call[d].h]) /\ call[d] \in CallRecord BY <1>1, BaseFacts
                <4>2. call[d].targets \in Seq(Names) /\ call[d].targets # <<>>
                    BY <4>1 DEF Placed, Sending, Aims, CallRecord
                <4> QED BY <4>2
            <3> QED BY <2>1, <3>1
        <2> QED BY <2>3, <2>11, <2>12, <2>14, <2>17, <2>18, <2>19, <2>20, StepLoyal
    <1> QED BY <1>3, <1>4

LEMMA InitLoyal == Init => Loyal
    <1> SUFFICES ASSUME Init PROVE Loyal
        OBVIOUS
    <1>1. Base BY InitBase
    <1>2. PICK kind \in Kinds :
            /\ session = [h \in Handles |-> IF h = FirstHandle THEN OpenedAs(kind) ELSE FreeSession]
            /\ live = [n \in Names |-> CASE kind = "linked" -> None
                                         [] kind = "moved" -> IF n = FirstName THEN 2 ELSE 1
                                         [] OTHER -> IF n = FirstName THEN 1 ELSE None]
            /\ data = [i \in Inodes |-> CASE kind = "linked" \/ i > 2 -> None
                                          [] i = 2 -> IF kind = "moved" THEN <<Foreign>> ELSE None
                                          [] OTHER -> Content]
        BY DEF Init
    <1>3. Faithful(FreeSession, live, data) BY DEF Faithful, FreeSession
    <1>4. Faithful(OpenedAs(kind), live, data)
        <2>1. CASE kind = "scratch" BY <2>1 DEF OpenedAs, FreeSession, Faithful
        <2>2. CASE kind = "linked"
            <3> DEFINE s == OpenedAs(kind)
            <3>1. s.pending = <<FirstName, OtherName>> /\ s.created /\ ~s.applied
                BY <2>2 DEF OpenedAs, FreeSession
            <3> HIDE DEF s
            <3>2. Range(s.pending) \subseteq Names BY <3>1, Named DEF Range
            <3>3. \A n \in Names : live[n] = None BY <1>2, <2>2
            <3>4. Faithful(s, live, data) BY <3>1, <3>2, <3>3 DEF Faithful
            <3> QED BY <3>4 DEF s
        <2>3. CASE kind = "create"
            <3> DEFINE s == OpenedAs(kind)
            <3>1. s.pending = <<>> /\ s.created /\ ~s.applied /\ s.path = OtherName
                BY <2>3 DEF OpenedAs, FreeSession
            <3> HIDE DEF s
            <3>2. live[OtherName] = None BY <1>2, <2>3, Named
            <3>3. Faithful(s, live, data) BY <3>1, <3>2 DEF Faithful
            <3> QED BY <3>3 DEF s
        <2>4. CASE kind = "moved" BY <2>4 DEF OpenedAs, FreeSession, Faithful
        <2>5. CASE kind \notin {"scratch", "linked", "create", "moved"}
            <3> DEFINE s == OpenedAs(kind)
            <3>1. s.pending = <<>> /\ ~s.created /\ ~s.applied /\ s.pin = 1 /\ s.base = Content
                BY <2>5 DEF OpenedAs, FreeSession
            <3> HIDE DEF s
            <3>2. data[1] = Content
                <4>1. 1 \in Inodes BY Limits DEF Inodes
                <4> QED BY <1>2, <2>5, <4>1
            <3>3. Faithful(s, live, data) BY <3>1, <3>2 DEF Faithful
            <3> QED BY <3>3 DEF s
        <2> QED BY <2>1, <2>2, <2>3, <2>4, <2>5
    <1>5. \A h \in Handles : Faithful(session[h], live, data) BY <1>2, <1>3, <1>4
    <1>6. \A c \in Callers : call[c].pc = "idle" BY DEF Init, Idle
    <1> QED BY <1>1, <1>5, <1>6 DEF Loyal

LEMMA NextLoyal ==
    ASSUME Windows = {}
    PROVE  Loyal /\ [Next]_vars => Loyal'
    <1> SUFFICES ASSUME Loyal, [Next]_vars PROVE Loyal'
        OBVIOUS
    <1>1. Base' BY NextBase DEF Loyal
    <1>2. ASSUME NEW c \in Callers, Step(c) PROVE Loyal'
        BY <1>1, <1>2, OpenLoyal, LookupLoyal, DataLoyal, CommitLoyal, VerbLoyal, RepinLoyal
        DEF Step, Request, Serve
    <1>3. CASE UNCHANGED vars \/ Tick
        <2>1. session' = session /\ live' = live /\ data' = data /\ call' = call BY <1>3 DEF vars, Tick, files
        <2> QED BY <1>1, <2>1 DEF Loyal
    <1> QED BY <1>1, <1>2, <1>3, RivalLoyal DEF Next

LEMMA LoyalLands == Loyal => CommitLands
    <1> SUFFICES ASSUME Loyal, NEW c \in Callers, call[c].pc = "drain", ~Mine(c).touched,
                        NEW n \in Range(call[c].targets)
                 PROVE  live[n] # None /\ data[live[n]] = View(Mine(c))
        BY DEF CommitLands
    <1> DEFINE s == Mine(c)
    <1>1. /\ Fine(s) /\ Placed(c, call[c], s) /\ Faithful(s, live, data) /\ Progress(call[c], s, live, data)
          /\ call[c].targets \in Seq(Names)
        BY LoyalHolding DEF Handled, CallRecord
    <1>2. s.staged /\ s.path # None /\ s.applied /\ Aims(s, call[c].targets) BY <1>1 DEF Placed, Sending
    <1> HIDE DEF s
    <1>3. View(s) = s.tmp BY <1>2 DEF View
    <1>4. s.pending = <<>> => n = call[c].targets[1]
        <2> SUFFICES ASSUME s.pending = <<>> PROVE n = call[c].targets[1]
            OBVIOUS
        <2>1. DOMAIN call[c].targets = 1..1 BY <1>1, <1>2 DEF Aims
        <2> QED BY <2>1 DEF Range
    <1>5. Landed(s, n, live, data)
        <2>1. CASE s.pending # <<>> BY <1>1, <1>2, <2>1 DEF Faithful, Aims, s
        <2>2. CASE s.pending = <<>> /\ s.created BY <1>1, <1>2, <1>4, <2>2 DEF Faithful, Aims, s
        <2>3. CASE s.pending = <<>> /\ ~s.created
            <3>1. live[n] = s.pin BY <1>1, <1>4, <2>3 DEF Progress, Aiming, s
            <3>2. s.pin # None BY <1>1, <1>2, <2>3 DEF Fine, Coherent
            <3> QED BY <1>1, <1>2, <2>3, <3>1, <3>2 DEF Faithful, Landed, s
        <2> QED BY <2>1, <2>2, <2>3
    <1> QED BY <1>3, <1>5 DEF Landed, s

-----------------------------------------------------------------------------
(* What a call does to others and answers.                                 *)

LEMMA OthersCalls ==
    ASSUME Base, NEW d \in Callers, Step(d), NEW c \in Callers \ {d}
    PROVE  call'[c] = call[c]
    <1>0. call \in [Callers -> CallRecord] BY BaseFacts
    <1>1. CASE \E h \in Handles : OpenAdmit(d, h) BY <1>0, <1>1 DEF OpenAdmit, Return
    <1>2. CASE OpenPin(d) \/ OpenInsert(d) BY <1>0, <1>2 DEF OpenPin, OpenInsert, Return, At
    <1>3. CASE AwaitHandle(d) BY <1>0, <1>3 DEF AwaitHandle, Enter, Return
    <1>4. CASE \E h \in Handles, op \in {"write", "truncate", "link", "relink", "sync", "close", "discard"} :
                 Lookup(d, h, op)
        BY <1>0, <1>4 DEF Lookup, Enter, Return
    <1>5. CASE Write(d) \/ Truncate(d) \/ Touch(d) \/ LinkSession(d) \/ RelinkSession(d)
        <2>1. Return(d, "ok") BY <1>5 DEF Write, Truncate, Touch, LinkSession, RelinkSession, LocalStep
        <2> QED BY <1>0, <2>1 DEF Return
    <1>6. CASE CommitNothing(d) \/ SyncUnlinked(d) \/ CommitResolve(d)
        BY <1>0, <1>6 DEF CommitNothing, SyncUnlinked, CommitResolve, Drop, Return, At
    <1>7. CASE CommitLock(d) \/ CommitFault(d) \/ Drain(d)
        BY <1>0, <1>7 DEF CommitLock, CommitFault, Drain, Fail, Drop, At
    <1>8. CASE VerbStep(d) BY <1>0, <1>8 DEF VerbStep, Fail
    <1>9. CASE Repin(d) BY <1>0, <1>9 DEF Repin, Return
    <1>10. CASE Reap(d) BY <1>0, <1>10 DEF Reap, Return, At
    <1> QED BY <1>1, <1>2, <1>3, <1>4, <1>5, <1>6, <1>7, <1>8, <1>9, <1>10 DEF Step, Request, Serve

\* A call's record changes by its own steps only.
LEMMA OwnSteps ==
    ASSUME Base, [Next]_vars, NEW c \in Callers, call'[c] # call[c]
    PROVE  Step(c)
    <1>1. CASE Rival \/ Tick \/ UNCHANGED vars BY <1>1 DEF Rival, Tick, vars
    <1>2. ASSUME NEW d \in Callers, Step(d) PROVE Step(c) BY <1>2, OthersCalls
    <1> QED BY <1>1, <1>2 DEF Next

LEMMA Publishing ==
    ASSUME Loyal, [Next]_vars, NEW c \in Callers, PublishesItself(c), ~Mine(c).created
    PROVE  LET i == Mine(c).pin
           IN  /\ i # None /\ data[i] \in Bytes /\ data'[i] = Image(Mine(c), data[i]) /\ EditsFit(Mine(c), data[i])
               /\ Fine(Mine(c)) /\ Mine(c).staged
               /\ \A j \in Inodes : j # i => data'[j] = data[j]
    <1>1. call[c].pc = "verbs" /\ call'[c].pc = "drain" /\ Mine(c).pending = <<>> BY DEF PublishesItself
    <1>2. Step(c) BY <1>1, OwnSteps DEF Loyal
    <1>3. VerbStep(c)
        <2>1. VerbStep(c) \/ CommitFault(c)
            BY <1>1, <1>2 DEF Step, Request, Serve, OpenAdmit, Lookup, OpenPin, OpenInsert, AwaitHandle, Write, Truncate,
                Touch, LinkSession, RelinkSession, CommitNothing, SyncUnlinked, CommitResolve, CommitLock, Drain, Repin,
                Reap, Committing, Holds
        <2>2. ~CommitFault(c)
            <3> SUFFICES ASSUME CommitFault(c) PROVE FALSE
                OBVIOUS
            <3>1. call \in [Callers -> CallRecord] BY BaseFacts DEF Loyal
            <3>2. call'[c].pc = "idle" BY <3>1 DEF CommitFault, Fail, Idle
            <3> QED BY <1>1, <3>2
        <2> QED BY <2>1, <2>2
    <1>4. Fine(Mine(c)) /\ Mine(c).staged BY <1>1, LoyalHolding DEF Handled, Placed
    <1>5. call'[c].pc # "idle" BY <1>1
    <1> QED BY <1>1, <1>3, <1>4, <1>5, VerbLands

LEMMA StrangersStep ==
    ASSUME Loyal, [Next]_vars, NEW c \in Callers, PublishesItself(c), ~Mine(c).created, NEW i \in Inodes,
           data'[i] # data[i]
    PROVE  i = Mine(c).pin
    BY Publishing

LEMMA UpdateStep ==
    ASSUME Loyal, [Next]_vars, NEW c \in Callers, PublishesItself(c), ~Mine(c).created, ~Mine(c).full
    PROVE  LET i == Mine(c).pin
               grown == Len(data'[i]) - Len(data[i])
           IN  \A k \in 1..Len(data[i]) : k - 1 \notin Mine(c).ranges \/ k > Len(Mine(c).base) =>
                 data[i][k] \in {data'[i][k], data'[i][k + grown]}
    <1> DEFINE i == Mine(c).pin
               s == Mine(c)
    <1>1. /\ data[i] \in Bytes /\ data'[i] = Image(s, data[i]) /\ EditsFit(s, data[i]) /\ Fine(s) /\ s.staged
        BY Publishing
    <1>2. \A k \in 1..Len(data[i]) : k - 1 \notin s.ranges \/ k > Len(s.base) =>
            \/ Image(s, data[i])[k] = data[i][k]
            \/ Image(s, data[i])[k + (Len(Image(s, data[i])) - Len(data[i]))] = data[i][k]
        BY <1>1, ImageBytes
    <1> HIDE DEF i, s
    <1>3. \A k \in 1..Len(data[i]) : k - 1 \notin s.ranges \/ k > Len(s.base) =>
            data[i][k] \in {data'[i][k], data'[i][k + (Len(data'[i]) - Len(data[i]))]}
        BY <1>1, <1>2
    <1> QED BY <1>3 DEF i, s

LEMMA ConflictStep ==
    ASSUME Loyal, [Next]_vars, NEW c \in Callers, call'[c] # call[c], call'[c].conflict # None
    PROVE  Mine(c).touched
    <1>0. Step(c) /\ call \in [Callers -> CallRecord] BY OwnSteps, BaseFacts DEF Loyal
    <1>1. call[c].pc # "idle" => call[c].conflict = None BY DEF Loyal, Progress
    <1>2. call[c].pc # "idle" => ~At(c, call'[c].pc) BY <1>0, <1>1 DEF At, CallRecord
    <1>3. \A ret : ~Return(c, ret) BY <1>0 DEF Return, Idle
    <1>4. CASE CommitLock(c)
        <2> DEFINE s == Mine(c)
        <2>1. /\ Placed(c, call[c], s) /\ Faithful(s, live, data) /\ call[c] \in CallRecord /\ call[c].pc = "commit"
            BY <1>4, LoyalHolding DEF CommitLock, Handled
        <2>2. Taken(s, call[c].targets) # {}
            <3> SUFFICES ASSUME Taken(s, call[c].targets) = {} PROVE FALSE
                OBVIOUS
            <3>1. call'[c].conflict = call[c].conflict BY <1>0, <1>4 DEF CommitLock, CallRecord
            <3> QED BY <1>1, <2>1, <3>1
        <2>3. PICK n \in Taken(s, call[c].targets) : TRUE BY <2>2
        <2> HIDE DEF s
        <2>4. /\ s.created /\ s.pending # <<>> /\ n \in Range(call[c].targets) /\ n \notin s.published
              /\ live[n] # None
            BY <2>2, <2>3 DEF Taken, Unpublished
        <2>5. call[c].targets = s.pending BY <2>1, <2>4 DEF Placed, Sending, Aims
        <2>6. s.touched BY <2>1, <2>4, <2>5 DEF Faithful
        <2> QED BY <2>6 DEF s
    <1>5. CASE VerbStep(c)
        <2> DEFINE s == Mine(c)
                   n == Head(call[c].rest)
                   last == Len(call[c].rest) = 1
        <2>1. /\ Placed(c, call[c], s) /\ Faithful(s, live, data) /\ call[c] \in CallRecord /\ call[c].pc = "verbs"
            BY <1>5, LoyalHolding DEF VerbStep, Handled
        <2>2. ~(call' = [call EXCEPT ![c].rest = Tail(@), ![c].pc = IF last THEN "drain" ELSE "verbs"])
            <3> SUFFICES ASSUME call' = [call EXCEPT ![c].rest = Tail(@), ![c].pc = IF last THEN "drain" ELSE "verbs"]
                         PROVE  FALSE
                OBVIOUS
            <3>1. call'[c].conflict = call[c].conflict BY <1>0 DEF CallRecord
            <3> QED BY <1>1, <2>1, <3>1
        <2>3. Fail(c, s, IF MakesFile(s, n) THEN live[n] ELSE None) BY <1>5, <2>2 DEF VerbStep
        <2>4. MakesFile(s, n) /\ live[n] # None
            <3>1. call'[c].conflict = IF MakesFile(s, n) THEN live[n] ELSE None BY <1>0, <2>3 DEF Fail, Idle
            <3> QED BY <3>1
        <2>5. /\ Aims(s, call[c].targets) /\ call[c].rest # <<>> /\ call[c].rest \in Seq(Names) /\ ~s.applied
              /\ Range(call[c].rest) \subseteq Range(call[c].targets)
              /\ (s.pending = <<>> => call[c].rest = call[c].targets)
            BY <2>1 DEF Placed, Sending, CallRecord
        <2>6. n = call[c].rest[1] /\ n \in Range(call[c].rest)
            <3>1. 1 \in DOMAIN call[c].rest /\ n = call[c].rest[1] BY <2>5
            <3> QED BY <3>1 DEF Range
        <2> HIDE DEF s, n
        <2>7. CASE s.pending # <<>>
            <3>1. n \in Range(s.pending) \ s.published /\ s.created BY <2>4, <2>5, <2>6, <2>7 DEF Aims, MakesFile
            <3>2. s.touched BY <2>1, <2>4, <2>7, <3>1 DEF Faithful
            <3> QED BY <3>2 DEF s
        <2>8. CASE s.pending = <<>>
            <3>1. n = s.path /\ s.created BY <2>4, <2>5, <2>6, <2>8 DEF Aims, MakesFile
            <3>2. s.touched BY <2>1, <2>4, <2>5, <2>8, <3>1 DEF Faithful
            <3> QED BY <3>2 DEF s
        <2> QED BY <2>7, <2>8
    <1>6. ~CommitFault(c)
        <2>1. ~Fail(c, Mine(c), None) BY <1>0 DEF Fail, Idle
        <2> QED BY <2>1 DEF CommitFault
    <1>7. ~CommitResolve(c)
        <2> SUFFICES ASSUME CommitResolve(c) PROVE FALSE
            OBVIOUS
        <2>1. call'[c].conflict = call[c].conflict /\ call[c].pc = "held"
            BY <1>0 DEF CommitResolve, Committing, CallRecord
        <2> QED BY <1>1, <2>1
    <1>8. \A h, op, now : ~Enter(c, h, now, op) BY <1>0, <1>3 DEF Enter, Idle
    <1>9. \A pc \in Points : ~(call[c].pc # "idle" /\ At(c, pc))
        <2> SUFFICES ASSUME NEW pc \in Points, call[c].pc # "idle", At(c, pc) PROVE FALSE
            OBVIOUS
        <2>1. call'[c].conflict = call[c].conflict BY <1>0 DEF At, CallRecord
        <2> QED BY <1>1, <2>1
    <1>10. \A h \in Handles : ~OpenAdmit(c, h) BY <1>0, <1>3 DEF OpenAdmit, Idle
    <1>11. ~OpenPin(c) /\ ~OpenInsert(c) BY <1>3, <1>9 DEF OpenPin, OpenInsert, Points
    <1>12. ~AwaitHandle(c) BY <1>8 DEF AwaitHandle
    <1>13. \A h, op : ~Lookup(c, h, op) BY <1>0, <1>8 DEF Lookup, Idle
    <1>14. ~(Write(c) \/ Truncate(c) \/ Touch(c) \/ LinkSession(c) \/ RelinkSession(c))
        BY <1>3 DEF Write, Truncate, Touch, LinkSession, RelinkSession, LocalStep
    <1>15. ~CommitNothing(c) /\ ~SyncUnlinked(c)
        BY <1>3, <1>9 DEF CommitNothing, SyncUnlinked, Drop, Committing, Holds, Points
    <1>16. ~Drain(c) BY <1>9 DEF Drain, Drop, Points
    <1>17. ~Repin(c) BY <1>3 DEF Repin
    <1>18. ~Reap(c) BY <1>3, <1>9 DEF Reap, Points
    <1> QED BY <1>0, <1>4, <1>5, <1>6, <1>7, <1>10, <1>11, <1>12, <1>13, <1>14, <1>15, <1>16, <1>17, <1>18
        DEF Step, Request, Serve

LEMMA DurableStep ==
    ASSUME Base, [Next]_vars, NEW c \in Callers, call[c].pc \in {"reap", "rewait"}, call'[c].pc = "idle"
    PROVE  call'[c].ret = "ok"
    <1>1. Step(c) BY OwnSteps
    <1>2. Reap(c)
        BY <1>1 DEF Step, Request, Serve, OpenAdmit, Lookup, OpenPin, OpenInsert, AwaitHandle, Write, Truncate,
            Touch, LinkSession, RelinkSession, CommitNothing, SyncUnlinked, CommitResolve, CommitLock, CommitFault,
            Drain, Repin, VerbStep, Committing, Holds
    <1>3. call \in [Callers -> CallRecord] BY BaseFacts
    <1>4. ~At(c, "rewait") BY <1>3 DEF At, CallRecord
    <1>5. session[call[c].h].state \in {"live", "gone"} BY BaseFacts DEF Placed
    <1>6. Return(c, "ok") BY <1>2, <1>4, <1>5 DEF Reap, ReapAnswer
    <1> QED BY <1>3, <1>6 DEF Return, Idle

\* Loyal is inductive.
LEMMA AlwaysLoyal ==
    ASSUME Windows = {}
    PROVE  Spec => []Loyal
    BY InitLoyal, NextLoyal, PTL DEF Spec

(* While no window is open, whichever lane a commit takes and however      *)
(* often its verbs or its drain failed and were tried again, the commit    *)
(* leaves the bytes the handle shows its owner under every target, and a   *)
(* fan-out that was interrupted is carried on (commitLinkedSessionLocked,  *)
(* commitSessionLocked).                                                   *)
THEOREM CommitAlwaysLands ==
    ASSUME Windows = {}
    PROVE  Spec => []CommitLands
    BY AlwaysLoyal, LoyalLands, PTL

(* While no window is open, a commit changes the pinned file alone, keeps  *)
(* what others wrote in it, is refused for a name only when another writer *)
(* has been there, and a durable close answers so (resolveCommitPathLocked,*)
(* buildRewrittenChunks, destroySession).                                  *)
THEOREM CallsAlwaysFaithful ==
    ASSUME Windows = {}
    PROVE  Spec => CallsFaithful
    <1>1. ASSUME Loyal, [Next]_vars
          PROVE  [\A c \in Callers : PublishesItself(c) /\ ~Mine(c).created =>
                    \A i \in Inodes : data'[i] # data[i] => i = Mine(c).pin]_vars
        BY <1>1, StrangersStep
    <1>2. ASSUME Loyal, [Next]_vars
          PROVE  [\A c \in Callers : PublishesItself(c) /\ ~Mine(c).created /\ ~Mine(c).full =>
                    LET i == Mine(c).pin
                        grown == Len(data'[i]) - Len(data[i])
                    IN  \A k \in 1..Len(data[i]) : k - 1 \notin Mine(c).ranges \/ k > Len(Mine(c).base) =>
                          data[i][k] \in {data'[i][k], data'[i][k + grown]}]_vars
        BY <1>2, UpdateStep
    <1>3. ASSUME Loyal, [Next]_vars
          PROVE  [\A c \in Callers : call'[c] # call[c] /\ call'[c].conflict # None =>
                    Mine(c).touched]_vars
        BY <1>3, ConflictStep
    <1>4. ASSUME Loyal, [Next]_vars
          PROVE  [\A c \in Callers : call[c].pc \in {"reap", "rewait"} /\ call'[c].pc = "idle" => call'[c].ret = "ok"]_vars
        BY <1>4, DurableStep DEF Loyal
    <1>5. Spec => [][Next]_vars BY PTL DEF Spec
    <1>6. Spec => StrangersSafe BY <1>1, <1>5, AlwaysLoyal, PTL DEF StrangersSafe
    <1>7. Spec => NoLostUpdate BY <1>2, <1>5, AlwaysLoyal, PTL DEF NoLostUpdate
    <1>8. Spec => NoSelfConflict BY <1>3, <1>5, AlwaysLoyal, PTL DEF NoSelfConflict
    <1>9. Spec => DurableCloseOk BY <1>4, <1>5, AlwaysLoyal, PTL DEF DurableCloseOk
    <1> QED BY <1>6, <1>7, <1>8, <1>9 DEF CallsFaithful
=============================================================================
