-------------------------- MODULE FuseData_proofs --------------------------
(***************************************************************************)
(* Proofs about the bytes of FuseWrite: what readers see, what is stored   *)
(* and what a mount recovers, for any handles, bytes, names, chunk and     *)
(* page sizes and bounds.  FuseWrite_proofs says which file a commit       *)
(* writes (PathInv); here is what it writes.                               *)
(*                                                                         *)
(* DataInv is inductive on top of PathInv while the windows of the data    *)
(* are shut: the current overlay holds what was written, over bytes that   *)
(* are there (Covered), a commit sends what makes the file that (Pending), *)
(* somebody will commit what is left or was told (Cared), and a            *)
(* quarantined overlay rebuilds what it held (Recovered).  What a plan     *)
(* makes of the stored bytes is CommitExact.                               *)
(*                                                                         *)
(* CalmInv is inductive on top of both: where nothing failed, the file is  *)
(* as long as the overlay takes it to be.                                  *)
(***************************************************************************)
EXTENDS FuseWrite_proofs

-----------------------------------------------------------------------------
(* The data of the file: the invariant.                                    *)

DataFields == {"path", "deleted", "poisoned", "closed", "refs", "made", "base", "size", "dirty", "temp",
               "auth", "hasSnap", "snap", "pending", "held", "half"}
HandleFields == {"pc", "path", "slot", "cpath", "verb", "cpend", "why", "failed", "full", "stamp"}
Stages == {"closed", "making", "trunc", "open", "check", "verb", "trim", "finish", "unlock", "failed",
           "saving", "drop", "locks", "ref"}
Image(n) == [1..n -> Int]

\* The clean bytes, which are read from elsewhere.
Clean(w) == Span(0, w.size) \ w.dirty
Agrees(w, file, bytes) == \A b \in Clean(w) : b < Len(file) /\ At(file, b) = At(bytes, b)
Sized(w) == w.base \in Nat /\ w.size \in Nat /\ w.dirty \subseteq Span(0, w.size)
\* The overlay holds what was written.
Sound(w, bytes) ==
    /\ w.temp \in Image(w.size) /\ bytes \in Image(w.size)
    /\ \A b \in w.dirty : At(w.temp, b) = At(bytes, b)
    /\ w.auth => w.temp = bytes
    /\ Span(w.base, w.size) \subseteq w.dirty
    /\ w.hasSnap => w.snap \in Seq(Int) /\ Agrees(w, w.snap, bytes)
Odd(w) == w.size # w.base /\ (w.size < w.base \/ \E d \in w.dirty : d < w.base)
FitsIn(w, file) == Len(file) <= w.base \/ w.half
Mends(w) == w.dirty # {} /\ ~ShouldChunkRewrite(w) /\ ~ShouldReplace(w)
Near(w) == \A r \in Ranges(w.dirty) : \A p \in Pages(r) : p <= w.base
Tidy(w) == ~Torn(w) /\ (Mends(w) => ~w.hasSnap /\ Near(w))

File == stored["file"]
Cur == states[current]
Past == \E h \in Handles : handle[h].pc \in {"trim", "finish"}
\* The name that the directory operation takes from the file.
Lost(p) == dir.pc # "idle" /\ p = dir.dst /\ (dir.pc = "states" => dir.src = dir.dst)
Budget == [data : Nat, open : Nat, dir : Nat, fault : Nat, down : Nat, rival : Nat, locks : Nat, calm : BOOLEAN]

Typed ==
    /\ \A s \in Slots : DataFields \subseteq DOMAIN states[s] /\ Sized(states[s])
    /\ File \in Seq(Int) /\ app.bytes \in Seq(Int) /\ app = [bytes |-> app.bytes, mode |-> app.mode]
    /\ left \in Budget

\* What a data call keeps of an overlay: it holds what was written, over bytes that are there.
Good(w, file, bytes) ==
    /\ DataFields \subseteq DOMAIN w /\ Sized(w) /\ Sound(w, bytes) /\ Agrees(w, file, bytes)
    /\ w.half => Odd(w)
\* What the applications have is in the overlay, over the bytes of the file or of a snapshot of them.
Cover(w, file, a, m, past) ==
    /\ Good(w, file, a.bytes) /\ (~past => FitsIn(w, file))
    /\ a.mode = IF w.pending = 0 THEN m ELSE w.pending
Based(w, lost, hub, past) ==
    /\ w.path = "" => w.hasSnap \/ Clean(w) = {}
    /\ lost => w.hasSnap \/ (Clean(w) = {} /\ ~hub /\ (past => w.size = 0))
Covered ==
    current # 0 /\ Cur.made =>
        Cover(Cur, File, app, mode["file"], Past) /\ Based(Cur, Lost(Cur.path), dir.pc = "hub", Past)

\* A state still being made: it holds nothing yet.
Fresh(w, file, reached, lost) ==
    /\ reached # "stranger" /\ w.dirty = {} /\ w.size = w.base /\ w.pending = 0 /\ ~w.auth /\ ~w.half
    /\ w.temp \in Seq(Int) /\ (w.hasSnap => w.snap = file) /\ (lost => w.hasSnap)
Unmade == current # 0 /\ ~Cur.made => Fresh(Cur, File, Reached(Cur.path), Lost(Cur.path))

Grounded == Filed # {} /\ (current = 0 \/ ~Cur.made) => app = Landed

Resp == {"making", "trunc", "open", "check", "verb", "trim", "finish", "failed", "saving"}
Cares(x, s) == x.slot = s /\ (x.pc \in Resp \/ (x.pc = "unlock" /\ x.failed))
Cared == current # 0 /\ Cur.made /\ Uncommitted(Cur) /\ Filed # {} => \E h \in Handles : Cares(handle[h], current)

\* Without a name there is no file.
Nameless ==
    /\ current # 0 /\ (Cur.path = "" \/ Cur.deleted) => Filed = {}
    /\ dir.pc = "states" /\ dir.rest = "" => Filed = {}

Staged ==
    /\ current # 0 => ~Cur.poisoned
    /\ current # 0 /\ Cur.closed => \E h \in Handles : handle[h].pc = "saving"

\* A handle, with the names of the file, the current slot and whether its state is made.
Place(x, filed, slot, made) ==
    /\ HandleFields \subseteq DOMAIN x /\ x.pc \in Stages
    /\ x.slot # 0 /\ x.path = "" => filed = {}
    /\ x.slot # 0 /\ x.slot = slot /\ x.pc # "making" => made
    /\ x.pc \in {"making", "saving"} => x.slot = slot
    /\ x.pc \in {"failed", "saving"} => x.failed
Placed == \A h \in Handles : Place(handle[h], Filed, current, Cur.made)

Exact(v, file, w, bytes) ==
    IF v.trim THEN Resize(file, v.size) = bytes /\ Agrees(w, file, bytes) ELSE file = bytes
Sendable(v, w) ==
    /\ v.size = w.size
    /\ v.trim => v.kind = "patch" /\ Odd(w)
    /\ v.kind = "patch" => ~w.hasSnap
    /\ v.kind \in {"truncate", "none"} => w.dirty = {} /\ w.size <= w.base
\* A commit, with the current state, the file and what it should become.
Bound(x, w, file, bytes) ==
    /\ x.pc = "check" => Tidy(w)
    /\ x.pc \in {"verb", "trim", "finish"} => w.path = x.cpath /\ x.cpend = w.pending /\ Sendable(x.verb, w)
    /\ x.pc = "verb" /\ Accepted(file, x.verb) =>
          Applied(file, x.verb) \in Seq(Int) /\ Exact(x.verb, Applied(file, x.verb), w, bytes)
    /\ x.pc = "trim" => x.verb.trim /\ Exact(x.verb, file, w, bytes)
    /\ x.pc = "finish" => file = bytes
Pending == \A h \in Handles : Bound(handle[h], Cur, File, app.bytes)

Rebuilds(e) ==
    /\ e.image \in Seq(Int) /\ e.size \in Nat
    /\ LET over == e.over
           drawn == [i \in 1..Len(over) |-> IF i - 1 \in e.dirty THEN At(e.image, i - 1) ELSE over[i]]
       IN  e.target # "" /\ e.stamp # -1 =>
            /\ e.full => e.image = e.want
            /\ ~e.full /\ e.dirty # {} /\ e.size = e.base /\ (\A b \in e.dirty : b < Len(over)) => drawn = e.want
            /\ ~e.full /\ e.dirty = {} /\ e.size # e.base => Resize(over, e.size) = e.want
Recovered == \A e \in recovery : Rebuilds(e)

\* The name that is taken away, while it is.
Removing ==
    /\ dir.pc \in {"hub", "handles"} /\ dir.kind = "unlink" => dir.src = dir.dst
    /\ dir.pc = "handles" /\ dir.kind = "rename" /\ dir.src \in tracked => dir.dst \notin tracked
    /\ dir.pc = "states" =>
          dir.src \in Names \ tracked /\ (dir.rest = "" \/ dir.kind = "unlink" => dir.src = dir.dst)

DataInv ==
    /\ Typed /\ Covered /\ Unmade /\ Grounded /\ Cared /\ Nameless /\ Staged /\ Placed /\ Pending
    /\ Recovered /\ Removing

-----------------------------------------------------------------------------
(* Bytes.                                                                  *)

LEMMA Images ==
    /\ \A n \in Nat : \A f \in Image(n) : f \in Seq(Int) /\ Len(f) = n
    /\ \A f \in Seq(Int) : Len(f) \in Nat /\ f \in Image(Len(f))
    <1>1. ASSUME NEW n \in Nat, NEW f \in Image(n) PROVE f \in Seq(Int) /\ Len(f) = n
        BY <1>1, IsASeq, LenProperties DEF Image
    <1>2. ASSUME NEW f \in Seq(Int) PROVE Len(f) \in Nat /\ f \in Image(Len(f))
        BY <1>2, LenProperties, ElementOfSeq DEF Image
    <1> QED BY <1>1, <1>2

LEMMA Reading ==
    ASSUME NEW file \in Seq(Int), NEW i \in Nat
    PROVE  /\ At(file, i) \in Int
           /\ i < Len(file) => At(file, i) = file[i + 1]
           /\ i >= Len(file) => At(file, i) = 0
    <1>1. Len(file) \in Nat /\ file \in [1..Len(file) -> Int] BY Images DEF Image
    <1>2. i < Len(file) => i + 1 \in 1..Len(file) BY <1>1
    <1> QED BY <1>1, <1>2 DEF At

LEMMA SameBytes ==
    ASSUME NEW n \in Nat, NEW f \in Image(n), NEW g \in Image(n), \A i \in Span(0, n) : At(f, i) = At(g, i)
    PROVE  f = g
    <1>1. f \in Seq(Int) /\ g \in Seq(Int) /\ Len(f) = n /\ Len(g) = n BY Images
    <1>2. ASSUME NEW i \in 1..n PROVE f[i] = g[i]
        <2>1. i - 1 \in Nat /\ i - 1 < n /\ i - 1 \in Span(0, n) /\ (i - 1) + 1 = i BY DEF Span
        <2>2. At(f, i - 1) = f[i] /\ At(g, i - 1) = g[i] BY <1>1, <2>1, Reading
        <2> QED BY <2>1, <2>2
    <1> QED BY <1>2 DEF Image

\* What a function of the offsets holds.
LEMMA Drawn ==
    ASSUME NEW n \in Nat, NEW G, \A i \in Span(0, n) : G[i] \in Int, NEW f, f = [i \in 1..n |-> G[i - 1]]
    PROVE  f \in Image(n) /\ \A i \in Span(0, n) : At(f, i) = G[i]
    <1>1. \A i \in 1..n : i - 1 \in Span(0, n) BY DEF Span
    <1>2. f \in Image(n) BY <1>1 DEF Image
    <1>3. Len(f) = n /\ f \in Seq(Int) BY <1>2, Images
    <1>4. ASSUME NEW i \in Span(0, n) PROVE At(f, i) = G[i]
        <2>1. i \in Nat /\ i < n /\ i + 1 \in 1..n /\ (i + 1) - 1 = i BY DEF Span
        <2>2. f[i + 1] = G[i] BY <2>1
        <2> QED BY <1>3, <2>1, <2>2, Reading
    <1> QED BY <1>2, <1>4

LEMMA Resizes ==
    ASSUME NEW file \in Seq(Int), NEW n \in Nat
    PROVE  Resize(file, n) \in Image(n) /\ \A i \in Span(0, n) : At(Resize(file, n), i) = At(file, i)
    <1> DEFINE G == [i \in Span(0, n) |-> At(file, i)]
    <1>1. \A i \in Span(0, n) : i \in Nat /\ G[i] \in Int /\ G[i] = At(file, i)
        BY Reading DEF Span
    <1>2. \A i \in 1..n : i - 1 \in Span(0, n) BY DEF Span
    <1>3. Resize(file, n) = [i \in 1..n |-> G[i - 1]] BY <1>1, <1>2 DEF Resize
    <1> HIDE DEF G
    <1> DEFINE f == Resize(file, n)
    <1> HIDE DEF f
    <1>4. f = [i \in 1..n |-> G[i - 1]] BY <1>3 DEF f
    <1>5. \A i \in Span(0, n) : G[i] \in Int BY <1>1
    <1>6. f \in Image(n) /\ \A i \in Span(0, n) : At(f, i) = G[i] BY <1>4, <1>5, Drawn
    <1> QED BY <1>1, <1>6 DEF f

LEMMA WritesAt ==
    ASSUME NEW file \in Seq(Int), NEW off \in Nat, NEW data \in Seq(Int)
    PROVE  LET n == Larger(Len(file), off + Len(data))
           IN  /\ n \in Nat /\ WriteAt(file, off, data) \in Image(n)
               /\ \A i \in Span(0, n) : At(WriteAt(file, off, data), i) =
                     IF i \in Span(off, off + Len(data)) THEN At(data, i - off) ELSE At(file, i)
    <1> DEFINE n == Larger(Len(file), off + Len(data))
               G == [i \in Span(0, n) |-> IF i \in Span(off, off + Len(data)) THEN At(data, i - off) ELSE At(file, i)]
    <1>0. Len(file) \in Nat /\ Len(data) \in Nat BY Images
    <1>1. n \in Nat BY <1>0 DEF Larger
    <1>2. \A i \in Span(off, off + Len(data)) : i - off \in Nat /\ i - off < Len(data) BY <1>0 DEF Span
    <1>3. \A i \in Span(0, n) : i \in Nat /\ G[i] \in Int BY <1>1, <1>2, Reading DEF Span
    <1>4. ASSUME NEW i \in 1..n
          PROVE  (IF i > off /\ i <= off + Len(data) THEN data[i - off] ELSE At(file, i - 1)) = G[i - 1]
        <2>1. i - 1 \in Span(0, n) BY <1>1 DEF Span
        <2>2. i - 1 \in Span(off, off + Len(data)) <=> i > off /\ i <= off + Len(data) BY <1>0, <1>1 DEF Span
        <2>3. CASE i > off /\ i <= off + Len(data)
            <3>1. G[i - 1] = At(data, (i - 1) - off) BY <2>1, <2>2, <2>3
            <3>2. (i - 1) - off \in Nat /\ (i - 1) - off < Len(data) /\ ((i - 1) - off) + 1 = i - off
                BY <1>0, <1>1, <2>3
            <3>3. At(data, (i - 1) - off) = data[i - off] BY <3>2, Reading
            <3> QED BY <2>3, <3>1, <3>3
        <2>4. CASE ~(i > off /\ i <= off + Len(data)) BY <2>1, <2>2, <2>4
        <2> HIDE DEF G
        <2> QED BY <2>3, <2>4
    <1>5. WriteAt(file, off, data) = [i \in 1..n |-> G[i - 1]]
        <2> HIDE DEF G
        <2> QED BY <1>4 DEF WriteAt
    <1>6. \A i \in Span(0, n) :
             G[i] = IF i \in Span(off, off + Len(data)) THEN At(data, i - off) ELSE At(file, i)
        OBVIOUS
    <1> HIDE DEF G, n
    <1> DEFINE f == WriteAt(file, off, data)
    <1> HIDE DEF f
    <1>7. f = [i \in 1..n |-> G[i - 1]] BY <1>5 DEF f
    <1>8. \A i \in Span(0, n) : G[i] \in Int BY <1>3
    <1>9. f \in Image(n) /\ \A i \in Span(0, n) : At(f, i) = G[i] BY <1>1, <1>7, <1>8, Drawn
    <1> QED BY <1>1, <1>6, <1>9 DEF n, f

-----------------------------------------------------------------------------
(* What a data call does to an overlay.                                    *)

Still == {"path", "deleted", "poisoned", "closed", "refs", "made", "base", "held", "half"}
\* The overlay after a call, with the bytes the applications then have: nothing else became clean.
Turned(w, bytes, w2, bytes2) ==
    /\ DataFields \subseteq DOMAIN w2 /\ Sized(w2) /\ \A x \in Still : w2[x] = w[x]
    /\ w2.temp \in Image(w2.size) /\ bytes2 \in Image(w2.size)
    /\ \A b \in w2.dirty : At(w2.temp, b) = At(bytes2, b)
    /\ w2.auth => w2.temp = bytes2
    /\ \A b \in Clean(w2) : b \in Clean(w) /\ At(bytes2, b) = At(bytes, b)
    /\ w2.hasSnap => w.hasSnap /\ w2.snap = w.snap
    /\ w2.hasSnap # w.hasSnap => w2.size = 0

LEMMA Turning ==
    ASSUME NEW w, NEW file, NEW bytes, Good(w, file, bytes), NEW w2, NEW bytes2, Turned(w, bytes, w2, bytes2),
           ~(w2.half /\ w2.size = w2.base)
    PROVE  Good(w2, file, bytes2)
    <1>1. w2.base = w.base /\ w2.half = w.half BY DEF Turned, Still
    <1>2. w.base \in Nat /\ w.size \in Nat /\ w2.size \in Nat BY DEF Good, Turned, Sized
    <1>3. Agrees(w2, file, bytes2)
        <2>1. \A b \in Clean(w2) : b < Len(file) /\ At(file, b) = At(bytes2, b)
            BY DEF Good, Turned, Agrees
        <2> QED BY <2>1 DEF Agrees
    <1>4. w2.hasSnap => w2.snap \in Seq(Int) /\ Agrees(w2, w2.snap, bytes2)
        <2> SUFFICES ASSUME w2.hasSnap PROVE w2.snap \in Seq(Int) /\ Agrees(w2, w2.snap, bytes2) OBVIOUS
        <2>1. w2.snap = w.snap /\ w.snap \in Seq(Int) /\ Agrees(w, w.snap, bytes) BY DEF Good, Turned, Sound
        <2>2. \A b \in Clean(w2) : b < Len(w2.snap) /\ At(w2.snap, b) = At(bytes2, b)
            BY <2>1 DEF Turned, Agrees
        <2> QED BY <2>1, <2>2 DEF Agrees
    <1>5. Span(w2.base, w2.size) \subseteq w2.dirty
        <2> SUFFICES ASSUME NEW b \in Span(w2.base, w2.size), b \notin w2.dirty PROVE FALSE OBVIOUS
        <2>1. b \in Nat /\ b >= w.base /\ b < w2.size BY <1>1, <1>2 DEF Span
        <2>2. b \in Clean(w2) BY <1>2, <2>1 DEF Clean, Span
        <2>3. b \in Clean(w) BY <2>2 DEF Turned
        <2>4. b \in Span(w.base, w.size) /\ b \notin w.dirty BY <1>2, <2>1, <2>3 DEF Clean, Span
        <2> QED BY <2>4 DEF Good, Sound
    <1>6. w2.half => Odd(w2)
        <2> SUFFICES ASSUME w2.half PROVE w2.size < w2.base \/ \E d \in w2.dirty : d < w2.base
            BY DEF Odd
        <2>1. \E b \in Nat : b < w.base /\ b \notin Clean(w)
            <3>1. w.size < w.base \/ \E d \in w.dirty : d < w.base BY <1>1 DEF Good, Odd
            <3>2. w.size \notin Clean(w) BY <1>2 DEF Clean, Span
            <3>3. \A d \in w.dirty : d \in Nat /\ d \notin Clean(w) BY <1>2 DEF Good, Sized, Clean, Span
            <3> QED BY <1>2, <3>1, <3>2, <3>3
        <2>2. PICK b \in Nat : b < w.base /\ b \notin Clean(w) BY <2>1
        <2>3. b \notin Clean(w2) BY <2>2 DEF Turned
        <2>4. b >= w2.size \/ b \in w2.dirty BY <1>2, <2>3 DEF Clean, Span
        <2> QED BY <1>1, <1>2, <2>2, <2>4
    <1>7. Sound(w2, bytes2) BY <1>4, <1>5 DEF Turned, Sound
    <1> QED BY <1>3, <1>6, <1>7 DEF Good, Turned

LEMMA Cutting ==
    ASSUME NEW w, DataFields \subseteq DOMAIN w, NEW n
    PROVE  LET v == WithSize(w, n)
           IN  /\ DataFields \subseteq DOMAIN v
               /\ v.size = n /\ v.temp = Resize(w.temp, n) /\ v.dirty = {b \in w.dirty : b < n}
               /\ \A x \in DataFields \ {"size", "temp", "dirty"} : v[x] = w[x]
    BY DEF WithSize, DataFields

\* Bytes that are cut, or extended by zeros that are dirty.
LEMMA Recut ==
    ASSUME NEW w, NEW file, NEW bytes, Good(w, file, bytes), NEW n \in Nat,
           NEW w2, DataFields \subseteq DOMAIN w2, w2.size = n, w2.temp = Resize(w.temp, n),
           w2.dirty = {b \in w.dirty : b < n} \cup Span(w.size, n),
           \A x \in DataFields \ {"size", "temp", "dirty"} : w2[x] = w[x]
    PROVE  Turned(w, bytes, w2, Resize(bytes, n))
    <1>1. w.temp \in Seq(Int) /\ Len(w.temp) = w.size /\ bytes \in Seq(Int) /\ Len(bytes) = w.size
          /\ w.size \in Nat /\ w.dirty \subseteq Span(0, w.size)
        BY Images DEF Good, Sound, Sized
    <1>2. /\ w2.temp \in Image(n) /\ Resize(bytes, n) \in Image(n)
          /\ \A b \in Span(0, n) : At(w2.temp, b) = At(w.temp, b) /\ At(Resize(bytes, n), b) = At(bytes, b)
        BY <1>1, Resizes
    <1>3. w2.dirty \subseteq Span(0, n) BY <1>1 DEF Span
    <1>4. Sized(w2)
        <2>1. w2.base = w.base BY DEF DataFields
        <2> QED BY <1>3, <2>1 DEF Sized, Good
    <1>5. ASSUME NEW b \in w2.dirty PROVE At(w2.temp, b) = At(Resize(bytes, n), b)
        <2>1. b \in Span(0, n) BY <1>3
        <2>2. CASE b \in w.dirty BY <1>2, <2>1, <2>2 DEF Good, Sound
        <2>3. CASE b \in Span(w.size, n)
            <3>1. b \in Nat /\ b >= w.size BY <1>1, <2>3 DEF Span
            <3>2. At(w.temp, b) = 0 /\ At(bytes, b) = 0 BY <1>1, <3>1, Reading
            <3> QED BY <1>2, <2>1, <3>2
        <2> QED BY <2>2, <2>3
    <1>6. w2.auth => w2.temp = Resize(bytes, n)
        <2>1. w2.auth = w.auth BY DEF DataFields
        <2> QED BY <2>1 DEF Good, Sound
    <1>7. ASSUME NEW b \in Clean(w2) PROVE b \in Clean(w) /\ At(Resize(bytes, n), b) = At(bytes, b)
        <2>1. b \in Span(0, n) /\ b \notin w2.dirty BY DEF Clean
        <2>2. b \in Nat /\ b < n BY <2>1 DEF Span
        <2>3. b < w.size BY <1>1, <2>1, <2>2 DEF Span
        <2>4. b \notin w.dirty BY <2>1, <2>2
        <2> QED BY <1>1, <1>2, <2>1, <2>2, <2>3, <2>4 DEF Clean, Span
    <1>8. w2.hasSnap = w.hasSnap /\ w2.snap = w.snap /\ \A x \in Still : w2[x] = w[x] BY DEF DataFields, Still
    <1> QED BY <1>2, <1>4, <1>5, <1>6, <1>7, <1>8 DEF Turned

LEMMA Truncated ==
    ASSUME NEW w, NEW file, NEW bytes, Good(w, file, bytes), NEW n \in Nat, ~Regrows(w, n) \/ n = 0
    PROVE  /\ Turned(w, bytes, Resized(w, n), Resize(bytes, n)) /\ Resized(w, n).pending = w.pending
           /\ n # 0 => Resized(w, n).hasSnap = w.hasSnap
    <1> DEFINE v == WithSize(w, n)
    <1>1. DataFields \subseteq DOMAIN w /\ w.size \in Nat BY DEF Good, Sized
    <1>2. /\ DataFields \subseteq DOMAIN v
          /\ v.size = n /\ v.temp = Resize(w.temp, n) /\ v.dirty = {b \in w.dirty : b < n}
          /\ \A x \in DataFields \ {"size", "temp", "dirty"} : v[x] = w[x]
        BY <1>1, Cutting
    <1> HIDE DEF v
    <1>3. CASE n = 0
        <2>1. Resized(w, n) = [v EXCEPT !.auth = TRUE, !.hasSnap = FALSE, !.snap = <<>>]
            BY <1>3 DEF Resized, v
        <2> DEFINE r == Resized(w, n)
        <2>2. /\ DataFields \subseteq DOMAIN r /\ r.size = 0 /\ r.temp = Resize(w.temp, 0) /\ r.dirty = v.dirty
              /\ r.auth = TRUE /\ r.hasSnap = FALSE
              /\ \A x \in Still \cup {"pending"} : r[x] = w[x]
            BY <1>2, <1>3, <2>1 DEF DataFields, Still
        <2> HIDE DEF r
        <2>3. r.dirty = {}
            <3>1. w.dirty \subseteq Nat BY <1>1 DEF Good, Sized, Span
            <3> QED BY <1>2, <1>3, <2>2, <3>1
        <2>4. w.temp \in Seq(Int) /\ bytes \in Seq(Int) BY <1>1, Images DEF Good, Sound
        <2>5. r.temp \in Image(0) /\ Resize(bytes, 0) \in Image(0) BY <2>2, <2>4, Resizes
        <2>6. r.temp = Resize(bytes, 0)
            <3>1. Span(0, 0) = {} BY DEF Span
            <3>2. 0 \in Nat OBVIOUS
            <3> QED BY <2>5, <3>1, <3>2, SameBytes
        <2>7. Sized(r)
            <3>1. r.base = w.base BY <2>2 DEF Still
            <3> QED BY <2>2, <2>3, <3>1 DEF Sized, Good
        <2>8. Clean(r) = {} BY <2>2 DEF Clean, Span
        <2>9. Turned(w, bytes, r, Resize(bytes, 0))
            BY <2>2, <2>3, <2>5, <2>6, <2>7, <2>8 DEF Turned
        <2> QED BY <1>3, <2>2, <2>9 DEF r
    <1>4. CASE n # 0 /\ n > w.size
        <2>1. Resized(w, n) = [v EXCEPT !.dirty = @ \cup Span(w.size, n)]
            BY <1>4 DEF Resized, Regrows, v
        <2> DEFINE r == Resized(w, n)
        <2>2. /\ DataFields \subseteq DOMAIN r /\ r.size = n /\ r.temp = Resize(w.temp, n)
              /\ r.dirty = {b \in w.dirty : b < n} \cup Span(w.size, n)
              /\ \A x \in DataFields \ {"size", "temp", "dirty"} : r[x] = w[x]
            BY <1>2, <2>1 DEF DataFields
        <2>3. r.pending = w.pending /\ r.hasSnap = w.hasSnap BY <2>2 DEF DataFields
        <2> HIDE DEF r
        <2>4. Turned(w, bytes, r, Resize(bytes, n)) BY <2>2, Recut
        <2> QED BY <2>3, <2>4 DEF r
    <1>5. CASE n # 0 /\ ~(n > w.size)
        <2>1. Resized(w, n) = v BY <1>5 DEF Resized, v
        <2>2. Span(w.size, n) = {} BY <1>1, <1>5 DEF Span
        <2>3. v.dirty = {b \in w.dirty : b < n} \cup Span(w.size, n) BY <1>2, <2>2
        <2>4. v.pending = w.pending /\ v.hasSnap = w.hasSnap BY <1>2 DEF DataFields
        <2>5. Turned(w, bytes, v, Resize(bytes, n)) BY <1>2, <2>3, Recut
        <2> QED BY <2>1, <2>4, <2>5
    <1> QED BY <1>3, <1>4, <1>5

LEMMA Extended ==
    ASSUME NEW w, NEW file, NEW bytes, Good(w, file, bytes), NEW n \in Nat, n > w.size
    PROVE  /\ Turned(w, bytes, Allocated(w, n), Resize(bytes, n)) /\ Allocated(w, n).pending = w.pending
           /\ Allocated(w, n).hasSnap = w.hasSnap
    <1>1. DataFields \subseteq DOMAIN w /\ w.size \in Nat /\ w.dirty \subseteq Span(0, w.size) BY DEF Good, Sized
    <1>2. Allocated(w, n) = [w EXCEPT !.size = n, !.temp = Resize(@, n), !.dirty = @ \cup Span(w.size, n)]
        BY <1>1 DEF Allocated
    <1> DEFINE r == Allocated(w, n)
    <1>3. w.dirty = {b \in w.dirty : b < n} BY <1>1 DEF Span
    <1>4. /\ DataFields \subseteq DOMAIN r /\ r.size = n /\ r.temp = Resize(w.temp, n)
          /\ r.dirty = w.dirty \cup Span(w.size, n)
          /\ \A x \in DataFields \ {"size", "temp", "dirty"} : r[x] = w[x]
        BY <1>1, <1>2 DEF DataFields
    <1>5. r.pending = w.pending /\ r.hasSnap = w.hasSnap BY <1>4 DEF DataFields
    <1> HIDE DEF r
    <1>6. Turned(w, bytes, r, Resize(bytes, n)) BY <1>3, <1>4, Recut
    <1> QED BY <1>5, <1>6 DEF r

\* The base of the clean bytes is what it should be.
Backed(w, file, bytes) == Agrees(w, BaseOf(w, file), bytes)

\* The part of Good that a call has before its end.
Filled(w, bytes) ==
    /\ DataFields \subseteq DOMAIN w /\ Sized(w) /\ bytes \in Image(w.size) /\ w.temp \in Image(w.size)
    /\ \A b \in w.dirty : At(w.temp, b) = At(bytes, b)
    /\ Span(w.base, w.size) \subseteq w.dirty

LEMMA Viewed ==
    ASSUME NEW w, NEW file, NEW bytes, Filled(w, bytes), Backed(w, file, bytes)
    PROVE  View(w, file) = bytes /\ Readable(w, file)
    <1>1. w.size \in Nat /\ w.base \in Nat /\ w.dirty \subseteq Span(0, w.size) BY DEF Filled, Sized
    <1>2. bytes \in Seq(Int) /\ Len(bytes) = w.size BY <1>1, Images DEF Filled
    <1>3. ASSUME NEW i \in 1..w.size
          PROVE  (IF i - 1 \in w.dirty THEN At(w.temp, i - 1)
                  ELSE IF i - 1 < w.base THEN At(BaseOf(w, file), i - 1) ELSE 0) = bytes[i]
        <2>1. i - 1 \in Nat /\ i - 1 < w.size /\ (i - 1) + 1 = i BY <1>1
        <2>2. At(bytes, i - 1) = bytes[i] BY <1>2, <2>1, Reading
        <2>3. CASE i - 1 \in w.dirty BY <2>2, <2>3 DEF Filled
        <2>4. CASE i - 1 \notin w.dirty
            <3>1. i - 1 \in Clean(w) BY <1>1, <2>1, <2>4 DEF Clean, Span
            <3>2. i - 1 < w.base
                <4> SUFFICES ASSUME i - 1 >= w.base PROVE FALSE BY <1>1, <2>1
                <4>1. i - 1 \in Span(w.base, w.size) BY <1>1, <2>1 DEF Span
                <4> QED BY <2>4, <4>1 DEF Filled
            <3>3. At(BaseOf(w, file), i - 1) = At(bytes, i - 1) BY <3>1 DEF Backed, Agrees
            <3> QED BY <2>2, <2>4, <3>2, <3>3
        <2> QED BY <2>3, <2>4
    <1>4. View(w, file) = [i \in 1..w.size |-> bytes[i]] BY <1>3 DEF View
    <1>5. View(w, file) = bytes BY <1>4 DEF Filled, Image
    <1>6. Readable(w, file)
        <2>1. ASSUME NEW b \in Span(0, Smaller(w.base, w.size)) \ w.dirty PROVE b < Len(BaseOf(w, file))
            <3>1. b \in Clean(w) BY <1>1 DEF Clean, Span, Smaller
            <3> QED BY <3>1 DEF Backed, Agrees
        <2> QED BY <2>1 DEF Readable
    <1> QED BY <1>5, <1>6

LEMMA WritesIn ==
    ASSUME NEW file \in Seq(Int), NEW off \in Nat, NEW data \in Seq(Int),
           NEW n \in Nat, n = Larger(Len(file), off + Len(data)), NEW end, end = off + Len(data)
    PROVE  /\ WriteAt(file, off, data) \in Image(n)
           /\ \A b \in Span(0, n) : At(WriteAt(file, off, data), b) =
                 IF b \in Span(off, end) THEN At(data, b - off) ELSE At(file, b)
    <1>1. /\ WriteAt(file, off, data) \in Image(Larger(Len(file), off + Len(data)))
          /\ \A i \in Span(0, Larger(Len(file), off + Len(data))) : At(WriteAt(file, off, data), i) =
                IF i \in Span(off, off + Len(data)) THEN At(data, i - off) ELSE At(file, i)
        BY WritesAt
    <1> QED BY <1>1

Blank(temp, from, to) == \A b \in Span(from, to) : At(temp, b) = 0
Grows(g, end, v) ==
    /\ DataFields \subseteq DOMAIN g /\ g.size \in Nat /\ g.temp \in Image(g.size)
    /\ g.dirty \subseteq Span(0, g.size) /\ end \in Nat /\ g.size <= end /\ v = WithSize(g, end)
LEMMA Grown ==
    ASSUME NEW g, NEW end, NEW v, Grows(g, end, v)
    PROVE  /\ DataFields \subseteq DOMAIN v /\ v.size = end /\ v.dirty = g.dirty
           /\ v.temp \in Image(end) /\ \A b \in Span(0, g.size) : At(v.temp, b) = At(g.temp, b)
           /\ Blank(v.temp, g.size, end)
           /\ \A x \in DataFields \ {"size", "temp", "dirty"} : v[x] = g[x]
    <1> USE DEF Grows
    <1>1. /\ DataFields \subseteq DOMAIN v
          /\ v.size = end /\ v.temp = Resize(g.temp, end) /\ v.dirty = {b \in g.dirty : b < end}
          /\ \A x \in DataFields \ {"size", "temp", "dirty"} : v[x] = g[x]
        BY Cutting
    <1>2. {b \in g.dirty : b < end} = g.dirty BY DEF Span
    <1>3. g.temp \in Seq(Int) /\ Len(g.temp) = g.size BY Images
    <1>4. /\ Resize(g.temp, end) \in Image(end)
          /\ \A b \in Span(0, end) : At(Resize(g.temp, end), b) = At(g.temp, b)
        BY <1>3, Resizes
    <1>5. Span(0, g.size) \subseteq Span(0, end) /\ Span(g.size, end) \subseteq Span(0, end) BY DEF Span
    <1>6. \A b \in Span(g.size, end) : At(g.temp, b) = 0
        <2>1. \A b \in Span(g.size, end) : b \in Nat /\ b >= g.size BY DEF Span
        <2> QED BY <1>3, <2>1, Reading
    <1> QED BY <1>1, <1>2, <1>4, <1>5, <1>6 DEF Blank

\* The bytes of a write, after the gap before them.
Lays(w, file, bytes, off, data, end, m, n, temp, put, bytes2) ==
    /\ Good(w, file, bytes) /\ off \in Nat /\ data \in Seq(Int) /\ end \in Nat /\ end = off + Len(data)
    /\ m \in Nat /\ n \in Nat /\ m = Larger(w.size, off) /\ n = Larger(w.size, end)
    /\ temp \in Image(n) /\ (\A b \in Span(0, m) : At(temp, b) = At(w.temp, b))
    /\ Blank(temp, m, n)
    /\ DataFields \subseteq DOMAIN put /\ put.size = n /\ put.temp = WriteAt(temp, off, data)
    /\ put.dirty = (w.dirty \cup Span(w.size, m)) \cup Span(off, end)
    /\ \A x \in DataFields \ {"size", "temp", "dirty"} : put[x] = w[x]
    /\ bytes2 = WriteAt(bytes, off, data)
LEMMA Laid ==
    ASSUME NEW w, NEW file, NEW bytes, NEW off, NEW data, NEW end, NEW m, NEW n, NEW temp, NEW put, NEW bytes2,
           Lays(w, file, bytes, off, data, end, m, n, temp, put, bytes2)
    PROVE  /\ Turned(w, bytes, put, bytes2) /\ put.pending = w.pending
           /\ Filled(put, bytes2) /\ put.hasSnap = w.hasSnap
    <1>0. /\ Good(w, file, bytes) /\ off \in Nat /\ data \in Seq(Int) /\ end \in Nat /\ end = off + Len(data)
          /\ m \in Nat /\ n \in Nat /\ m = Larger(w.size, off) /\ n = Larger(w.size, end)
          /\ temp \in Image(n) /\ (\A b \in Span(0, m) : At(temp, b) = At(w.temp, b))
          /\ Blank(temp, m, n)
          /\ DataFields \subseteq DOMAIN put /\ put.size = n /\ put.temp = WriteAt(temp, off, data)
          /\ put.dirty = (w.dirty \cup Span(w.size, m)) \cup Span(off, end)
          /\ \A x \in DataFields \ {"size", "temp", "dirty"} : put[x] = w[x]
          /\ bytes2 = WriteAt(bytes, off, data)
        BY DEF Lays
    <1> USE <1>0
    <1>1. /\ DataFields \subseteq DOMAIN w /\ w.size \in Nat /\ w.base \in Nat /\ w.dirty \subseteq Span(0, w.size)
          /\ w.temp \in Seq(Int) /\ Len(w.temp) = w.size /\ bytes \in Seq(Int) /\ Len(bytes) = w.size
          /\ w.temp \in Image(w.size)
        BY Images DEF Good, Sound, Sized
    <1>2. m <= n /\ w.size <= m /\ off <= m /\ end <= n /\ w.size <= n /\ n = Larger(n, end) /\ off <= end
          /\ (n = w.size \/ n = end)
        <2>1. Len(data) \in Nat /\ w.size \in Nat BY <1>0, <1>1, Images
        <2> QED BY <1>0, <2>1 DEF Larger
    <1>5. temp \in Seq(Int) /\ Len(temp) = n BY <1>2, Images
    <1>6. /\ put.temp \in Image(n)
          /\ \A b \in Span(0, n) : At(put.temp, b) = IF b \in Span(off, end) THEN At(data, b - off) ELSE At(temp, b)
        BY <1>2, <1>5, WritesIn
    <1>7. /\ bytes2 \in Image(n)
          /\ \A b \in Span(0, n) : At(bytes2, b) = IF b \in Span(off, end) THEN At(data, b - off) ELSE At(bytes, b)
        BY <1>1, <1>2, WritesIn
    <1>9. put.dirty \subseteq Span(0, n)
        <2>1. Span(w.size, m) \subseteq Span(0, n) BY <1>1, <1>2 DEF Span
        <2>2. Span(off, end) \subseteq Span(0, n) BY <1>1, <1>2 DEF Span
        <2>3. Span(0, w.size) \subseteq Span(0, n) BY <1>1, <1>2 DEF Span
        <2> QED BY <1>1, <2>1, <2>2, <2>3
    <1>10. Sized(put)
        <2>1. put.base = w.base BY DEF DataFields
        <2> QED BY <1>1, <1>2, <1>9, <2>1 DEF Sized
    <1>11. ASSUME NEW b \in Span(0, n), At(w.temp, b) = At(bytes, b) PROVE At(put.temp, b) = At(bytes2, b)
        <2>1. CASE b \in Span(off, end) BY <1>6, <1>7, <2>1
        <2>2. CASE b \notin Span(off, end) /\ b \in Span(0, m) BY <1>6, <1>7, <1>11, <2>2
        <2>3. CASE b \notin Span(off, end) /\ b \in Span(m, n)
            <3>1. b \in Nat /\ b >= w.size BY <1>1, <1>2, <2>3 DEF Span
            <3>2. At(bytes, b) = 0 BY <1>1, <3>1, Reading
            <3> QED BY <1>6, <1>7, <2>3, <3>2 DEF Blank
        <2>4. b \in Span(0, m) \/ b \in Span(m, n) BY <1>2 DEF Span
        <2> QED BY <2>1, <2>2, <2>3, <2>4
    <1>12. ASSUME NEW b \in put.dirty PROVE At(put.temp, b) = At(bytes2, b)
        <2>1. b \in Span(0, n) BY <1>9
        <2>2. CASE b \in Span(off, end) BY <1>6, <1>7, <2>1, <2>2
        <2>3. CASE b \in w.dirty
            <3>1. At(w.temp, b) = At(bytes, b) BY <2>3 DEF Good, Sound
            <3> QED BY <1>11, <2>1, <3>1
        <2>4. CASE b \in Span(w.size, m)
            <3>1. b \in Nat /\ b >= w.size BY <1>1, <1>2, <2>4 DEF Span
            <3>2. At(w.temp, b) = 0 /\ At(bytes, b) = 0 BY <1>1, <3>1, Reading
            <3> QED BY <1>11, <2>1, <3>2
        <2> QED BY <2>2, <2>3, <2>4
    <1>13. put.auth => put.temp = bytes2
        <2> SUFFICES ASSUME put.auth PROVE put.temp = bytes2 OBVIOUS
        <2>1. w.temp = bytes
            <3>1. put.auth = w.auth BY DEF DataFields
            <3> QED BY <3>1 DEF Good, Sound
        <2>2. \A b \in Span(0, n) : At(put.temp, b) = At(bytes2, b) BY <1>11, <2>1
        <2> QED BY <1>2, <1>6, <1>7, <2>2, SameBytes
    <1>14. ASSUME NEW b \in Clean(put) PROVE b \in Clean(w) /\ At(bytes2, b) = At(bytes, b)
        <2>1. b \in Span(0, n) /\ b \notin put.dirty BY DEF Clean
        <2>2. b \in Nat /\ b < n /\ b \notin Span(off, end) /\ b \notin Span(w.size, m) /\ b \notin w.dirty
            BY <1>2, <2>1 DEF Span
        <2>3. b < w.size
            <3> SUFFICES ASSUME b >= w.size PROVE FALSE BY <1>1, <2>2
            <3>1. b >= m BY <1>1, <1>2, <2>2 DEF Span
            <3>2. n = w.size \/ n = end BY <1>2
            <3> QED BY <1>1, <1>2, <2>2, <3>1, <3>2 DEF Span
        <2>4. b \in Clean(w) BY <1>1, <2>2, <2>3 DEF Clean, Span
        <2> QED BY <1>7, <2>1, <2>2, <2>4
    <1>15. /\ put.hasSnap = w.hasSnap /\ put.snap = w.snap /\ put.pending = w.pending
           /\ \A x \in Still : put[x] = w[x]
        BY DEF DataFields, Still
    <1>16. Turned(w, bytes, put, bytes2)
        BY <1>6, <1>7, <1>10, <1>12, <1>13, <1>14, <1>15 DEF Turned
    <1>17. Span(put.base, put.size) \subseteq put.dirty
        <2> SUFFICES ASSUME NEW b \in Span(put.base, put.size), b \notin put.dirty PROVE FALSE OBVIOUS
        <2>1. put.base = w.base BY <1>15 DEF Still
        <2>2. b \in Nat /\ b >= w.base /\ b < put.size BY <1>1, <1>2, <2>1 DEF Span
        <2>3. b \in Clean(put) BY <1>2, <2>2 DEF Clean, Span
        <2>4. b \in Clean(w) BY <1>14, <2>3
        <2>5. b \in Span(w.base, w.size) /\ b \notin w.dirty BY <1>1, <2>2, <2>4 DEF Clean, Span
        <2> QED BY <2>5 DEF Good, Sound
    <1>18. Filled(put, bytes2) BY <1>6, <1>7, <1>10, <1>12, <1>17 DEF Filled
    <1> QED BY <1>15, <1>16, <1>18

\* The gap and the data of a write, before the ranges are bounded.
Gapped(w, off) == IF off > w.size THEN [WithSize(w, off) EXCEPT !.dirty = @ \cup Span(w.size, off)] ELSE w
Reaching(w, off, end) == IF end > w.size THEN WithSize(Gapped(w, off), end) ELSE Gapped(w, off)
Putting(w, off, data) ==
    [Reaching(w, off, off + Len(data)) EXCEPT !.temp = WriteAt(@, off, data),
                                              !.dirty = @ \cup Span(off, off + Len(data))]
LEMMA Put ==
    ASSUME NEW w, NEW file, NEW bytes, Good(w, file, bytes), NEW off \in Nat, NEW data \in Seq(Int)
    PROVE  LET put == Putting(w, off, data)
           IN  /\ Turned(w, bytes, put, WriteAt(bytes, off, data)) /\ put.pending = w.pending
               /\ Filled(put, WriteAt(bytes, off, data)) /\ put.hasSnap = w.hasSnap
    <1> DEFINE end == off + Len(data)
               m == Larger(w.size, off)
               n == Larger(w.size, end)
               gap == Gapped(w, off)
               grown == Reaching(w, off, end)
               put == Putting(w, off, data)
               Same == DataFields \ {"size", "temp", "dirty"}
    <1>1. /\ DataFields \subseteq DOMAIN w /\ w.size \in Nat /\ w.base \in Nat /\ w.dirty \subseteq Span(0, w.size)
          /\ w.temp \in Seq(Int) /\ Len(w.temp) = w.size /\ bytes \in Seq(Int) /\ Len(bytes) = w.size
          /\ w.temp \in Image(w.size)
        BY Images DEF Good, Sound, Sized
    <1>2. Len(data) \in Nat /\ end \in Nat /\ m \in Nat /\ n \in Nat /\ m <= n /\ w.size <= m /\ off <= m
          /\ end <= n /\ w.size <= n /\ n = Larger(n, end)
        BY <1>1, Images DEF Larger
    <1>a. gap = IF off > w.size THEN [WithSize(w, off) EXCEPT !.dirty = @ \cup Span(w.size, off)] ELSE w
        BY DEF Gapped
    <1>b. grown = IF end > w.size THEN WithSize(gap, end) ELSE gap BY DEF Reaching
    <1>c. put = [grown EXCEPT !.temp = WriteAt(@, off, data), !.dirty = @ \cup Span(off, end)] BY DEF Putting
    <1> HIDE DEF gap, grown, put
    <1>3. /\ DataFields \subseteq DOMAIN gap /\ gap.size = m /\ gap.dirty = w.dirty \cup Span(w.size, m)
          /\ gap.temp \in Image(m) /\ \A b \in Span(0, m) : At(gap.temp, b) = At(w.temp, b)
          /\ \A x \in Same : gap[x] = w[x]
        <2>1. CASE off > w.size
            <3> DEFINE v == WithSize(w, off)
            <3>1. /\ DataFields \subseteq DOMAIN v
                  /\ v.size = off /\ v.temp = Resize(w.temp, off) /\ v.dirty = {b \in w.dirty : b < off}
                  /\ \A x \in Same : v[x] = w[x]
                BY <1>1, Cutting
            <3>2. m = off BY <1>1, <2>1 DEF Larger
            <3>3. {b \in w.dirty : b < off} = w.dirty BY <1>1, <2>1 DEF Span
            <3>4. gap = [v EXCEPT !.dirty = @ \cup Span(w.size, off)] BY <1>a, <2>1
            <3> HIDE DEF v
            <3>5. /\ DataFields \subseteq DOMAIN gap /\ gap.size = off /\ gap.temp = Resize(w.temp, off)
                  /\ gap.dirty = w.dirty \cup Span(w.size, off) /\ \A x \in Same : gap[x] = w[x]
                BY <3>1, <3>3, <3>4 DEF DataFields
            <3>6. Resize(w.temp, off) \in Image(off)
                  /\ \A b \in Span(0, off) : At(Resize(w.temp, off), b) = At(w.temp, b)
                BY <1>1, Resizes
            <3> QED BY <3>2, <3>5, <3>6
        <2>2. CASE ~(off > w.size)
            <3>1. gap = w /\ m = w.size BY <1>a, <1>1, <2>2 DEF Larger
            <3>2. Span(w.size, m) = {} BY <1>1, <3>1 DEF Span
            <3> QED BY <1>1, <3>1, <3>2
        <2> QED BY <2>1, <2>2
    <1>4. /\ DataFields \subseteq DOMAIN grown /\ grown.size = n /\ grown.dirty = w.dirty \cup Span(w.size, m)
          /\ grown.temp \in Image(n) /\ \A b \in Span(0, m) : At(grown.temp, b) = At(w.temp, b)
          /\ Blank(grown.temp, m, n)
          /\ \A x \in Same : grown[x] = w[x]
        <2>1. CASE end > w.size
            <3>1. n = end /\ m <= end BY <1>1, <1>2, <2>1 DEF Larger
            <3>2. grown = WithSize(gap, end) BY <1>b, <2>1
            <3>3. gap.dirty \subseteq Span(0, m) BY <1>1, <1>2, <1>3 DEF Span
            <3> HIDE DEF m, n, end
            <3>4. /\ DataFields \subseteq DOMAIN gap /\ gap.size \in Nat /\ gap.temp \in Image(gap.size)
                  /\ gap.dirty \subseteq Span(0, gap.size) /\ gap.size <= end
                BY <1>2, <1>3, <3>1, <3>3
            <3>5. /\ DataFields \subseteq DOMAIN grown /\ grown.size = end /\ grown.dirty = gap.dirty
                  /\ grown.temp \in Image(end) /\ \A b \in Span(0, gap.size) : At(grown.temp, b) = At(gap.temp, b)
                  /\ Blank(grown.temp, gap.size, end)
                  /\ \A x \in DataFields \ {"size", "temp", "dirty"} : grown[x] = gap[x]
                <4>1. Grows(gap, end, grown) BY <1>2, <3>2, <3>4 DEF Grows
                <4> QED BY <4>1, Grown
            <3> QED BY <1>3, <3>1, <3>5
        <2>2. CASE ~(end > w.size)
            <3>1. grown = gap /\ n = w.size /\ m = w.size BY <1>b, <1>1, <1>2, <2>2 DEF Larger
            <3>2. Span(m, n) = {} BY <1>1, <3>1 DEF Span
            <3> QED BY <1>3, <3>1, <3>2 DEF Blank
        <2> QED BY <2>1, <2>2
    <1>8. /\ DataFields \subseteq DOMAIN put /\ put.size = n
          /\ put.temp = WriteAt(grown.temp, off, data)
          /\ put.dirty = (w.dirty \cup Span(w.size, m)) \cup Span(off, end)
          /\ \A x \in Same : put[x] = w[x]
        BY <1>c, <1>4 DEF DataFields
    <1>9. end = off + Len(data) /\ m = Larger(w.size, off) /\ n = Larger(w.size, end) OBVIOUS
    <1> HIDE DEF m, n, end
    <1>10. \A x \in DataFields \ {"size", "temp", "dirty"} : put[x] = w[x] BY <1>8
    <1> HIDE DEF Same
    <1>11. Lays(w, file, bytes, off, data, end, m, n, grown.temp, put, WriteAt(bytes, off, data))
        BY <1>2, <1>4, <1>8, <1>9, <1>10 DEF Lays
    <1>12. /\ Turned(w, bytes, put, WriteAt(bytes, off, data)) /\ put.pending = w.pending
           /\ Filled(put, WriteAt(bytes, off, data)) /\ put.hasSnap = w.hasSnap
        BY <1>11, Laid
    <1> QED BY <1>12 DEF put

LEMMA Wrote ==
    ASSUME NEW w, NEW file, NEW bytes, Good(w, file, bytes), NEW from, Backed(w, from, bytes),
           NEW off \in Nat, NEW data \in Seq(Int)
    PROVE  LET w2 == Written(w, from, off, data)
           IN  /\ Turned(w, bytes, w2, WriteAt(bytes, off, data)) /\ w2.pending = w.pending
               /\ w2.hasSnap = w.hasSnap
    <1> DEFINE put == Putting(w, off, data)
               bytes2 == WriteAt(bytes, off, data)
               w2 == Written(w, from, off, data)
    <1>1. w2 = Coalesced(put, from) BY DEF Written, Putting, Reaching, Gapped
    <1> HIDE DEF w2
    <1>2. /\ Turned(w, bytes, put, bytes2) /\ put.pending = w.pending
          /\ Filled(put, bytes2) /\ put.hasSnap = w.hasSnap
        BY Put
    <1> HIDE DEF put, bytes2
    <1>3. CASE w2 = put BY <1>2, <1>3 DEF bytes2, w2
    <1>4. CASE w2 # put
        <2>1. w2 = [put EXCEPT !.dirty = Span(0, put.size), !.auth = TRUE,
                               !.temp = IF put.auth THEN @ ELSE View(put, from)]
            BY <1>1, <1>4 DEF Coalesced
        <2>2. Backed(put, from, bytes2)
            <3>1. BaseOf(put, from) = BaseOf(w, from) BY <1>2 DEF Turned, BaseOf
            <3>2. \A b \in Clean(put) : b < Len(BaseOf(w, from)) /\ At(BaseOf(w, from), b) = At(bytes2, b)
                BY <1>2 DEF Turned, Backed, Agrees
            <3> QED BY <3>1, <3>2 DEF Backed, Agrees
        <2>3. View(put, from) = bytes2 BY <1>2, <2>2, Viewed
        <2>4. put.auth => put.temp = bytes2 BY <1>2 DEF Turned
        <2>5. /\ DataFields \subseteq DOMAIN w2 /\ w2.temp = bytes2 /\ w2.dirty = Span(0, put.size)
              /\ w2.auth = TRUE /\ \A x \in DataFields \ {"temp", "dirty", "auth"} : w2[x] = put[x]
            BY <1>2, <2>1, <2>3, <2>4 DEF Filled, DataFields
        <2>6. /\ w2.size = put.size /\ w2.base = put.base /\ w2.hasSnap = put.hasSnap /\ w2.snap = put.snap
              /\ w2.pending = put.pending /\ \A x \in Still : w2[x] = put[x]
            BY <2>5 DEF DataFields, Still
        <2>7. Clean(w2) = {} BY <2>5, <2>6 DEF Clean
        <2>8. bytes2 \in Image(put.size) /\ Sized(put) BY <1>2 DEF Filled
        <2>9. Sized(w2) BY <2>5, <2>6, <2>8 DEF Sized
        <2>10. Turned(w, bytes, w2, bytes2)
            BY <1>2, <2>5, <2>6, <2>7, <2>8, <2>9 DEF Turned
        <2> QED BY <1>2, <2>6, <2>10 DEF bytes2, w2
    <1> QED BY <1>3, <1>4

-----------------------------------------------------------------------------
(* Division, runs of dirty bytes, and what an edit does.                   *)

LEMMA Divided ==
    ASSUME NEW d \in Nat \ {0}, NEW x \in Int
    PROVE  /\ x \div d \in Int /\ x % d \in Nat /\ x % d < d /\ x = d * (x \div d) + (x % d)
           /\ (x - (x % d)) % d = 0 /\ (x >= 0 => x % d <= x)
    <1>1. x \div d \in Int BY Z3
    <1>2. x % d \in Nat /\ x % d < d OBVIOUS
    <1>a. x % d = x - d * (x \div d) OBVIOUS
    <1>3. x = d * (x \div d) + (x % d)
        <2> DEFINE y == d * (x \div d)
                   z == x % d
        <2>1. y \in Int /\ z \in Int /\ z = x - y BY <1>1, <1>2, <1>a
        <2> HIDE DEF y, z
        <2>2. x = y + z BY <2>1
        <2> QED BY <2>2 DEF y, z
    <1>4. (d * (x \div d)) % d = 0 OBVIOUS
    <1>5. x - (x % d) = d * (x \div d) BY <1>1, <1>2, <1>3
    <1>6. (x - (x % d)) % d = 0 BY <1>4, <1>5
    <1>7. x >= 0 => x % d <= x
        <2> DEFINE q == x \div d
        <2>1. q \in Int /\ x = d * q + (x % d) BY <1>1, <1>3
        <2> HIDE DEF q
        <2> SUFFICES ASSUME x >= 0, x < x % d PROVE FALSE BY <1>2
        <2>2. d * q < 0 BY <1>2, <2>1
        <2>3. q <= -1 BY <2>1, <2>2
        <2>4. d * q <= -d BY <2>1, <2>3
        <2> QED BY <1>2, <2>1, <2>4
    <1> QED BY <1>1, <1>2, <1>3, <1>6, <1>7

LEMMA Multiples ==
    ASSUME NEW d \in Nat \ {0}, NEW x \in Int, NEW y \in Int, x % d = 0, y % d = 0, x < y
    PROVE  x + d <= y
    <1> SUFFICES ASSUME y - x < d, x - y < d PROVE x = y OBVIOUS
    <1> QED OBVIOUS

\* A chunk lies on one side of a multiple of its size.
LEMMA SameChunk ==
    ASSUME NEW d \in Nat \ {0}, NEW x \in Int, NEW y \in Int, x \div d = y \div d, NEW m \in Int, m % d = 0
    PROVE  m <= x <=> m <= y
    <1>1. x - (x % d) = y - (y % d) OBVIOUS
    <1> DEFINE f == x - (x % d)
    <1>2. f \in Int /\ f % d = 0 /\ f <= x /\ x < f + d /\ f <= y /\ y < f + d
        <2> DEFINE u == x % d
                   v == y % d
        <2>1. u \in Nat /\ u < d /\ (x - u) % d = 0 /\ v \in Nat /\ v < d BY Divided
        <2>2. f = x - u /\ f = y - v BY <1>1
        <2> HIDE DEF u, v, f
        <2> QED BY <2>1, <2>2
    <1> HIDE DEF f
    <1>3. f < m => f + d <= m BY <1>2, Multiples
    <1> QED BY <1>2, <1>3

LEMMA Run ==
    ASSUME NEW D, NEW r \in Ranges(D), D \subseteq Int
    PROVE  /\ r[1] \in D /\ r[2] \in Int /\ r[1] < r[2] /\ r = <<r[1], r[2]>>
           /\ Span(r[1], r[2]) \subseteq D /\ r[1] - 1 \notin D /\ r[2] \notin D
    BY DEF Ranges

LEMMA OneRun ==
    ASSUME NEW D, D \subseteq Int, NEW q \in Ranges(D), NEW r \in Ranges(D),
           NEW b \in Int, b \in Span(q[1], q[2]), b \in Span(r[1], r[2])
    PROVE  q = r
    <1>1. /\ q[1] \in Int /\ q[2] \in Int /\ q = <<q[1], q[2]>> /\ Span(q[1], q[2]) \subseteq D
          /\ q[1] - 1 \notin D /\ q[2] \notin D
        BY Run
    <1>2. /\ r[1] \in Int /\ r[2] \in Int /\ r = <<r[1], r[2]>> /\ Span(r[1], r[2]) \subseteq D
          /\ r[1] - 1 \notin D /\ r[2] \notin D
        BY Run
    <1>3. q[1] <= b /\ b < q[2] /\ r[1] <= b /\ b < r[2] BY <1>1, <1>2 DEF Span
    <1>4. q[1] < r[1] => r[1] - 1 \in Span(q[1], q[2]) BY <1>1, <1>2, <1>3 DEF Span
    <1>5. r[1] < q[1] => q[1] - 1 \in Span(r[1], r[2]) BY <1>1, <1>2, <1>3 DEF Span
    <1>6. q[2] < r[2] => q[2] \in Span(r[1], r[2]) BY <1>1, <1>2, <1>3 DEF Span
    <1>7. r[2] < q[2] => r[2] \in Span(q[1], q[2]) BY <1>1, <1>2, <1>3 DEF Span
    <1>8. q[1] = r[1] /\ q[2] = r[2] BY <1>1, <1>2, <1>4, <1>5, <1>6, <1>7
    <1> QED BY <1>1, <1>2, <1>8

LEMMA InARun ==
    ASSUME NEW n \in Nat, NEW D, D \subseteq Span(0, n), NEW b \in D
    PROVE  \E r \in Ranges(D) : b \in Span(r[1], r[2])
    <1>0. b \in Nat /\ b < n /\ D \subseteq Nat BY DEF Span
    <1> DEFINE From == {s \in Nat : s <= b /\ Span(s, b + 1) \subseteq D}
               Past_ == {e \in Nat : e > b /\ e \notin D}
    <1>1. b \in From BY <1>0 DEF Span
    <1>2. n \in Past_ BY <1>0 DEF Span
    <1>3. PICK s \in From : \A t \in From : s <= t
        <2>1. From \subseteq Nat /\ From # {} BY <1>1
        <2> HIDE DEF From
        <2> QED BY <2>1, Least
    <1>4. PICK e \in Past_ : \A t \in Past_ : e <= t
        <2>1. Past_ \subseteq Nat /\ Past_ # {} BY <1>2
        <2> HIDE DEF Past_
        <2> QED BY <2>1, Least
    <1>5. Span(s, e) \subseteq D
        <2> SUFFICES ASSUME NEW c \in Span(s, e) PROVE c \in D OBVIOUS
        <2>1. c \in Nat /\ s <= c /\ c < e BY <1>3, <1>4 DEF Span
        <2>2. CASE c <= b BY <1>0, <1>3, <2>1, <2>2 DEF Span
        <2>3. CASE c > b BY <1>4, <2>1, <2>3
        <2> QED BY <1>0, <2>1, <2>2, <2>3
    <1>6. s - 1 \notin D
        <2> SUFFICES ASSUME s - 1 \in D PROVE FALSE OBVIOUS
        <2>1. s - 1 \in Nat /\ s - 1 <= b BY <1>0, <1>3
        <2>2. Span(s - 1, b + 1) \subseteq D
            <3> SUFFICES ASSUME NEW c \in Span(s - 1, b + 1) PROVE c \in D OBVIOUS
            <3>1. c = s - 1 \/ c \in Span(s, b + 1) BY <1>0, <1>3 DEF Span
            <3> QED BY <1>3, <3>1
        <2> QED BY <1>3, <2>1, <2>2
    <1>7. s <= b /\ b < e /\ e \notin D /\ s \in Nat /\ e \in Nat BY <1>3, <1>4
    <1>8. s \in D /\ e - 1 \in D /\ (e - 1) + 1 = e
        <2>1. s \in Span(s, e) /\ e - 1 \in Span(s, e) BY <1>0, <1>7 DEF Span
        <2> QED BY <1>5, <1>7, <2>1
    <1>9. <<s, e>> \in Ranges(D)
        <2>1. <<s, e>> \in {<<x, y + 1>> : x, y \in D} BY <1>8
        <2> QED BY <1>0, <1>5, <1>6, <1>7, <2>1 DEF Ranges
    <1>10. b \in Span(<<s, e>>[1], <<s, e>>[2]) BY <1>0, <1>7 DEF Span
    <1> QED BY <1>9, <1>10

LEMMA Page0 == Page \in Nat \ {0} /\ ChunkSize \in Nat \ {0} BY OverlayAssumption

\* Every byte of a run is in one page of it.
LEMMA InAPage ==
    ASSUME NEW r, r[1] \in Int, r[2] \in Int, NEW b \in Span(r[1], r[2])
    PROVE  \E p \in Pages(r) : p <= b /\ b < p + Page
    <1>1. b \in Int /\ r[1] <= b /\ b < r[2] BY DEF Span
    <1> DEFINE k == b - r[1]
               m == k % Page
               p == b - m
    <1>2. k \in Nat BY <1>1
    <1>3. m \in Nat /\ m < Page /\ (k - m) % Page = 0 /\ m <= k
        <2> HIDE DEF k
        <2> QED BY <1>2, Page0, Divided
    <1>a. k = b - r[1] OBVIOUS
    <1> HIDE DEF k, m
    <1>4. p \in Int /\ p - r[1] = k - m BY <1>1, <1>2, <1>3, <1>a
    <1>5. p \in Span(r[1], r[2]) /\ p <= b /\ b < p + Page BY <1>1, <1>2, <1>3, <1>a, Page0 DEF Span
    <1> HIDE DEF p
    <1>6. p \in Pages(r) BY <1>3, <1>4, <1>5 DEF Pages
    <1> QED BY <1>5, <1>6

LEMMA OnePage ==
    ASSUME NEW r, r[1] \in Int, r[2] \in Int, NEW p \in Pages(r), NEW q \in Pages(r),
           NEW b \in Int, p <= b, b < p + Page, q <= b, b < q + Page
    PROVE  p = q
    <1>1. p \in Int /\ q \in Int /\ (p - r[1]) % Page = 0 /\ (q - r[1]) % Page = 0 BY DEF Pages, Span
    <1> DEFINE x == p - r[1]
               y == q - r[1]
    <1>2. x \in Int /\ y \in Int /\ x % Page = 0 /\ y % Page = 0 /\ x < y + Page /\ y < x + Page BY <1>1, Page0
    <1> HIDE DEF x, y
    <1>3. ASSUME x < y PROVE FALSE
        <2>1. x + Page <= y BY <1>2, <1>3, Page0, Multiples
        <2> QED BY <1>2, <2>1, Page0
    <1>5. ASSUME y < x PROVE FALSE
        <2>1. y + Page <= x BY <1>2, <1>5, Page0, Multiples
        <2> QED BY <1>2, <2>1, Page0
    <1>4. x = y BY <1>2, <1>3, <1>5
    <1> QED BY <1>1, <1>4 DEF x, y

\* An edit that replaces bytes that are there.
Editing(e, file) ==
    /\ file \in Seq(Int) /\ e.start \in Nat /\ e.del \in Nat /\ e.data \in Seq(Int)
    /\ e.start + e.del <= Len(file)

LEMMA There ==
    ASSUME NEW file \in Seq(Int), NEW i \in Nat, i < Len(file)
    PROVE  At(file, i) = file[i + 1]
    BY DEF At
LEMMA Beyond ==
    ASSUME NEW file \in Seq(Int), NEW i \in Nat, i >= Len(file)
    PROVE  At(file, i) = 0
    BY Reading

Part(file, m, n) == SubSeq(file, m, n)
Glued(A, D, B) == A \o D \o B
LEMMA CutOut ==
    ASSUME NEW file \in Seq(Int), NEW m \in Nat, NEW n \in Nat, 1 <= m, m <= n + 1, n <= Len(file)
    PROVE  /\ Part(file, m, n) \in Seq(Int) /\ Len(Part(file, m, n)) = (n - m) + 1
           /\ \A i \in 1..((n - m) + 1) : Part(file, m, n)[i] = file[(m - 1) + i]
    <1>1. Len(file) \in Nat /\ \A i \in 1..Len(file) : file[i] \in Int BY Images, ElementOfSeq
    <1>2. \A i \in m..n : file[i] \in Int BY <1>1
    <1> DEFINE A == Part(file, m, n)
    <1>3. A \in Seq(Int) /\ Len(A) = IF m <= n THEN n - m + 1 ELSE 0 BY <1>1, <1>2, SubSeqProperties DEF Part
    <1>4. \A i \in 1..(n - m + 1) : A[i] = file[m + i - 1] BY <1>1, <1>2, SubSeqProperties DEF Part
    <1> HIDE DEF A
    <1>5. ASSUME NEW i \in 1..((n - m) + 1) PROVE A[i] = file[(m - 1) + i]
        <2>1. i \in 1..(n - m + 1) /\ m + i - 1 = (m - 1) + i BY <1>1
        <2> QED BY <1>4, <2>1
    <1>6. Len(A) = (n - m) + 1 BY <1>1, <1>3
    <1> QED BY <1>3, <1>5, <1>6 DEF A

\* Three pieces in a row.
LEMMA PieceByPiece ==
    ASSUME NEW A \in Seq(Int), NEW D \in Seq(Int), NEW B \in Seq(Int)
    PROVE  /\ Glued(A, D, B) \in Seq(Int) /\ Len(Glued(A, D, B)) = (Len(A) + Len(D)) + Len(B)
           /\ \A i \in 1..Len(A) : Glued(A, D, B)[i] = A[i]
           /\ \A i \in 1..Len(D) : Glued(A, D, B)[Len(A) + i] = D[i]
           /\ \A i \in 1..Len(B) : Glued(A, D, B)[(Len(A) + Len(D)) + i] = B[i]
    <1> DEFINE s == Len(A)
               n == Len(D)
               m == Len(B)
    <1>b. s \in Nat /\ n \in Nat /\ m \in Nat /\ Len(A) = s /\ Len(D) = n /\ Len(B) = m BY Images
    <1> HIDE DEF s, n, m
    <1> DEFINE C == A \o D
    <1>0. C \in Seq(Int) /\ Len(C) = Len(A) + Len(D)
          /\ \A i \in 1..(Len(A) + Len(D)) : C[i] = IF i <= Len(A) THEN A[i] ELSE D[i - Len(A)]
        BY ConcatProperties
    <1> HIDE DEF C
    <1>1. C \in Seq(Int) /\ Len(C) = s + n /\ \A i \in 1..(s + n) : C[i] = IF i <= s THEN A[i] ELSE D[i - s]
        BY <1>0, <1>b
    <1> DEFINE r == C \o B
    <1>a. s + n \in Nat BY <1>b
    <1>2. r \in Seq(Int) /\ Len(r) = Len(C) + Len(B)
          /\ \A i \in 1..(Len(C) + Len(B)) : r[i] = IF i <= Len(C) THEN C[i] ELSE B[i - Len(C)]
        <2>1. C \in Seq(Int) BY <1>1
        <2> QED BY <2>1, ConcatProperties
    <1> HIDE DEF r
    <1>3. ASSUME NEW i \in 1..s PROVE r[i] = A[i]
        <2>1. i \in 1..(Len(C) + Len(B)) /\ i <= Len(C) /\ i \in 1..(s + n) /\ i <= s BY <1>b, <1>1
        <2> QED BY <1>1, <1>2, <2>1
    <1>4. ASSUME NEW i \in 1..n PROVE r[s + i] = D[i]
        <2>1. s + i \in 1..(Len(C) + Len(B)) /\ s + i <= Len(C) /\ s + i \in 1..(s + n) /\ ~(s + i <= s)
              /\ (s + i) - s = i
            BY <1>b, <1>1
        <2>2. r[s + i] = C[s + i] BY <1>2, <2>1
        <2>3. C[s + i] = D[(s + i) - s] BY <1>1, <2>1
        <2> QED BY <2>1, <2>2, <2>3
    <1>5. ASSUME NEW i \in 1..m PROVE r[(s + n) + i] = B[i]
        <2>1. (s + n) + i \in 1..(Len(C) + Len(B)) /\ ~((s + n) + i <= Len(C)) /\ ((s + n) + i) - Len(C) = i
            BY <1>b, <1>1
        <2>2. r[(s + n) + i] = B[((s + n) + i) - Len(C)] BY <1>2, <2>1
        <2> QED BY <2>1, <2>2
    <1>6. r \in Seq(Int) /\ Len(r) = (s + n) + m BY <1>b, <1>1, <1>2
    <1> QED BY <1>3, <1>4, <1>5, <1>6 DEF r, C, Glued, s, n, m

LEMMA OneEdit ==
    ASSUME NEW e, NEW file, Editing(e, file), NEW b \in Nat
    PROVE  LET r == Splice(e, file)
               end == e.start + Len(e.data)
           IN  /\ r \in Seq(Int) /\ Len(r) = (Len(file) - e.del) + Len(e.data)
               /\ b < e.start => At(r, b) = At(file, b)
               /\ e.start <= b /\ b < end => At(r, b) = At(e.data, b - e.start)
               /\ b >= end => At(r, b) = At(file, (b - Len(e.data)) + e.del)
    <1> DEFINE s == e.start
               n == Len(e.data)
               d == e.del
               L == Len(file)
               m == L - (s + d)
               A == Part(file, 1, s)
               t == e.start + e.del + 1
               B == Part(file, t, L)
               r == Splice(e, file)
    <1>1. /\ s \in Nat /\ n \in Nat /\ d \in Nat /\ L \in Nat /\ s + d <= L
          /\ file \in Seq(Int) /\ e.data \in Seq(Int)
        BY Images DEF Editing
    <1>2. r = Glued(A, e.data, B) BY DEF Splice, Glued, Part
    <1>a. n = Len(e.data) /\ L = Len(file) /\ m = L - (s + d) /\ t = (s + d) + 1 BY <1>1
    <1> HIDE DEF s, n, d, L, m, t, r
    <1>3. A \in Seq(Int) /\ Len(A) = (s - 1) + 1 /\ \A i \in 1..((s - 1) + 1) : A[i] = file[(1 - 1) + i]
        <2>1. file \in Seq(Int) /\ 1 \in Nat /\ s \in Nat /\ 1 <= 1 /\ 1 <= s + 1 /\ s <= Len(file) BY <1>1, <1>a
        <2> QED BY <2>1, CutOut
    <1>b. A \in Seq(Int) /\ Len(A) = s /\ \A i \in 1..s : A[i] = file[i] BY <1>1, <1>3
    <1>4. m \in Nat /\ t \in Nat /\ 1 <= t /\ t <= L + 1 BY <1>1, <1>a
    <1>5. B \in Seq(Int) /\ Len(B) = (L - t) + 1 /\ \A i \in 1..((L - t) + 1) : B[i] = file[(t - 1) + i]
        <2>1. file \in Seq(Int) /\ t \in Nat /\ L \in Nat /\ 1 <= t /\ t <= L + 1 /\ L <= Len(file)
            BY <1>1, <1>a, <1>4
        <2> QED BY <2>1, CutOut
    <1>c. (L - t) + 1 = m /\ t - 1 = s + d BY <1>1, <1>a
    <1> HIDE DEF A, B
    <1>6. /\ r \in Seq(Int) /\ Len(r) = (s + n) + m
          /\ \A i \in 1..s : r[i] = A[i]
          /\ \A i \in 1..n : r[s + i] = e.data[i]
          /\ \A i \in 1..m : r[(s + n) + i] = B[i]
        <2>1. /\ A \in Seq(Int) /\ e.data \in Seq(Int) /\ B \in Seq(Int) /\ s \in Nat /\ n \in Nat /\ m \in Nat
              /\ Len(A) = s /\ Len(e.data) = n /\ Len(B) = m
            BY <1>1, <1>a, <1>b, <1>4, <1>5, <1>c
        <2> DEFINE D == e.data
        <2>2. D \in Seq(Int) /\ Len(D) = n BY <2>1
        <2> HIDE DEF D
        <2> DEFINE G == Glued(A, D, B)
        <2>3. /\ G \in Seq(Int) /\ Len(G) = (s + n) + m
              /\ \A i \in 1..s : G[i] = A[i]
              /\ \A i \in 1..n : G[s + i] = D[i]
              /\ \A i \in 1..m : G[(s + n) + i] = B[i]
            <3>1. /\ G \in Seq(Int) /\ Len(G) = (Len(A) + Len(D)) + Len(B)
                  /\ \A i \in 1..Len(A) : G[i] = A[i]
                  /\ \A i \in 1..Len(D) : G[Len(A) + i] = D[i]
                  /\ \A i \in 1..Len(B) : G[(Len(A) + Len(D)) + i] = B[i]
                <4>1. A \in Seq(Int) /\ D \in Seq(Int) /\ B \in Seq(Int) BY <2>1, <2>2
                <4> QED BY <4>1, PieceByPiece
            <3> HIDE DEF G
            <3> QED BY <2>1, <2>2, <3>1
        <2> HIDE DEF G
        <2>4. r = G BY <1>2 DEF G, D
        <2> QED BY <2>3, <2>4 DEF D
    <1>10. Len(r) = (L - d) + n BY <1>1, <1>a, <1>6
    <1>11. b < s => At(r, b) = At(file, b)
        <2> SUFFICES ASSUME b < s PROVE At(r, b) = At(file, b) OBVIOUS
        <2>1. b + 1 \in 1..s /\ b < Len(r) /\ b < Len(file)
            <3>1. Len(r) = (s + n) + m BY <1>6
            <3>2. b + 1 \in 1..s BY <1>1
            <3>3. b < L /\ b < (s + n) + m BY <1>1, <1>4
            <3> QED BY <1>a, <3>1, <3>2, <3>3
        <2>2. r[b + 1] = file[b + 1] BY <1>b, <1>6, <2>1
        <2> QED BY <1>1, <1>6, <2>1, <2>2, There
    <1>12. s <= b /\ b < s + n => At(r, b) = At(e.data, b - s)
        <2> SUFFICES ASSUME s <= b, b < s + n PROVE At(r, b) = At(e.data, b - s) OBVIOUS
        <2> DEFINE i == b - s
        <2>1. i \in Nat /\ i + 1 \in 1..n /\ s + (i + 1) = b + 1 /\ b < Len(r) /\ i < Len(e.data)
            BY <1>1, <1>a, <1>4, <1>6
        <2> HIDE DEF i
        <2>2. r[b + 1] = e.data[i + 1]
            <3>1. r[s + (i + 1)] = e.data[i + 1] BY <1>6, <2>1
            <3> QED BY <2>1, <3>1
        <2>3. At(r, b) = r[b + 1] BY <1>6, <2>1, There
        <2>4. At(e.data, i) = e.data[i + 1] BY <1>1, <2>1, There
        <2> QED BY <2>2, <2>3, <2>4 DEF i
    <1>13. b >= s + n => At(r, b) = At(file, (b - n) + d)
        <2> SUFFICES ASSUME b >= s + n PROVE At(r, b) = At(file, (b - n) + d) OBVIOUS
        <2> DEFINE i == b - (s + n)
                   c == (b - n) + d
        <2>1. i \in Nat /\ c \in Nat /\ (s + n) + (i + 1) = b + 1 /\ (s + d) + (i + 1) = c + 1
              /\ (i < m => i + 1 \in 1..m /\ b < Len(r) /\ c < Len(file)) /\ (i >= m => b >= Len(r) /\ c >= Len(file))
            <3>1. Len(r) = (s + n) + m /\ L = Len(file) BY <1>a, <1>6
            <3>2. m = L - (s + d) BY <1>a
            <3>3. i \in Nat /\ c \in Nat /\ (s + n) + (i + 1) = b + 1 /\ (s + d) + (i + 1) = c + 1
                /\ (i < m => i + 1 \in 1..m /\ b < (s + n) + m /\ c < L) /\ (i >= m => b >= (s + n) + m /\ c >= L)
                BY <1>1, <1>4, <3>2
            <3> QED BY <3>1, <3>3
        <2> HIDE DEF i, c
        <2>2. CASE i < m
            <3>1. r[(s + n) + (i + 1)] = B[i + 1] BY <1>6, <2>1, <2>2
            <3>2. B[i + 1] = file[(s + d) + (i + 1)] BY <1>a, <1>c, <1>5, <2>1, <2>2
            <3>3. r[b + 1] = file[c + 1] BY <2>1, <3>1, <3>2
            <3>4. At(r, b) = r[b + 1] BY <1>6, <2>1, <2>2, There
            <3>5. At(file, c) = file[c + 1] BY <1>1, <2>1, <2>2, There
            <3> QED BY <3>3, <3>4, <3>5 DEF c
        <2>3. CASE i >= m
            <3>1. At(r, b) = At(file, c) BY <1>1, <1>6, <2>1, <2>3, Beyond
            <3> QED BY <3>1 DEF c
        <2> QED BY <1>4, <2>1, <2>2, <2>3
    <1> QED BY <1>6, <1>10, <1>11, <1>12, <1>13 DEF r, s, n, d, L

\* The recursive function of the fold exists.
Folding(f, file, E) ==
    /\ f[{}] = file /\ Spliced(file, E) = f[E]
    /\ \A s \in SUBSET E : s # {} => f[s] = Splice(Earliest(s), f[s \ {Earliest(s)}])
LEMMA Folded ==
    ASSUME NEW file, NEW E, IsFiniteSet(E), \A s \in SUBSET E : s # {} => Earliest(s) \in s
    PROVE  \E f : Folding(f, file, E)
    <1> DEFINE Body(f, s) == IF s = {} THEN file ELSE Splice(Earliest(s), f[s \ {Earliest(s)}])
               Upto(k) == {s \in SUBSET E : Cardinality(s) <= k}
               n == Cardinality(E)
               Built == {k \in 0..n : \E f : f = [s \in Upto(k) |-> Body(f, s)]}
    <1>1. n \in Nat BY FS_CardinalityType
    <1>2. ASSUME NEW s \in SUBSET E PROVE IsFiniteSet(s) /\ Cardinality(s) \in 0..n
        BY <1>1, FS_Subset, FS_CardinalityType
    <1>3. ASSUME NEW s \in SUBSET E, s # {}
          PROVE  s \ {Earliest(s)} \in SUBSET E /\ Cardinality(s \ {Earliest(s)}) = Cardinality(s) - 1
        BY <1>2, <1>3, FS_RemoveElement
    <1>4. 0 \in Built
        <2>1. Upto(0) = {{}}
            <3>1. {} \in Upto(0) BY FS_EmptySet
            <3>2. ASSUME NEW s \in Upto(0) PROVE s = {}
                <4>1. Cardinality(s) = 0 BY <1>1, <1>2
                <4> QED BY <1>2, <4>1, FS_EmptySet
            <3> QED BY <3>1, <3>2
        <2> DEFINE f == [s \in {{}} |-> file]
        <2>2. f = [s \in {{}} |-> Body(f, s)] OBVIOUS
        <2> HIDE DEF f, Body, Upto
        <2>3. \E g : g = [s \in Upto(0) |-> Body(g, s)] BY <2>1, <2>2
        <2> QED BY <1>1, <2>3
    <1>5. ASSUME NEW k \in 0..(n - 1), k \in Built PROVE k + 1 \in Built
        <2>1. PICK f : f = [s \in Upto(k) |-> Body(f, s)] BY <1>5
        <2> DEFINE g == [s \in Upto(k + 1) |-> IF s \in Upto(k) THEN f[s] ELSE Body(f, s)]
        <2>2. ASSUME NEW s \in Upto(k + 1) PROVE Body(g, s) = g[s]
            <3>1. Body(g, s) = Body(f, s)
                <4>1. CASE s = {} BY <4>1
                <4>2. CASE s # {}
                    <5> DEFINE t == s \ {Earliest(s)}
                    <5>1. t \in Upto(k) /\ t \in Upto(k + 1)
                        <6>1. t \in SUBSET E /\ Cardinality(t) = Cardinality(s) - 1 BY <1>3, <4>2
                        <6>2. Cardinality(s) \in Nat /\ Cardinality(s) <= k + 1 BY <1>1, <1>2
                        <6> HIDE DEF t
                        <6> QED BY <1>1, <6>1, <6>2
                    <5> HIDE DEF t
                    <5>2. g[t] = f[t] BY <5>1
                    <5> QED BY <4>2, <5>2 DEF t
                <4> QED BY <4>1, <4>2
            <3> HIDE DEF Body, Upto
            <3>2. s \in Upto(k) => f[s] = Body(f, s) BY <2>1
            <3> QED BY <3>1, <3>2
        <2> HIDE DEF Body
        <2>3. g = [s \in Upto(k + 1) |-> Body(g, s)] BY <2>2
        <2>4. k + 1 \in 0..n BY <1>1
        <2> HIDE DEF g, Upto
        <2> QED BY <2>3, <2>4
    <1>6. n \in Built
        <2> HIDE DEF Built, n
        <2>1. \A k \in 0..n : k \in Built BY <1>1, <1>4, <1>5, UpTo
        <2> QED BY <1>1, <2>1
    <1>7. Upto(n) = SUBSET E BY <1>1, <1>2
    <1> HIDE DEF Upto
    <1> DEFINE F == CHOOSE f : f = [s \in SUBSET E |-> Body(f, s)]
    <1>8. F = [s \in SUBSET E |-> Body(F, s)]
        <2> HIDE DEF Body
        <2>1. \E f : f = [s \in SUBSET E |-> Body(f, s)] BY <1>6, <1>7
        <2> QED BY <2>1
    <1>9. Spliced(file, E) = F[E] BY DEF Spliced, MapThenFoldSet
    <1> HIDE DEF F
    <1>10. \A s \in SUBSET E : F[s] = Body(F, s)
        <2> HIDE DEF Body
        <2> QED BY <1>8
    <1>11. Folding(F, file, E) BY <1>9, <1>10 DEF Folding
    <1> QED BY <1>11

-----------------------------------------------------------------------------
(* A patch.                                                                *)

LEMMA NextMultiple ==
    ASSUME NEW d \in Nat \ {0}, NEW x \in Int, x % d = 0
    PROVE  (x + d) % d = 0
    <1> DEFINE q == x \div d
    <1>1. q \in Int /\ x = d * q + (x % d) BY Divided
    <1> HIDE DEF q
    <1>2. x = d * q BY <1>1
    <1>3. x + d = d * (q + 1) /\ q + 1 \in Int BY <1>1, <1>2
    <1>4. \A z \in Int : (d * z) % d = 0 OBVIOUS
    <1> QED BY <1>3, <1>4

To(e) == e.start + Len(e.data)
Spans(e) == Span(e.start, To(e))
\* An edit of dirty bytes.
Apt(w, bytes, e) ==
    /\ e.start \in Nat /\ e.del \in Nat /\ e.data \in Seq(Int) /\ Len(e.data) \in Nat \ {0}
    /\ e.start <= w.base /\ To(e) <= w.size
    /\ \A b \in Spans(e) : At(e.data, b - e.start) = At(bytes, b)
    /\ To(e) <= w.base => e.del = Len(e.data)
    /\ To(e) > w.base => e.start + e.del = w.base /\ To(e) = w.size

LEMMA Edited ==
    ASSUME NEW w, NEW file, NEW bytes, Good(w, file, bytes), NEW e \in Edits(w, bytes)
    PROVE  \E r \in Ranges(w.dirty) : \E p \in Pages(r) :
              /\ e = EditAt(w, bytes, p, r[2]) /\ e.start = p /\ p \in Nat
              /\ Len(e.data) = Smaller(p + Page, r[2]) - p /\ To(e) = Smaller(p + Page, r[2])
              /\ p < To(e) /\ Spans(e) \subseteq Span(r[1], r[2]) /\ To(e) <= w.size
              /\ (Near(w) => p <= w.base /\ Apt(w, bytes, e))
    <1>1. PICK r \in Ranges(w.dirty) : \E p \in Pages(r) : e = EditAt(w, bytes, p, r[2]) BY DEF Edits
    <1>2. PICK p \in Pages(r) : e = EditAt(w, bytes, p, r[2]) BY <1>1
    <1>3. /\ w.size \in Nat /\ w.base \in Nat /\ w.dirty \subseteq Span(0, w.size)
          /\ Span(w.base, w.size) \subseteq w.dirty /\ bytes \in Seq(Int) /\ Len(bytes) = w.size
        BY Images DEF Good, Sized, Sound
    <1>4. w.dirty \subseteq Nat /\ w.dirty \subseteq Int BY <1>3 DEF Span
    <1>5. /\ r[1] \in Nat /\ r[2] \in Int /\ r[1] < r[2] /\ Span(r[1], r[2]) \subseteq w.dirty /\ r[2] \notin w.dirty
        BY <1>4, Run
    <1>6. p \in Nat /\ r[1] <= p /\ p < r[2] /\ (p - r[1]) % Page = 0 BY <1>5 DEF Pages, Span
    <1>7. r[2] <= w.size
        <2>1. r[2] - 1 \in w.dirty BY <1>5 DEF Span
        <2> QED BY <1>3, <1>5, <2>1 DEF Span
    <1> DEFINE stop == Smaller(p + Page, r[2])
    <1>8. /\ stop \in Nat /\ p < stop /\ stop <= r[2] /\ stop <= p + Page /\ (stop = p + Page \/ stop = r[2])
        BY <1>5, <1>6, Page0 DEF Smaller
    <1>9. /\ e.start = p /\ e.del = Larger(0, Smaller(stop, w.base) - p)
          /\ e.data = SubSeq(bytes, p + 1, stop)
        BY <1>2 DEF EditAt
    <1> HIDE DEF stop
    <1>n. /\ p \in Nat /\ stop \in Nat /\ p < stop /\ stop <= w.size /\ w.size \in Nat /\ w.base \in Nat
          /\ Len(bytes) = w.size /\ bytes \in Seq(Int)
        <2>1. stop <= w.size BY <1>3, <1>5, <1>7, <1>8
        <2> QED BY <1>3, <1>6, <1>8, <2>1
    <1>10. /\ e.data \in Seq(Int) /\ Len(e.data) = stop - p
           /\ \A i \in 1..(stop - p) : e.data[i] = bytes[p + i]
        <2> DEFINE m == p + 1
        <2>1. m \in Nat /\ 1 <= m /\ m <= stop + 1 /\ stop <= Len(bytes) /\ (stop - m) + 1 = stop - p /\ m - 1 = p
            BY <1>n
        <2>2. e.data = Part(bytes, m, stop) BY <1>9 DEF Part
        <2> HIDE DEF m
        <2>3. /\ e.data \in Seq(Int) /\ Len(e.data) = (stop - m) + 1
              /\ \A i \in 1..((stop - m) + 1) : e.data[i] = bytes[(m - 1) + i]
            <3> DEFINE P == Part(bytes, m, stop)
            <3>1. P \in Seq(Int) /\ Len(P) = (stop - m) + 1 /\ \A i \in 1..((stop - m) + 1) : P[i] = bytes[(m - 1) + i]
                BY <1>n, <2>1, CutOut
            <3>2. e.data = P BY <2>2
            <3> HIDE DEF P
            <3> QED BY <3>1, <3>2
        <2> QED BY <2>1, <2>3
    <1>11. To(e) = stop
        <2>1. To(e) = p + (stop - p) BY <1>9, <1>10 DEF To
        <2> QED BY <1>6, <1>8, <2>1
    <1>12. Spans(e) = Span(p, stop) /\ Span(p, stop) \subseteq Span(r[1], r[2])
        BY <1>5, <1>6, <1>8, <1>9, <1>11 DEF Spans, Span
    <1>13. ASSUME Near(w) PROVE p <= w.base /\ Apt(w, bytes, e)
        <2>1. p <= w.base BY <1>13 DEF Near
        <2>2. \A b \in Spans(e) : At(e.data, b - e.start) = At(bytes, b)
            <3> SUFFICES ASSUME NEW b \in Span(p, stop) PROVE At(e.data, b - p) = At(bytes, b) BY <1>9, <1>12
            <3> DEFINE i == b - p
            <3>1. b \in Nat /\ i \in Nat /\ i < stop - p /\ i + 1 \in 1..(stop - p) /\ p + (i + 1) = b + 1 /\ b < w.size
                BY <1>n DEF Span
            <3> HIDE DEF i
            <3>2. At(e.data, i) = e.data[i + 1] BY <1>10, <3>1, There
            <3>3. At(bytes, b) = bytes[b + 1] BY <1>3, <3>1, There
            <3>4. e.data[i + 1] = bytes[p + (i + 1)] BY <1>10, <3>1
            <3>5. At(e.data, i) = At(bytes, b) BY <3>1, <3>2, <3>3, <3>4
            <3> QED BY <3>5 DEF i
        <2>3. stop <= w.base => e.del = Len(e.data)
            BY <1>3, <1>6, <1>8, <1>9, <1>10 DEF Larger, Smaller
        <2>4. stop > w.base => e.start + e.del = w.base /\ stop = w.size
            <3> SUFFICES ASSUME stop > w.base PROVE e.start + e.del = w.base /\ stop = w.size OBVIOUS
            <3>1. e.start + e.del = w.base BY <1>3, <1>6, <1>8, <1>9, <2>1 DEF Larger, Smaller
            <3>2. CASE stop = r[2]
                <4> SUFFICES ASSUME stop < w.size PROVE FALSE BY <1>3, <1>7, <1>8, <3>1, <3>2
                <4>1. stop \in Span(w.base, w.size) BY <1>3, <1>8 DEF Span
                <4> QED BY <1>3, <1>5, <3>2, <4>1
            <3>3. CASE stop # r[2]
                <4>1. stop = p + Page /\ stop \in Span(r[1], r[2]) BY <1>5, <1>6, <1>8, <3>3, Page0 DEF Span
                <4> DEFINE x == p - r[1]
                <4>2. x \in Int /\ x % Page = 0 /\ stop - r[1] = x + Page BY <1>5, <1>6, <4>1, Page0
                <4> HIDE DEF x
                <4>3. (x + Page) % Page = 0 BY <4>2, Page0, NextMultiple
                <4>4. stop \in Pages(r) BY <4>1, <4>2, <4>3 DEF Pages
                <4>5. stop <= w.base BY <1>13, <4>4 DEF Near
                <4> QED BY <1>3, <1>8, <4>5
            <3> QED BY <3>2, <3>3
        <2>5. e.start \in Nat /\ e.del \in Nat /\ Len(e.data) \in Nat \ {0} /\ To(e) <= w.size /\ e.start <= w.base
            <3>1. e.del \in Nat BY <1>3, <1>6, <1>8, <1>9 DEF Larger, Smaller
            <3> QED BY <1>n, <1>9, <1>10, <1>11, <2>1, <3>1
        <2> QED BY <1>10, <1>11, <2>1, <2>2, <2>3, <2>4, <2>5 DEF Apt
    <1>14. To(e) <= w.size /\ p < To(e) BY <1>3, <1>5, <1>7, <1>8, <1>11
    <1> QED BY <1>2, <1>6, <1>9, <1>10, <1>11, <1>12, <1>13, <1>14 DEF stop

\* Edits are of different bytes.
LEMMA Apart ==
    ASSUME NEW w, NEW file, NEW bytes, Good(w, file, bytes), NEW e \in Edits(w, bytes), NEW f \in Edits(w, bytes),
           NEW b \in Int, b \in Spans(e), b \in Spans(f)
    PROVE  e = f
    <1>1. PICK r \in Ranges(w.dirty) : \E p \in Pages(r) :
              /\ e = EditAt(w, bytes, p, r[2]) /\ e.start = p /\ p \in Nat
              /\ To(e) = Smaller(p + Page, r[2]) /\ Spans(e) \subseteq Span(r[1], r[2])
        BY Edited
    <1>2. PICK p \in Pages(r) :
              /\ e = EditAt(w, bytes, p, r[2]) /\ e.start = p /\ p \in Nat
              /\ To(e) = Smaller(p + Page, r[2]) /\ Spans(e) \subseteq Span(r[1], r[2])
        BY <1>1
    <1>3. PICK q \in Ranges(w.dirty) : \E o \in Pages(q) :
              /\ f = EditAt(w, bytes, o, q[2]) /\ f.start = o /\ o \in Nat
              /\ To(f) = Smaller(o + Page, q[2]) /\ Spans(f) \subseteq Span(q[1], q[2])
        BY Edited
    <1>4. PICK o \in Pages(q) :
              /\ f = EditAt(w, bytes, o, q[2]) /\ f.start = o /\ o \in Nat
              /\ To(f) = Smaller(o + Page, q[2]) /\ Spans(f) \subseteq Span(q[1], q[2])
        BY <1>3
    <1>5. w.dirty \subseteq Int BY DEF Good, Sized, Span
    <1>6. r = q BY <1>2, <1>4, <1>5, OneRun
    <1>7. r[1] \in Int /\ r[2] \in Int BY <1>5, Run
    <1>8. p <= b /\ b < p + Page BY <1>2, <1>7, Page0 DEF Spans, Span, Smaller
    <1>9. o <= b /\ b < o + Page BY <1>4, <1>6, <1>7, Page0 DEF Spans, Span, Smaller
    <1>10. p = o BY <1>6, <1>7, <1>8, <1>9, OnePage
    <1> QED BY <1>2, <1>4, <1>6, <1>10

LEMMA FiniteEdits ==
    ASSUME NEW w, NEW file, NEW bytes, Good(w, file, bytes)
    PROVE  /\ IsFiniteSet(Edits(w, bytes))
           /\ \A s \in SUBSET Edits(w, bytes) : s # {} => Earliest(s) \in s
    <1> DEFINE E == Edits(w, bytes)
    <1>1. ASSUME NEW e \in E PROVE e.start \in 0..w.size /\ e.start \in Nat /\ e.start \in Spans(e)
        <2>1. PICK r \in Ranges(w.dirty) : \E p \in Pages(r) :
                  e.start = p /\ p \in Nat /\ To(e) = Smaller(p + Page, r[2]) /\ p < To(e) /\ To(e) <= w.size
            BY <1>1, Edited
        <2>2. r[2] \in Int /\ w.size \in Nat
            <3>1. w.dirty \subseteq Int BY DEF Good, Sized, Span
            <3> QED BY <3>1, Run DEF Good, Sized
        <2>3. To(e) \in Int BY <2>1, <2>2, Page0 DEF Smaller
        <2> QED BY <2>1, <2>2, <2>3 DEF Spans, Span
    <1>2. IsFiniteSet(E)
        <2> DEFINE F == [e \in E |-> e.start]
                   T == 0..w.size
        <2>1. F \in [E -> T] BY <1>1
        <2>2. ASSUME NEW e \in E, NEW f \in E, F[e] = F[f] PROVE e = f
            <3>1. e.start \in Int /\ e.start \in Spans(e) /\ e.start \in Spans(f) BY <1>1, <2>2
            <3> QED BY <3>1, Apart
        <2>3. F \in Injection(E, T)
            <3> HIDE DEF F, E, T
            <3> QED BY <2>1, <2>2 DEF Injection, IsInjective
        <2>4. IsFiniteSet(T) BY FS_Interval DEF Good, Sized
        <2> HIDE DEF F, E, T
        <2> QED BY <2>3, <2>4, FS_Injection
    <1>3. ASSUME NEW s \in SUBSET E, s # {} PROVE Earliest(s) \in s
        <2> DEFINE T == {e.start : e \in s}
        <2>1. T \subseteq Nat /\ T # {} BY <1>1, <1>3
        <2> HIDE DEF T
        <2>2. PICK m \in T : \A n \in T : m <= n BY <2>1, Least
        <2> USE DEF T
        <2>3. PICK e \in s : e.start = m BY <2>2
        <2>4. \A d \in s : e.start <= d.start BY <2>2, <2>3
        <2> QED BY <2>3, <2>4 DEF Earliest
    <1> QED BY <1>2, <1>3

LEMMA Overwritten ==
    ASSUME NEW w, NEW file, NEW bytes, Good(w, file, bytes), Near(w), NEW b \in w.dirty
    PROVE  \E e \in Edits(w, bytes) : b \in Spans(e)
    <1>0. /\ w.size \in Nat /\ w.dirty \subseteq Span(0, w.size) /\ w.dirty \subseteq Int
        BY DEF Good, Sized, Span
    <1>1. PICK r \in Ranges(w.dirty) : b \in Span(r[1], r[2]) BY <1>0, InARun
    <1>2. r[1] \in Int /\ r[2] \in Int BY <1>0, Run
    <1>3. PICK p \in Pages(r) : p <= b /\ b < p + Page BY <1>1, <1>2, InAPage
    <1> DEFINE e == EditAt(w, bytes, p, r[2])
    <1>4. e \in Edits(w, bytes) BY DEF Edits
    <1>5. p \in Int /\ b \in Int /\ b < r[2] BY <1>0, <1>1, <1>2, <1>3 DEF Pages, Span
    <1>6. e.start = p BY DEF EditAt
    <1> HIDE DEF e
    <1>7. PICK q \in Ranges(w.dirty) : \E o \in Pages(q) :
              /\ e.start = o /\ To(e) = Smaller(o + Page, q[2]) /\ o < To(e) /\ Spans(e) \subseteq Span(q[1], q[2])
        BY <1>4, Edited
    <1>8. q[1] \in Int /\ q[2] \in Int BY <1>0, Run
    <1>9. To(e) = Smaller(p + Page, q[2]) /\ p < To(e) BY <1>6, <1>7
    <1>10. p \in Span(q[1], q[2]) /\ p \in Span(r[1], r[2])
        <2>1. p \in Spans(e) BY <1>5, <1>6, <1>8, <1>9, Page0 DEF Spans, Span, Smaller
        <2> QED BY <1>7, <2>1 DEF Pages
    <1>11. q = r BY <1>0, <1>5, <1>10, OneRun
    <1>12. b \in Spans(e) BY <1>2, <1>3, <1>5, <1>6, <1>9, <1>11, Page0 DEF Spans, Span, Smaller
    <1> QED BY <1>4, <1>12

\* What the file is after a set of edits.
Crosses(w, s) == \E e \in s : To(e) > w.base
Over(s, b) == \E e \in s : b \in Spans(e)
Partly(w, file, bytes, s, r) ==
    /\ r \in Seq(Int)
    /\ Len(r) = IF Crosses(w, s) THEN (Len(file) + w.size) - w.base ELSE Len(file)
    /\ \A b \in Nat : Over(s, b) => b < Len(r) /\ At(r, b) = At(bytes, b)
    /\ \A b \in Nat : b < w.base /\ ~Over(s, b) => At(r, b) = At(file, b)

LEMMA OneMore ==
    ASSUME NEW w, NEW file \in Seq(Int), NEW bytes, Sized(w), NEW s, NEW e, e \notin s,
           \A d \in s \cup {e} : Apt(w, bytes, d) /\ d.start + d.del <= Len(file),
           ~(Crosses(w, s) /\ To(e) > w.base),
           NEW r, Partly(w, file, bytes, s, r)
    PROVE  Partly(w, file, bytes, s \cup {e}, Splice(e, r))
    <1>1. /\ e.start \in Nat /\ e.del \in Nat /\ e.data \in Seq(Int) /\ Len(e.data) \in Nat \ {0}
          /\ e.start <= w.base /\ To(e) <= w.size
          /\ \A b \in Spans(e) : At(e.data, b - e.start) = At(bytes, b)
          /\ To(e) <= w.base => e.del = Len(e.data)
          /\ To(e) > w.base => e.start + e.del = w.base /\ To(e) = w.size
          /\ e.start + e.del <= Len(file)
        BY DEF Apt
    <1> DEFINE a == e.start
               d == e.del
               n == Len(e.data)
               L == Len(file)
               N == Len(r)
    <1>2. /\ a \in Nat /\ d \in Nat /\ n \in Nat \ {0} /\ a <= w.base /\ To(e) = a + n /\ a + n <= w.size
          /\ a + n <= w.base => d = n
          /\ a + n > w.base => a + d = w.base /\ a + n = w.size
          /\ a + d <= L /\ L \in Nat /\ N \in Nat /\ w.base \in Nat /\ w.size \in Nat
          /\ r \in Seq(Int)
        BY <1>1, Images DEF To, Partly, Sized
    <1>3. \A b : b \in Spans(e) <=> b \in Span(a, a + n) BY <1>2 DEF Spans
    <1>4. N >= L
        <2>1. N = IF Crosses(w, s) THEN (L + w.size) - w.base ELSE L BY DEF Partly
        <2>2. Crosses(w, s) => w.size > w.base
            <3> SUFFICES ASSUME Crosses(w, s) PROVE w.size > w.base OBVIOUS
            <3>1. PICK c \in s : To(c) > w.base BY DEF Crosses
            <3>2. To(c) = w.size BY <3>1 DEF Apt
            <3> QED BY <3>1, <3>2
        <2> QED BY <1>2, <2>1, <2>2
    <1>5. Editing(e, r)
        <2>1. a + d <= N BY <1>2, <1>4
        <2> QED BY <1>1, <1>2, <2>1 DEF Editing
    <1> DEFINE R == Splice(e, r)
    <1>6. R \in Seq(Int) /\ Len(R) = (N - d) + n
        <2>1. 0 \in Nat OBVIOUS
        <2> QED BY <1>5, <2>1, OneEdit
    <1>7. \A b \in Nat : /\ b < a => At(R, b) = At(r, b)
                         /\ a <= b /\ b < a + n => At(R, b) = At(e.data, b - a)
                         /\ b >= a + n => At(R, b) = At(r, (b - n) + d)
        BY <1>5, OneEdit
    <1>b. \A b \in Span(a, a + n) : At(e.data, b - a) = At(bytes, b) BY <1>1, <1>3
    <1>c. N = (IF Crosses(w, s) THEN (L + w.size) - w.base ELSE L) BY DEF Partly
    <1>d. \A b \in Nat : Over(s, b) => b < N /\ At(r, b) = At(bytes, b) BY DEF Partly
    <1>e. L = Len(file) OBVIOUS
    <1> HIDE DEF R, N, a, d, n, L
    <1>8. Crosses(w, s \cup {e}) <=> Crosses(w, s) \/ a + n > w.base BY <1>2 DEF Crosses
    <1>9. Len(R) = IF Crosses(w, s \cup {e}) THEN (L + w.size) - w.base ELSE L
        <2>1. N = IF Crosses(w, s) THEN (L + w.size) - w.base ELSE L BY <1>c
        <2>2. CASE a + n > w.base
            <3>1. ~Crosses(w, s) BY <1>2, <2>2
            <3>2. Len(R) = (L - d) + n BY <1>6, <2>1, <3>1
            <3> QED BY <1>2, <1>8, <2>2, <3>2
        <2>3. CASE ~(a + n > w.base)
            <3>1. d = n BY <1>2, <2>3
            <3>2. Len(R) = N BY <1>2, <1>6, <3>1
            <3> QED BY <1>8, <2>1, <2>3, <3>2
        <2> QED BY <2>2, <2>3
    <1>10. Len(R) >= N
        <2>1. d <= n BY <1>2
        <2> QED BY <1>2, <1>6, <2>1
    <1>11. ASSUME NEW b \in Nat, Over(s \cup {e}, b) PROVE b < Len(R) /\ At(R, b) = At(bytes, b)
        <2>1. CASE b \in Span(a, a + n)
            <3>1. a <= b /\ b < a + n BY <1>2, <2>1 DEF Span
            <3>2. At(R, b) = At(e.data, b - a) BY <1>7, <3>1
            <3>3. At(e.data, b - a) = At(bytes, b) BY <1>b, <2>1
            <3>4. b < Len(R) BY <1>2, <1>4, <1>6, <3>1
            <3> QED BY <3>2, <3>3, <3>4
        <2>2. CASE b \notin Span(a, a + n)
            <3>1. Over(s, b) BY <1>3, <1>11, <2>2 DEF Over
            <3>2. b < N /\ At(r, b) = At(bytes, b) BY <1>d, <3>1
            <3>3. b < Len(R) BY <1>2, <1>6, <1>10, <3>2
            <3>4. CASE b < a BY <1>7, <3>2, <3>3, <3>4
            <3>5. CASE b >= a
                <4>1. b >= a + n BY <1>2, <2>2, <3>5 DEF Span
                <4>2. b < w.size
                    <5>1. PICK c \in s : b \in Spans(c) BY <3>1 DEF Over
                    <5>2. To(c) <= w.size /\ c.start \in Nat /\ To(c) \in Int BY <5>1 DEF Apt, To
                    <5> QED BY <1>2, <5>1, <5>2 DEF Spans, Span
                <4>3. d = n BY <1>2, <4>1, <4>2
                <4>4. (b - n) + d = b BY <1>2, <4>3
                <4> QED BY <1>7, <3>2, <3>3, <4>1, <4>4
            <3> QED BY <1>2, <3>4, <3>5
        <2> QED BY <2>1, <2>2
    <1>12. ASSUME NEW b \in Nat, b < w.base, ~Over(s \cup {e}, b) PROVE At(R, b) = At(file, b)
        <2>1. ~Over(s, b) /\ b \notin Span(a, a + n) BY <1>3, <1>12 DEF Over
        <2>2. At(r, b) = At(file, b) BY <1>12, <2>1 DEF Partly
        <2>3. CASE b < a BY <1>7, <2>2, <2>3
        <2>4. CASE b >= a
            <3>1. b >= a + n BY <1>2, <2>1, <2>4 DEF Span
            <3>2. d = n BY <1>2, <1>12, <3>1
            <3>3. (b - n) + d = b BY <1>2, <3>2
            <3> QED BY <1>7, <2>2, <3>1, <3>3
        <2> QED BY <1>2, <2>3, <2>4
    <1> QED BY <1>e, <1>6, <1>9, <1>11, <1>12 DEF Partly, R

LEMMA Patched ==
    ASSUME NEW w, NEW file \in Seq(Int), NEW bytes, Good(w, file, bytes), Near(w),
           \A e \in Edits(w, bytes) : e.start + e.del <= Len(file)
    PROVE  Partly(w, file, bytes, Edits(w, bytes), Spliced(file, Edits(w, bytes)))
    <1> DEFINE E == Edits(w, bytes)
               n == Cardinality(E)
    <1>1. IsFiniteSet(E) /\ \A s \in SUBSET E : s # {} => Earliest(s) \in s BY FiniteEdits
    <1>2. n \in Nat BY <1>1, FS_CardinalityType
    <1>3. PICK f : /\ f[{}] = file /\ Spliced(file, E) = f[E]
                   /\ \A s \in SUBSET E : s # {} => f[s] = Splice(Earliest(s), f[s \ {Earliest(s)}])
        <2> HIDE DEF E
        <2>1. \E f : Folding(f, file, E) BY <1>1, Folded
        <2> QED BY <2>1 DEF Folding
    <1>4. \A e \in E : Apt(w, bytes, e)
        <2> SUFFICES ASSUME NEW e \in E PROVE Apt(w, bytes, e) OBVIOUS
        <2>1. \E r \in Ranges(w.dirty) : \E p \in Pages(r) : Near(w) => Apt(w, bytes, e) BY Edited
        <2> QED BY <2>1
    <1>5. ASSUME NEW d \in E, NEW e \in E, To(d) > w.base, To(e) > w.base PROVE d = e
        <2>1. w.base \in Int /\ w.base \in Spans(d) /\ w.base \in Spans(e)
            <3>1. w.base \in Nat BY DEF Good, Sized
            <3>2. d.start \in Nat /\ d.start <= w.base /\ To(d) \in Int BY <1>4 DEF Apt, To
            <3>3. e.start \in Nat /\ e.start <= w.base /\ To(e) \in Int BY <1>4 DEF Apt, To
            <3> QED BY <1>5, <3>1, <3>2, <3>3 DEF Spans, Span
        <2> QED BY <2>1, Apart
    <1>6. Sized(w) BY DEF Good
    <1> DEFINE Fine == {k \in 0..n : \A s \in SUBSET E : Cardinality(s) = k => Partly(w, file, bytes, s, f[s])}
    <1>7. \A s \in SUBSET E : IsFiniteSet(s) /\ Cardinality(s) \in 0..n BY <1>1, <1>2, FS_Subset, FS_CardinalityType
    <1>8. 0 \in Fine
        <2> SUFFICES ASSUME NEW s \in SUBSET E, Cardinality(s) = 0 PROVE Partly(w, file, bytes, s, f[s]) BY <1>2
        <2>1. s = {} BY <1>7, FS_EmptySet
        <2> QED BY <1>3, <2>1 DEF Partly, Crosses, Over
    <1>9. ASSUME NEW k \in 0..(n - 1), k \in Fine PROVE k + 1 \in Fine
        <2> SUFFICES ASSUME NEW s \in SUBSET E, Cardinality(s) = k + 1 PROVE Partly(w, file, bytes, s, f[s])
            BY <1>2
        <2> DEFINE e == Earliest(s)
                   t == s \ {e}
        <2>1. s # {} /\ e \in s BY <1>1, <1>2, <1>7, FS_EmptySet
        <2>2. t \in SUBSET E /\ Cardinality(t) = k
            <3>1. t \in SUBSET E OBVIOUS
            <3>2. IsFiniteSet(s) BY <1>7
            <3>3. Cardinality(t) = Cardinality(s) - 1
                <4> HIDE DEF e
                <4> QED BY <2>1, <3>2, FS_RemoveElement
            <3> QED BY <1>2, <3>1, <3>3
        <2>3. f[s] = Splice(e, f[t]) BY <1>3, <2>1
        <2>4. s = t \cup {e} /\ e \notin t /\ e \in E BY <2>1
        <2> HIDE DEF e, t
        <2>5. Partly(w, file, bytes, t, f[t]) BY <1>9, <2>2
        <2>6. \A d \in t \cup {e} : Apt(w, bytes, d) /\ d.start + d.del <= Len(file) BY <1>4, <2>2, <2>4
        <2>7. ~(Crosses(w, t) /\ To(e) > w.base) BY <1>5, <2>2, <2>4 DEF Crosses
        <2> DEFINE r == f[t]
        <2> HIDE DEF r
        <2>8. Partly(w, file, bytes, t, r) BY <2>5 DEF r
        <2>9. Partly(w, file, bytes, t \cup {e}, Splice(e, r)) BY <1>6, <2>4, <2>6, <2>7, <2>8, OneMore
        <2> QED BY <2>3, <2>4, <2>9 DEF r
    <1>10. n \in Fine
        <2> HIDE DEF Fine, n
        <2>1. \A k \in 0..n : k \in Fine BY <1>2, <1>8, <1>9, UpTo
        <2> QED BY <1>2, <2>1
    <1> QED BY <1>3, <1>10

\* A truncate follows unless the patch is one append at the end of the base.
LEMMA Appends ==
    ASSUME NEW w, NEW file, NEW bytes, Good(w, file, bytes), w.size # w.base, ~Odd(w)
    PROVE  \E r \in Ranges(w.dirty) : {r} = Ranges(w.dirty) /\ r[1] >= w.base /\ r[2] = w.size
    <1>1. /\ w.size \in Nat /\ w.base \in Nat /\ w.dirty \subseteq Span(0, w.size) /\ w.dirty \subseteq Int
          /\ Span(w.base, w.size) \subseteq w.dirty
        BY DEF Good, Sized, Sound, Span
    <1>2. w.size > w.base /\ \A d \in w.dirty : d >= w.base BY <1>1 DEF Odd
    <1>3. w.base \in w.dirty BY <1>1, <1>2 DEF Span
    <1>4. PICK r \in Ranges(w.dirty) : w.base \in Span(r[1], r[2]) BY <1>1, <1>3, InARun
    <1>5. ASSUME NEW q \in Ranges(w.dirty) PROVE /\ q[1] \in Int /\ q[2] \in Int /\ q[1] >= w.base
                                                /\ q[1] < q[2] /\ q[2] = w.size
        <2>1. /\ q[1] \in w.dirty /\ q[2] \in Int /\ q[1] < q[2] /\ Span(q[1], q[2]) \subseteq w.dirty
              /\ q[2] \notin w.dirty
            BY <1>1, Run
        <2>2. q[1] \in Int /\ q[1] >= w.base BY <1>1, <1>2, <2>1
        <2>3. q[2] - 1 \in w.dirty BY <2>1, <2>2 DEF Span
        <2>4. q[2] <= w.size BY <1>1, <2>1, <2>3 DEF Span
        <2>5. ~(q[2] < w.size)
            <3> SUFFICES ASSUME q[2] < w.size PROVE FALSE OBVIOUS
            <3>1. q[2] \in Span(w.base, w.size) BY <1>1, <2>1, <2>2 DEF Span
            <3> QED BY <1>1, <2>1, <3>1
        <2> QED BY <1>1, <2>1, <2>2, <2>4, <2>5
    <1>6. ASSUME NEW q \in Ranges(w.dirty) PROVE q = r
        <2>1. w.size - 1 \in Span(q[1], q[2]) /\ w.size - 1 \in Span(r[1], r[2]) /\ w.size - 1 \in Int
            BY <1>1, <1>5 DEF Span
        <2> QED BY <1>1, <2>1, OneRun
    <1>7. {r} = Ranges(w.dirty) BY <1>6
    <1> QED BY <1>5, <1>7

LEMMA PatchExact ==
    ASSUME NEW w, NEW file \in Seq(Int), NEW bytes, Good(w, file, bytes), FitsIn(w, file), w.dirty # {}, Near(w),
           \A e \in Edits(w, bytes) : e.start + e.del <= Len(file),
           NEW trim, trim = (w.size # w.base
                /\ ~\E r \in Ranges(w.dirty) : {r} = Ranges(w.dirty) /\ r[1] >= w.base /\ r[2] = w.size)
    PROVE  LET new == Spliced(file, Edits(w, bytes))
           IN  /\ new \in Seq(Int)
               /\ IF trim THEN Resize(new, w.size) = bytes /\ Agrees(w, new, bytes) ELSE new = bytes
    <1> DEFINE E == Edits(w, bytes)
               new == Spliced(file, E)
    <1>1. Partly(w, file, bytes, E, new) BY Patched
    <1>2. /\ w.size \in Nat /\ w.base \in Nat /\ w.dirty \subseteq Span(0, w.size) /\ w.dirty \subseteq Int
          /\ Span(w.base, w.size) \subseteq w.dirty /\ bytes \in Image(w.size)
          /\ Len(file) \in Nat
        BY Images DEF Good, Sized, Sound, Span
    <1> HIDE DEF new
    <1>3. new \in Seq(Int) /\ Len(new) = (IF Crosses(w, E) THEN (Len(file) + w.size) - w.base ELSE Len(file))
        BY <1>1 DEF Partly
    <1>4. \A e \in E : Apt(w, bytes, e)
        <2> SUFFICES ASSUME NEW e \in E PROVE Apt(w, bytes, e) OBVIOUS
        <2>1. \E r \in Ranges(w.dirty) : \E p \in Pages(r) : Near(w) => Apt(w, bytes, e) BY Edited
        <2> QED BY <2>1
    <1>5. Crosses(w, E) => w.size > w.base /\ Len(file) >= w.base
        <2> SUFFICES ASSUME NEW e \in E, To(e) > w.base PROVE w.size > w.base /\ Len(file) >= w.base BY DEF Crosses
        <2> QED BY <1>4 DEF Apt
    <1>6. w.size > w.base => Crosses(w, E)
        <2> SUFFICES ASSUME w.size > w.base PROVE Crosses(w, E) OBVIOUS
        <2>1. w.base \in w.dirty BY <1>2 DEF Span
        <2>2. PICK e \in E : w.base \in Spans(e) BY <2>1, Overwritten
        <2>3. e.start \in Nat /\ To(e) \in Int BY <1>4 DEF Apt, To
        <2>4. To(e) > w.base BY <1>2, <2>2, <2>3 DEF Spans, Span
        <2> QED BY <2>4 DEF Crosses
    <1>7. Len(new) >= Len(file) BY <1>2, <1>3, <1>5
    <1>8. ASSUME NEW b \in Span(0, w.size) PROVE b < Len(new) /\ At(new, b) = At(bytes, b)
        <2>1. b \in Nat /\ b < w.size BY <1>2 DEF Span
        <2>2. CASE Over(E, b) BY <1>1, <2>1, <2>2 DEF Partly
        <2>3. CASE ~Over(E, b)
            <3>1. b \notin w.dirty BY <2>3, Overwritten DEF Over
            <3>2. b \in Clean(w) BY <3>1 DEF Clean
            <3>3. b < Len(file) /\ At(file, b) = At(bytes, b) BY <3>2 DEF Good, Agrees
            <3>4. b < w.base BY <1>2, <2>1, <3>1 DEF Span
            <3>5. At(new, b) = At(file, b) BY <1>1, <2>1, <2>3, <3>4 DEF Partly
            <3> QED BY <1>2, <1>3, <1>7, <2>1, <3>3, <3>5
        <2> QED BY <2>2, <2>3
    <1>9. Resize(new, w.size) = bytes
        <2>1. Resize(new, w.size) \in Image(w.size)
              /\ \A b \in Span(0, w.size) : At(Resize(new, w.size), b) = At(new, b)
            BY <1>2, <1>3, Resizes
        <2> QED BY <1>2, <1>8, <2>1, SameBytes
    <1>10. Agrees(w, new, bytes) BY <1>8 DEF Agrees, Clean
    <1>11. ASSUME ~trim PROVE new = bytes
        <2>1. ~w.half
            <3> SUFFICES ASSUME w.half PROVE FALSE OBVIOUS
            <3>1. Odd(w) BY DEF Good
            <3>2. PICK r \in Ranges(w.dirty) : r[1] >= w.base /\ r[2] = w.size /\ {r} = Ranges(w.dirty)
                BY <1>11, <3>1 DEF Odd
            <3>3. r[1] \in Int /\ r[2] \in Int /\ r[1] < r[2] BY <1>2, Run
            <3>4. PICK d \in w.dirty : d < w.base BY <1>2, <3>1, <3>2, <3>3 DEF Odd
            <3>5. PICK q \in Ranges(w.dirty) : d \in Span(q[1], q[2]) BY <1>2, InARun
            <3>6. q = r BY <3>2
            <3> QED BY <1>2, <3>2, <3>3, <3>4, <3>5, <3>6 DEF Span
        <2>2. Len(file) <= w.base BY <2>1 DEF FitsIn
        <2>3. Len(new) = w.size
            <3>1. CASE w.size > w.base BY <1>2, <1>3, <1>5, <1>6, <2>2, <3>1
            <3>2. CASE w.size = w.base
                <4>1. ~Crosses(w, E) BY <1>2, <1>5, <3>2
                <4>2. Len(new) = Len(file) BY <1>3, <4>1
                <4>3. w.size > 0 => w.size - 1 < Len(new)
                    <5>1. w.size > 0 => w.size - 1 \in Span(0, w.size) BY <1>2 DEF Span
                    <5> QED BY <1>8, <5>1
                <4> QED BY <1>2, <2>2, <3>2, <4>2, <4>3
            <3>3. CASE w.size < w.base
                <4>0. w.size # w.base BY <1>2, <3>3
                <4>1. PICK r \in Ranges(w.dirty) : {r} = Ranges(w.dirty) /\ r[1] >= w.base /\ r[2] = w.size
                    BY <1>11, <4>0
                <4>2. r[1] \in Int /\ r[2] \in Int /\ r[1] < r[2] BY <1>2, Run
                <4> QED BY <1>2, <3>3, <4>1, <4>2
            <3> QED BY <1>2, <3>1, <3>2, <3>3
        <2>4. new \in Image(w.size) BY <1>3, <2>3, Images
        <2> QED BY <1>2, <1>8, <2>4, SameBytes
    <1> QED BY <1>3, <1>9, <1>10, <1>11 DEF new

-----------------------------------------------------------------------------
(* What a commit sends.                                                    *)

\* Of a range: where its chunks begin and end, below the base.
Low(w, r) == IF r[1] < w.base THEN ChunkFloor(r[1]) ELSE r[1]
High(w, r) == IF r[2] < w.base THEN Larger(r[2], Smaller(ChunkCeil(r[2]), w.base)) ELSE r[2]

LEMMA Floors ==
    ASSUME NEW b \in Int
    PROVE  ChunkFloor(b) \in Int /\ ChunkFloor(b) % ChunkSize = 0 /\ ChunkFloor(b) <= b /\ b < ChunkFloor(b) + ChunkSize
    <1> DEFINE m == b % ChunkSize
    <1>1. m \in Nat /\ m < ChunkSize /\ (b - m) % ChunkSize = 0 BY Page0, Divided
    <1>2. ChunkFloor(b) = b - m BY DEF ChunkFloor
    <1> HIDE DEF m
    <1> QED BY <1>1, <1>2, Page0

LEMMA InChunk ==
    ASSUME NEW g \in Int, g % ChunkSize = 0, NEW x \in Int, NEW y \in Int,
           g <= x, x < g + ChunkSize, g <= y, y < g + ChunkSize
    PROVE  x \div ChunkSize = y \div ChunkSize
    <1> DEFINE q == g \div ChunkSize
    <1>1. q \in Int /\ g = ChunkSize * q + (g % ChunkSize) BY Page0, Divided
    <1> HIDE DEF q
    <1>2. g = ChunkSize * q BY <1>1, Page0
    <1>3. ASSUME NEW z \in Int, g <= z, z < g + ChunkSize PROVE z \div ChunkSize = q
        <2> DEFINE m == z - g
        <2>1. m \in 0..(ChunkSize - 1) /\ z = ChunkSize * q + m BY <1>1, <1>2, <1>3, Page0
        <2> HIDE DEF m
        <2>2. \A d \in Nat \ {0} : \A a \in Int : \A r \in 0..(d - 1) : (d * a + r) \div d = a OBVIOUS
        <2> QED BY <1>1, <2>1, <2>2, Page0
    <1> QED BY <1>3

LEMMA Sided ==
    ASSUME NEW x \in Int, NEW y \in Int, x \div ChunkSize = y \div ChunkSize, NEW m \in Int, m % ChunkSize = 0
    PROVE  m <= x <=> m <= y
    BY Page0, SameChunk

LEMMA Widened ==
    ASSUME NEW w, NEW file, NEW bytes, Good(w, file, bytes), NEW r \in Ranges(w.dirty)
    PROVE  /\ r[1] \in Int /\ r[2] \in Int /\ Low(w, r) \in Int /\ High(w, r) \in Int
           /\ Low(w, r) <= r[1] /\ r[2] <= High(w, r)
           /\ Span(Low(w, r), High(w, r)) \subseteq Planned(w)
    <1>1. /\ w.size \in Nat /\ w.base \in Nat /\ w.dirty \subseteq Int BY DEF Good, Sized, Span
    <1>2. r[1] \in Int /\ r[2] \in Int BY <1>1, Run
    <1>3. Low(w, r) \in Int /\ Low(w, r) <= r[1] BY <1>2, Floors DEF Low
    <1>4. ChunkCeil(r[2]) \in Int BY <1>2, Page0, Floors DEF ChunkCeil
    <1>5. High(w, r) \in Int /\ r[2] <= High(w, r) BY <1>1, <1>2, <1>4 DEF High, Larger, Smaller
    <1>6. Span(Low(w, r), High(w, r)) \subseteq Planned(w) BY DEF Planned, Low, High
    <1> QED BY <1>2, <1>3, <1>5, <1>6

\* A range that begins below the base is widened to the whole of its chunks below the base.
LEMMA Whole ==
    ASSUME NEW w, NEW file, NEW bytes, Good(w, file, bytes), NEW r \in Ranges(w.dirty), r[1] < w.base,
           NEW p \in Span(Low(w, r), High(w, r)), NEW b \in Nat, b < w.base, b \div ChunkSize = p \div ChunkSize
    PROVE  b \in Planned(w)
    <1>1. /\ w.base \in Nat /\ r[1] \in Int /\ r[2] \in Int /\ Low(w, r) \in Int /\ High(w, r) \in Int
          /\ Span(Low(w, r), High(w, r)) \subseteq Planned(w)
        BY Widened DEF Good, Sized
    <1>2. p \in Int /\ Low(w, r) <= p /\ p < High(w, r) BY <1>1 DEF Span
    <1>3. Low(w, r) <= b
        <2>1. Low(w, r) = ChunkFloor(r[1]) BY DEF Low
        <2>2. Low(w, r) % ChunkSize = 0 BY <1>1, <2>1, Floors
        <2>3. Low(w, r) <= p <=> Low(w, r) <= b
            <3>1. b \in Int /\ p \div ChunkSize = b \div ChunkSize OBVIOUS
            <3> QED BY <1>1, <1>2, <2>2, <3>1, Sided
        <2> QED BY <1>2, <2>3
    <1>4. b < High(w, r)
        <2>1. CASE r[2] >= w.base BY <1>1, <2>1 DEF High
        <2>2. CASE r[2] < w.base
            <3> DEFINE c == ChunkCeil(r[2])
            <3>1. c \in Int /\ c % ChunkSize = 0 /\ r[2] <= c
                <4> DEFINE x == r[2] + ChunkSize - 1
                <4>1. x \in Int /\ c = ChunkFloor(x) BY <1>1, Page0 DEF ChunkCeil
                <4>2. x = r[2] + ChunkSize - 1 OBVIOUS
                <4> HIDE DEF x, c
                <4>3. c \in Int /\ c % ChunkSize = 0 /\ x < c + ChunkSize BY <4>1, Floors
                <4> QED BY <1>1, <4>1, <4>2, <4>3, Page0
            <3>2. High(w, r) = Larger(r[2], Smaller(c, w.base)) BY <2>2 DEF High
            <3> HIDE DEF c
            <3>3. p < c BY <1>1, <1>2, <2>2, <3>1, <3>2 DEF Larger, Smaller
            <3>4. ~(c <= p) BY <1>2, <3>1, <3>3
            <3>5. ~(c <= b)
                <4>1. b \in Int /\ p \div ChunkSize = b \div ChunkSize OBVIOUS
                <4>2. c <= p <=> c <= b BY <1>2, <3>1, <4>1, Sided
                <4> QED BY <3>4, <4>2
            <3> QED BY <1>1, <2>2, <3>1, <3>2, <3>5 DEF Larger, Smaller
        <2> QED BY <1>1, <2>1, <2>2
    <1> QED BY <1>1, <1>3, <1>4 DEF Span

LEMMA DirtyPlanned ==
    ASSUME NEW w, NEW file, NEW bytes, Good(w, file, bytes)
    PROVE  w.dirty \subseteq Planned(w)
    <1> SUFFICES ASSUME NEW b \in w.dirty PROVE b \in Planned(w) OBVIOUS
    <1>1. w.size \in Nat /\ w.dirty \subseteq Span(0, w.size) /\ b \in Int BY DEF Good, Sized, Span
    <1>2. PICK r \in Ranges(w.dirty) : b \in Span(r[1], r[2]) BY <1>1, InARun
    <1>3. /\ r[1] \in Int /\ r[2] \in Int /\ Low(w, r) \in Int /\ High(w, r) \in Int
          /\ Low(w, r) <= r[1] /\ r[2] <= High(w, r) /\ Span(Low(w, r), High(w, r)) \subseteq Planned(w)
        BY Widened
    <1>4. b \in Span(Low(w, r), High(w, r)) BY <1>1, <1>2, <1>3 DEF Span
    <1> QED BY <1>3, <1>4

\* The chunks of a rewrite are sent whole.
LEMMA Closed ==
    ASSUME NEW w, NEW file, NEW bytes, Good(w, file, bytes), ~Torn(w), ShouldChunkRewrite(w),
           NEW b \in Span(0, w.size), NEW p \in Planned(w), p \div ChunkSize = b \div ChunkSize
    PROVE  b \in Planned(w)
    <1>1. /\ w.size \in Nat /\ w.base \in Nat /\ w.dirty \subseteq Span(0, w.size) /\ w.dirty \subseteq Int
          /\ Span(w.base, w.size) \subseteq w.dirty
        BY DEF Good, Sized, Sound, Span
    <1>2. b \in Nat /\ b < w.size BY <1>1 DEF Span
    <1>3. CASE b >= w.base
        <2>1. b \in Span(w.base, w.size) BY <1>1, <1>2, <1>3 DEF Span
        <2> QED BY <1>1, <2>1, DirtyPlanned
    <1>4. CASE b < w.base
        <2>1. PICK r \in Ranges(w.dirty) : p \in Span(Low(w, r), High(w, r))
            BY DEF Planned, Low, High
        <2>2. CASE r[1] < w.base BY <1>2, <1>4, <2>1, <2>2, Whole
        <2>3. CASE ~(r[1] < w.base)
            <3>1. r[1] \in Int /\ r[2] \in Int /\ Span(r[1], r[2]) \subseteq w.dirty BY <1>1, Run
            <3>2. Low(w, r) = r[1] /\ High(w, r) = r[2] /\ p \in Int /\ p >= w.base /\ p \in w.dirty
                <4>1. r[1] < r[2] BY <1>1, Run
                <4>2. Low(w, r) = r[1] /\ High(w, r) = r[2] BY <1>1, <2>3, <3>1, <4>1 DEF Low, High
                <4> QED BY <1>1, <2>1, <2>3, <3>1, <4>2 DEF Span
            <3> DEFINE l == w.base - 1
                       tail == {d \in w.dirty : d \div ChunkSize = l \div ChunkSize}
            <3>3. l \in Int /\ b <= l /\ l <= p BY <1>1, <1>2, <1>4, <3>2
            <3>4. l \div ChunkSize = b \div ChunkSize
                <4> HIDE DEF l
                <4> DEFINE f == ChunkFloor(l)
                <4>1. f \in Int /\ f % ChunkSize = 0 /\ f <= l /\ l < f + ChunkSize BY <3>3, Floors
                <4> DEFINE g == ChunkFloor(b)
                <4>2. g \in Int /\ g % ChunkSize = 0 /\ g <= b /\ b < g + ChunkSize BY <1>2, Floors
                <4> HIDE DEF f, g
                <4>3. g + ChunkSize \in Int /\ (g + ChunkSize) % ChunkSize = 0 BY <4>2, Page0, NextMultiple
                <4>4. ~(g + ChunkSize <= b) BY <1>2, <4>2, Page0
                <4>5. ~(g + ChunkSize <= p) BY <1>2, <3>2, <4>3, <4>4, Page0, SameChunk
                <4>6. g <= l /\ l < g + ChunkSize BY <1>2, <3>2, <3>3, <4>2, <4>3, <4>5, Page0
                <4> QED BY <1>2, <3>3, <4>2, <4>6, Page0, InChunk
            <3>5. p \in tail BY <3>2, <3>4
            <3>6. ~(\A d \in tail : d >= w.base)
                <4>1. tail # {} BY <3>5
                <4> QED BY <4>1 DEF Torn
            <3>7. PICK t \in tail : ~(t >= w.base) BY <3>6
            <3>8. t \in w.dirty /\ t \in Int /\ t < w.base /\ t \div ChunkSize = b \div ChunkSize
                BY <1>1, <3>4, <3>7
            <3>9. PICK q \in Ranges(w.dirty) : t \in Span(q[1], q[2]) BY <1>1, <3>8, InARun
            <3>10. /\ q[1] \in Int /\ q[2] \in Int /\ Low(w, q) \in Int /\ High(w, q) \in Int
                   /\ Low(w, q) <= q[1] /\ q[2] <= High(w, q)
                BY Widened
            <3>11. t \in Span(Low(w, q), High(w, q)) /\ q[1] < w.base BY <1>1, <3>8, <3>9, <3>10 DEF Span
            <3> QED BY <1>2, <1>4, <3>8, <3>11, Whole
        <2> QED BY <2>2, <2>3
    <1> QED BY <1>1, <1>2, <1>3, <1>4

LEMMA RewriteExact ==
    ASSUME NEW w, NEW file \in Seq(Int), NEW bytes, Good(w, file, bytes), ~Torn(w), ShouldChunkRewrite(w),
           NEW v, v.size = w.size, v.planned = Planned(w),
           v.image = [i \in 1..w.size |-> IF i - 1 \in Planned(w) THEN bytes[i] ELSE 0]
    PROVE  Rewritten(file, v) = bytes
    <1>1. w.size \in Nat /\ bytes \in Image(w.size) /\ bytes \in Seq(Int) /\ Len(bytes) = w.size
        BY Images DEF Good, Sized, Sound
    <1>2. ASSUME NEW i \in 1..w.size
          PROVE  (IF \E p \in v.planned : p \div ChunkSize = (i - 1) \div ChunkSize
                  THEN v.image[i] ELSE At(file, i - 1)) = bytes[i]
        <2>1. i - 1 \in Span(0, w.size) /\ i - 1 \in Nat /\ i - 1 < w.size /\ (i - 1) + 1 = i
            BY <1>1 DEF Span
        <2>2. CASE \E p \in v.planned : p \div ChunkSize = (i - 1) \div ChunkSize
            <3>1. i - 1 \in Planned(w) BY <2>1, <2>2, Closed
            <3> QED BY <2>2, <3>1
        <2>3. CASE ~\E p \in v.planned : p \div ChunkSize = (i - 1) \div ChunkSize
            <3>1. i - 1 \notin w.dirty BY <2>3, DirtyPlanned
            <3>2. i - 1 \in Clean(w) BY <2>1, <3>1 DEF Clean
            <3>3. At(file, i - 1) = At(bytes, i - 1) BY <3>2 DEF Good, Agrees
            <3>4. At(bytes, i - 1) = bytes[i] BY <1>1, <2>1, Reading
            <3> QED BY <2>3, <3>3, <3>4
        <2> QED BY <2>2, <2>3
    <1>3. Rewritten(file, v) = [i \in 1..w.size |-> bytes[i]] BY <1>2 DEF Rewritten
    <1> QED BY <1>1, <1>3 DEF Image

\* Nothing dirty: the stored file has every byte, and no more than the base unless a patch is half done.
LEMMA CleanExact ==
    ASSUME NEW w, NEW file \in Seq(Int), NEW bytes, Good(w, file, bytes), FitsIn(w, file), w.dirty = {}
    PROVE  /\ w.size <= w.base /\ Resize(file, w.size) = bytes
           /\ w.size = w.base => file = bytes
    <1>1. /\ w.size \in Nat /\ w.base \in Nat /\ bytes \in Image(w.size) /\ Len(file) \in Nat
          /\ Span(w.base, w.size) = {}
        BY Images DEF Good, Sized, Sound
    <1>2. w.size <= w.base BY <1>1 DEF Span
    <1>3. \A b \in Span(0, w.size) : b < Len(file) /\ At(file, b) = At(bytes, b)
        BY DEF Good, Agrees, Clean
    <1>4. Resize(file, w.size) \in Image(w.size)
          /\ \A b \in Span(0, w.size) : At(Resize(file, w.size), b) = At(file, b)
        BY <1>1, Resizes
    <1>5. Resize(file, w.size) = bytes BY <1>1, <1>3, <1>4, SameBytes
    <1>6. ASSUME w.size = w.base PROVE file = bytes
        <2>1. ~w.half BY <1>6 DEF Good, Odd
        <2>2. Len(file) <= w.size BY <1>6, <2>1 DEF FitsIn
        <2>3. w.size > 0 => w.size - 1 < Len(file)
            <3>1. w.size > 0 => w.size - 1 \in Span(0, w.size) BY <1>1 DEF Span
            <3> QED BY <1>3, <3>1
        <2>4. Len(file) = w.size BY <1>1, <2>2, <2>3
        <2>5. file \in Image(w.size) BY <2>4, Images
        <2> QED BY <1>1, <1>3, <2>5, SameBytes
    <1> QED BY <1>2, <1>5, <1>6

LEMMA CommitExact ==
    ASSUME NEW w, NEW file \in Seq(Int), NEW bytes, Good(w, file, bytes), FitsIn(w, file), Tidy(w),
           NEW from, Backed(w, from, bytes), NEW v, v = Plan(w, from)
    PROVE  /\ Sendable(v, w)
           /\ Accepted(file, v) => Applied(file, v) \in Seq(Int) /\ Exact(v, Applied(file, v), w, bytes)
    <1>1. /\ w.size \in Nat /\ w.base \in Nat /\ bytes \in Image(w.size) /\ bytes \in Seq(Int)
          /\ Len(bytes) = w.size /\ Filled(w, bytes)
        BY Images DEF Good, Sized, Sound, Filled
    <1>2. View(w, from) = bytes BY <1>1, Viewed
    <1>3. CASE w.dirty = {}
        <2>1. v = [NoVerb EXCEPT !.kind = IF w.size = w.base THEN "none" ELSE "truncate", !.size = w.size]
            BY <1>3 DEF Plan
        <2>2. v.kind = (IF w.size = w.base THEN "none" ELSE "truncate") /\ v.size = w.size /\ ~v.trim
            BY <2>1 DEF NoVerb
        <2>3. /\ w.size <= w.base /\ Resize(file, w.size) = bytes /\ (w.size = w.base => file = bytes)
            BY <1>3, CleanExact
        <2>4. Applied(file, v) = bytes
            <3>1. CASE w.size = w.base BY <2>2, <2>3, <3>1 DEF Applied
            <3>2. CASE w.size # w.base BY <2>2, <2>3, <3>2 DEF Applied
            <3> QED BY <3>1, <3>2
        <2>5. Sendable(v, w) BY <1>3, <2>2, <2>3 DEF Sendable
        <2> QED BY <1>1, <2>2, <2>4, <2>5 DEF Exact
    <1>4. CASE w.dirty # {} /\ ShouldChunkRewrite(w)
        <2>1. v = [NoVerb EXCEPT !.kind = "rewrite", !.size = w.size, !.planned = Planned(w),
                      !.image = [i \in 1..w.size |-> IF i - 1 \in Planned(w) THEN bytes[i] ELSE 0]]
            BY <1>2, <1>4 DEF Plan
        <2>2. /\ v.kind = "rewrite" /\ v.size = w.size /\ v.planned = Planned(w) /\ ~v.trim
              /\ v.image = [i \in 1..w.size |-> IF i - 1 \in Planned(w) THEN bytes[i] ELSE 0]
            BY <2>1 DEF NoVerb
        <2>3. Rewritten(file, v) = bytes BY <1>4, <2>2, RewriteExact DEF Tidy
        <2>4. Applied(file, v) = bytes BY <2>2, <2>3 DEF Applied
        <2> QED BY <1>1, <2>2, <2>4 DEF Exact, Sendable
    <1>5. CASE w.dirty # {} /\ ~ShouldChunkRewrite(w) /\ ShouldReplace(w)
        <2>1. v = [NoVerb EXCEPT !.kind = "replace", !.size = w.size,
                      !.image = IF WholeImage(w) THEN w.temp ELSE bytes]
            BY <1>2, <1>5 DEF Plan
        <2>2. /\ v.kind = "replace" /\ v.size = w.size /\ ~v.trim
              /\ v.image = IF WholeImage(w) THEN w.temp ELSE bytes
            BY <2>1 DEF NoVerb
        <2>3. WholeImage(w) => w.temp = bytes
            <3>1. CASE w.auth BY <3>1 DEF Good, Sound
            <3>2. CASE Span(0, w.size) \subseteq w.dirty
                <4>1. w.temp \in Image(w.size) /\ \A b \in Span(0, w.size) : At(w.temp, b) = At(bytes, b)
                    BY <3>2 DEF Good, Sound
                <4> QED BY <1>1, <4>1, SameBytes
            <3> QED BY <3>1, <3>2 DEF WholeImage
        <2>4. Applied(file, v) = bytes BY <2>2, <2>3 DEF Applied
        <2> QED BY <1>1, <2>2, <2>4 DEF Exact, Sendable
    <1>6. CASE w.dirty # {} /\ ~ShouldChunkRewrite(w) /\ ~ShouldReplace(w)
        <2> DEFINE trim == /\ w.size # w.base
                           /\ ~\E r \in Ranges(w.dirty) : {r} = Ranges(w.dirty) /\ r[1] >= w.base /\ r[2] = w.size
        <2>1. v = [NoVerb EXCEPT !.kind = "patch", !.size = w.size, !.edits = Edits(w, bytes), !.trim = trim]
            BY <1>2, <1>6 DEF Plan
        <2>2. v.kind = "patch" /\ v.size = w.size /\ v.edits = Edits(w, bytes) /\ v.trim = trim
            BY <2>1 DEF NoVerb
        <2>3. ~w.hasSnap /\ Near(w) BY <1>6 DEF Tidy, Mends
        <2>4. v.trim => Odd(w) BY <2>2, Appends
        <2>5. Sendable(v, w) BY <2>2, <2>3, <2>4 DEF Sendable
        <2>6. ASSUME Accepted(file, v)
              PROVE  Applied(file, v) \in Seq(Int) /\ Exact(v, Applied(file, v), w, bytes)
            <3> DEFINE new == Spliced(file, Edits(w, bytes))
            <3>1. \A e \in Edits(w, bytes) : e.start + e.del <= Len(file) BY <2>2, <2>6 DEF Accepted
            <3>2. /\ new \in Seq(Int)
                  /\ IF v.trim THEN Resize(new, w.size) = bytes /\ Agrees(w, new, bytes) ELSE new = bytes
                BY <1>6, <2>2, <2>3, <3>1, PatchExact
            <3>3. Applied(file, v) = new BY <2>2 DEF Applied
            <3> HIDE DEF new
            <3> QED BY <2>2, <3>2, <3>3 DEF Exact
        <2> QED BY <2>5, <2>6
    <1> QED BY <1>3, <1>4, <1>5, <1>6

-----------------------------------------------------------------------------
(* What holds of the file, the overlay and what the applications have.     *)

LEMMA Facts ==
    ASSUME PathInv, DataInv
    PROVE  /\ Typed /\ Covered /\ Unmade /\ Grounded /\ Cared /\ Nameless /\ Staged /\ Placed /\ Pending
           /\ Recovered /\ Removing
           /\ Shapes /\ Named /\ Slotted /\ Under /\ Sends /\ Stamped
    BY DEF DataInv, PathInv

\* One handle at most commits.
LEMMA Only ==
    ASSUME PathInv, NEW h, current # 0, Cur.held = "" \/ Cur.held = h
    PROVE  \A g \in Handles \ {h} : handle[g].pc \notin Sync
    BY Mounts DEF PathInv, Sends, Cur

LEMMA NoSync ==
    ASSUME NEW x, x.pc \notin Sync, NEW w, NEW file, NEW bytes
    PROVE  Bound(x, w, file, bytes)
    BY DEF Bound, Sync

LEMMA Spent ==
    ASSUME left \in Budget, NEW k, k \in {"data", "open", "dir", "fault", "down", "rival"}, Spend(k)
    PROVE  left' \in Budget /\ left[k] \in Nat /\ left[k] > 0 /\ (left'.calm => left.calm /\ k \in {"data", "open"})
    <1> DEFINE mine == left.calm /\ k \in {"data", "open"}
               x == left[k]
    <1>1. left[k] > 0 /\ left' = [left EXCEPT ![k] = left[k] - 1, !.calm = mine] BY DEF Spend
    <1>2. left[k] \in Nat BY DEF Budget
    <1>3. x \in Nat /\ x > 0 BY <1>1, <1>2
    <1>4. x - 1 \in Nat
        <2> HIDE DEF x
        <2> QED BY <1>3
    <1>5. left' = [left EXCEPT ![k] = x - 1, !.calm = mine] BY <1>1
    <1>6. mine \in BOOLEAN OBVIOUS
    <1> HIDE DEF mine, x
    <1>7. left' \in Budget /\ left'.calm = mine BY <1>4, <1>5, <1>6 DEF Budget
    <1> QED BY <1>3, <1>7 DEF x, mine

LEMMA Sourced ==
    ASSUME PathInv, DataInv, current # 0
    PROVE  /\ current \in Slots /\ DataFields \subseteq DOMAIN Cur /\ Fields \subseteq DOMAIN Cur /\ Sized(Cur)
           /\ ~Cur.poisoned /\ mounted
    BY Facts DEF Shapes, Typed, Cur, Staged, Named

\* Where the clean bytes of the current state are read.
LEMMA Reads ==
    ASSUME PathInv, DataInv, current # 0, Cur.made, ~Renaming \/ (dir.pc = "states" /\ Cur.path \in tracked \cup {""})
    PROVE  Backed(Cur, Content(Cur.path), app.bytes)
    <1>0. /\ Named /\ Under /\ Removing /\ mounted /\ tracked \subseteq Names
          /\ Based(Cur, Lost(Cur.path), dir.pc = "hub", Past) /\ Cover(Cur, File, app, mode["file"], Past)
        BY Facts, Sourced DEF Shapes, Covered
    <1>1. Cur.hasSnap \/ Clean(Cur) = {} \/ (ns[Cur.path] = "file" /\ Cur.path # "")
        <2>1. CASE Cur.path = "" BY <1>0, <2>1 DEF Based
        <2>2. CASE Lost(Cur.path) BY <1>0, <2>2 DEF Based
        <2>3. CASE Cur.path # "" /\ ~Lost(Cur.path)
            <3>1. Cur.path \in tracked \cup (IF dir.pc = "states" THEN {dir.src} ELSE {}) BY <1>0, <2>3 DEF Under, Cur
            <3>2. CASE dir.pc \in {"idle", "hub"}
                <4>1. Filed = tracked BY <1>0, <3>2 DEF Named
                <4> QED BY <2>3, <3>1, <3>2, <4>1 DEF Filed
            <3>3. CASE dir.pc = "handles"
                <4>1. dir.kind = "unlink" BY <1>0, <3>3 DEF Named, Renaming
                <4>2. dir.src = dir.dst /\ Moves = dir.src BY <1>0, <3>3, <4>1 DEF Removing, Moves
                <4>3. Filed = tracked \ {dir.src} BY <1>0, <3>3, <4>1, <4>2 DEF Named
                <4>4. Cur.path # dir.src BY <2>3, <3>3, <4>2 DEF Lost
                <4> QED BY <2>3, <3>1, <3>3, <4>3, <4>4 DEF Filed
            <3>4. CASE dir.pc = "states"
                <4>1. Filed = tracked BY <1>0, <3>4 DEF Named
                <4>2. Cur.path \in tracked
                    <5>1. CASE Cur.path \in tracked \cup {""} BY <2>3, <5>1
                    <5>2. CASE ~Renaming
                        <6>1. dir.kind = "unlink" BY <1>0, <3>4, <5>2 DEF Named, Renaming
                        <6>2. dir.src = dir.dst BY <1>0, <3>4, <6>1 DEF Removing
                        <6> QED BY <2>3, <3>1, <3>4, <6>2 DEF Lost
                    <5> QED BY <3>4, <5>1, <5>2
                <4> QED BY <2>3, <4>1, <4>2 DEF Filed
            <3>5. dir.pc \in {"idle", "hub", "handles", "states"} BY <1>0 DEF Named
            <3> QED BY <3>2, <3>3, <3>4, <3>5
        <2> QED BY <2>1, <2>2, <2>3
    <1>2. CASE Cur.hasSnap BY <1>0, <1>2 DEF Cover, Good, Sound, Backed, BaseOf
    <1>3. CASE Clean(Cur) = {} BY <1>3 DEF Backed, Agrees
    <1>4. CASE ns[Cur.path] = "file" /\ Cur.path # ""
        <2>1. Content(Cur.path) = File BY <1>4 DEF Content, Reached, File
        <2>2. Agrees(Cur, File, app.bytes) BY <1>0 DEF Cover, Good
        <2> QED BY <1>2, <2>1, <2>2 DEF Backed, BaseOf
    <1> QED BY <1>1, <1>2, <1>3, <1>4

\* Only h moves, and stays where it is open.
Keeps(h) ==
    /\ \A g \in Handles \ {h} : handle'[g] = handle[g]
    /\ HandleFields \subseteq DOMAIN handle'[h]
    /\ handle'[h].slot = handle[h].slot /\ handle'[h].path = handle[h].path
\* Only h moves, and the overlay of the current slot changes.
Stands(h) ==
    /\ UNCHANGED <<ns, current, dir, tracked, mounted, recovery>>
    /\ \A s \in Slots \ {current} : states'[s] = states[s]
    /\ Keeps(h)
Passed(x) == x.pc \in {"trim", "finish"}

LEMMA Handling ==
    ASSUME PathInv, DataInv, NEW h \in Handles, handle[h].slot = current, current # 0, Stands(h),
           handle[h].pc # "saving", \A g \in Handles \ {h} : handle[g].pc \notin Sync,
           Cover(Cur', File', app', mode'["file"], Passed(handle'[h])),
           Based(Cur', Lost(Cur.path), dir.pc = "hub", Passed(handle'[h])),
           Cur'.made, Cur'.path = Cur.path, Cur'.deleted = Cur.deleted, Cur'.poisoned = Cur.poisoned,
           File' \in Seq(Int), app'.bytes \in Seq(Int), app' = [bytes |-> app'.bytes, mode |-> app'.mode],
           left' \in Budget,
           Cur'.closed => handle'[h].pc = "saving" \/ (handle'[h].pc # "saving" /\ Cur.closed),
           handle'[h].pc \in Stages, handle'[h].pc \in {"failed", "saving"} => handle'[h].failed,
           Bound(handle'[h], Cur', File', app'.bytes),
           Uncommitted(Cur') /\ Filed # {} =>
              Cares(handle'[h], current) \/ \E g \in Handles \ {h} : Cares(handle[g], current)
    PROVE  DataInv'
    <1> USE DEF Stands, Keeps
    <1>0. Typed /\ Nameless /\ Staged /\ Placed /\ Pending /\ Recovered /\ Removing /\ current \in Slots
        BY Facts, Sourced
    <1>1. Filed' = Filed BY DEF Filed
    <1>2. Past' <=> Passed(handle'[h])
        <2>1. \A g \in Handles \ {h} : ~(handle'[g].pc \in {"trim", "finish"})
            BY DEF Sync
        <2> QED BY <2>1 DEF Past, Passed
    <1>3. Typed'
        <2>1. \A s \in Slots : DataFields \subseteq DOMAIN states'[s] /\ Sized(states'[s])
            BY <1>0 DEF Typed, Cover, Good, Cur
        <2> QED BY <2>1 DEF Typed
    <1>4. Covered' BY <1>2 DEF Covered, Cover, Based, Lost
    <1>5. Unmade' BY DEF Unmade
    <1>6. Grounded' BY DEF Grounded
    <1>7. Cared' BY <1>1 DEF Cared
    <1>8. Nameless' BY <1>0, <1>1 DEF Nameless
    <1>9. Staged'
        <2>1. ~Cur'.poisoned BY <1>0 DEF Staged
        <2>2. ASSUME Cur'.closed PROVE \E g \in Handles : handle'[g].pc = "saving"
            <3>1. CASE handle'[h].pc = "saving" BY <3>1
            <3>2. CASE Cur.closed
                <4>1. PICK g \in Handles : handle[g].pc = "saving" BY <1>0, <3>2 DEF Staged
                <4> QED BY <4>1
            <3> QED BY <2>2, <3>1, <3>2
        <2> QED BY <2>1, <2>2 DEF Staged
    <1>10. Placed'
        <2>1. ASSUME NEW g \in Handles \ {h} PROVE Place(handle'[g], Filed', current', Cur'.made)
            BY <1>0, <1>1 DEF Placed, Place
        <2>2. Place(handle'[h], Filed', current', Cur'.made) BY <1>0, <1>1 DEF Placed, Place
        <2> QED BY <2>1, <2>2 DEF Placed
    <1>11. Pending'
        <2>1. \A g \in Handles \ {h} : Bound(handle'[g], Cur', File', app'.bytes) BY NoSync
        <2> QED BY <2>1 DEF Pending
    <1>12. Recovered' BY <1>0 DEF Recovered
    <1>13. Removing' BY <1>0 DEF Removing
    <1> QED BY <1>3, <1>4, <1>5, <1>6, <1>7, <1>8, <1>9, <1>10, <1>11, <1>12, <1>13 DEF DataInv

\* Only h moves, and it does not commit.
LEMMA Passing ==
    ASSUME PathInv, DataInv, NEW h \in Handles, handle[h].pc \notin Sync, handle'[h].pc \notin Sync,
           UNCHANGED <<ns, current, dir, tracked, mounted, recovery>>, UNCHANGED <<stored, mode, app, left>>,
           Keeps(h),
           handle[h].pc # "making", handle'[h].pc # "making", handle[h].pc # "saving", handle'[h].pc # "saving",
           \A s \in Slots : states'[s] = states[s],
           handle'[h].pc \in Stages, handle'[h].pc = "failed" => handle'[h].failed,
           current # 0 /\ Cur.made /\ Cares(handle[h], current) /\ Uncommitted(Cur) /\ Filed # {} =>
              \E g \in Handles : Cares(handle'[g], current)
    PROVE  DataInv'
    <1> USE DEF Keeps
    <1>0. /\ Typed /\ Covered /\ Unmade /\ Grounded /\ Cared /\ Nameless /\ Staged /\ Placed /\ Pending
          /\ Recovered /\ Removing /\ (current # 0 => current \in Slots)
        BY Facts, Sourced
    <1>1. Filed' = Filed /\ File' = File /\ (current # 0 => Cur' = Cur) BY <1>0 DEF Filed, Cur, File
    <1>2. Past' <=> Past BY DEF Past, Sync
    <1>3. Typed' BY <1>0, <1>1 DEF Typed
    <1>4. Covered' BY <1>0, <1>1, <1>2 DEF Covered, Lost
    <1>5. Unmade' BY <1>0, <1>1 DEF Unmade, Reached, Lost
    <1>6. Grounded' BY <1>0, <1>1 DEF Grounded, Landed
    <1>7. Cared'
        <2> SUFFICES ASSUME current # 0, Cur.made, Uncommitted(Cur), Filed # {}
                     PROVE  \E g \in Handles : Cares(handle'[g], current)
            BY <1>1 DEF Cared
        <2>1. PICK g \in Handles : Cares(handle[g], current) BY <1>0 DEF Cared
        <2> QED BY <2>1
    <1>8. Nameless' BY <1>0, <1>1 DEF Nameless
    <1>9. Staged'
        <2>1. \A g \in Handles : handle[g].pc = "saving" => handle'[g].pc = "saving" OBVIOUS
        <2> QED BY <1>0, <1>1, <2>1 DEF Staged
    <1>10. Placed'
        <2>1. ASSUME NEW g \in Handles \ {h} PROVE Place(handle'[g], Filed', current', Cur'.made)
            <3>1. Place(handle[g], Filed, current, Cur.made) BY <1>0 DEF Placed
            <3> QED BY <1>1, <3>1 DEF Place
        <2>2. Place(handle'[h], Filed', current', Cur'.made) BY <1>0, <1>1 DEF Placed, Place
        <2> QED BY <2>1, <2>2 DEF Placed
    <1>11. Pending'
        <2>1. ASSUME NEW g \in Handles \ {h} PROVE Bound(handle'[g], Cur', File', app'.bytes)
            <3>1. CASE handle[g].pc \notin Sync BY <3>1, NoSync
            <3>2. CASE handle[g].pc \in Sync
                <4>1. handle[g].slot = current /\ handle[g].slot \in Slots BY <3>2, Roles DEF Sync
                <4>2. Cur' = Cur BY <1>1, <4>1, Mounts
                <4>3. Bound(handle[g], Cur, File, app.bytes) BY <1>0 DEF Pending
                <4> QED BY <1>1, <4>2, <4>3
            <3> QED BY <3>1, <3>2
        <2>2. Bound(handle'[h], Cur', File', app'.bytes) BY NoSync
        <2> QED BY <2>1, <2>2 DEF Pending
    <1>12. Recovered' BY <1>0 DEF Recovered
    <1>13. Removing' BY <1>0 DEF Removing
    <1> QED BY <1>3, <1>4, <1>5, <1>6, <1>7, <1>8, <1>9, <1>10, <1>11, <1>12, <1>13 DEF DataInv

-----------------------------------------------------------------------------
(* Data calls.                                                             *)

Sealed == {"regrow", "tail", "pages", "snapshot", "partial", "closetwice", "late", "materialize", "join",
           "rename", "takeover"} \cap Races = {}

LEMMA Hollow == \A d : Span(0, 0) \ d = {}
    <1>1. \A b \in Span(0, 0) : FALSE BY DEF Span
    <1> QED BY <1>1

LEMMA Called ==
    ASSUME PathInv, DataInv, NEW h \in Handles, handle[h].pc \in {"open", "trunc"}, State(h).held = "",
           ~State(h).poisoned
    PROVE  /\ handle[h].slot = current /\ current # 0 /\ State(h) = Cur /\ Cur.made
           /\ \A g \in Handles : handle[g].pc \notin Sync
           /\ Cover(Cur, File, app, mode["file"], FALSE) /\ Based(Cur, Lost(Cur.path), dir.pc = "hub", FALSE)
           /\ HandleFields \subseteq DOMAIN handle[h] /\ DOMAIN handle = Handles /\ DOMAIN states = Slots
           /\ current \in Slots
    <1>1. handle[h].slot = current /\ DOMAIN handle = Handles /\ DOMAIN states = Slots /\ handle[h].slot \in Slots
        BY Roles
    <1>2. current # 0 /\ State(h) = Cur BY <1>1, Mounts DEF State, Cur
    <1>3. Placed /\ Covered BY Facts
    <1>4. Cur.made /\ HandleFields \subseteq DOMAIN handle[h] BY <1>1, <1>2, <1>3 DEF Placed, Place
    <1>5. \A g \in Handles \ {""} : handle[g].pc \notin Sync BY <1>2, Only
    <1>6. \A g \in Handles : handle[g].pc \notin Sync BY <1>5, Mounts
    <1>7. ~Past BY <1>6 DEF Past, Sync
    <1> QED BY <1>1, <1>2, <1>3, <1>4, <1>6, <1>7 DEF Covered, Cover, Based

LEMMA Calling ==
    ASSUME PathInv, DataInv, NEW h \in Handles, handle[h].pc \in {"open", "trunc"}, State(h).held = "",
           ~State(h).poisoned,
           NEW w2, NEW bytes2, Turned(Cur, app.bytes, w2, bytes2), ~(w2.half /\ w2.size = w2.base),
           w2.hasSnap # Cur.hasSnap => dir.pc # "hub",
           NEW m, m = IF w2.pending = 0 THEN mode["file"] ELSE w2.pending,
           states' = [states EXCEPT ![handle[h].slot] = w2], app' = [bytes |-> bytes2, mode |-> m],
           Keeps(h), handle'[h].pc = "open", left' \in Budget,
           UNCHANGED <<ns, stored, mode, current, dir, tracked, recovery, mounted>>
    PROVE  DataInv'
    <1>1. /\ handle[h].slot = current /\ current # 0 /\ State(h) = Cur /\ Cur.made
          /\ \A g \in Handles : handle[g].pc \notin Sync
          /\ Cover(Cur, File, app, mode["file"], FALSE) /\ Based(Cur, Lost(Cur.path), dir.pc = "hub", FALSE)
          /\ HandleFields \subseteq DOMAIN handle[h] /\ DOMAIN handle = Handles /\ DOMAIN states = Slots
          /\ current \in Slots
        BY Called
    <1>2. Cur' = w2 /\ File' = File BY <1>1 DEF Cur, File
    <1>3. \A x \in Still : w2[x] = Cur[x] BY DEF Turned
    <1>4. Good(w2, File, bytes2) BY <1>1, Turning DEF Cover
    <1>5. Cover(Cur', File', app', mode'["file"], FALSE)
        <2>1. FitsIn(w2, File) BY <1>1, <1>3 DEF Cover, FitsIn, Still
        <2> QED BY <1>2, <1>4, <2>1 DEF Cover
    <1>6. Based(Cur', Lost(Cur.path), dir.pc = "hub", FALSE)
        <2>1. Cur.hasSnap /\ ~w2.hasSnap => Clean(w2) = {}
            <3>1. Cur.hasSnap /\ ~w2.hasSnap => w2.size = 0 BY DEF Turned
            <3>2. w2.size = 0 => Clean(w2) = {} BY Hollow DEF Clean
            <3> QED BY <3>1, <3>2
        <2>2. Clean(Cur) = {} => Clean(w2) = {} BY DEF Turned
        <2> QED BY <1>1, <1>2, <1>3, <2>1, <2>2 DEF Based, Still
    <1>9. Stands(h) BY <1>1 DEF Stands
    <1>10. /\ Cur'.made /\ Cur'.path = Cur.path /\ Cur'.deleted = Cur.deleted /\ Cur'.poisoned = Cur.poisoned
           /\ Cur'.closed = Cur.closed
        BY <1>1, <1>2, <1>3 DEF Still
    <1>11. bytes2 \in Seq(Int) /\ File' \in Seq(Int)
        <2>1. w2.size \in Nat /\ bytes2 \in Image(w2.size) BY DEF Turned, Sized
        <2> QED BY <1>2, <2>1, Images, Facts DEF Typed
    <1>12. Bound(handle'[h], Cur', File', app'.bytes) BY NoSync DEF Sync
    <1>13. Cares(handle'[h], current) BY <1>1 DEF Cares, Resp, Keeps
    <1>14. ~Passed(handle'[h]) /\ handle'[h].pc \in Stages /\ handle'[h].pc \notin {"saving", "failed"}
           /\ handle[h].pc # "saving"
        BY DEF Passed, Stages
    <1>15. Cover(Cur', File', app', mode'["file"], Passed(handle'[h])) BY <1>5, <1>14 DEF Cover
    <1>16. Based(Cur', Lost(Cur.path), dir.pc = "hub", Passed(handle'[h])) BY <1>6, <1>14 DEF Based
    <1>17. app'.bytes \in Seq(Int) /\ app' = [bytes |-> app'.bytes, mode |-> app'.mode] BY <1>11
    <1> QED BY <1>1, <1>9, <1>10, <1>11, <1>12, <1>13, <1>14, <1>15, <1>16, <1>17, Handling

\* A call that changes the data.
LEMMA Altering ==
    ASSUME PathInv, DataInv, Sealed, NEW h \in Handles, Serving(h),
           NEW w2, NEW wish, Change(h, w2, wish),
           Turned(Cur, app.bytes, w2, wish.bytes), w2.hasSnap # Cur.hasSnap => dir.pc # "hub",
           wish = [bytes |-> wish.bytes, mode |-> wish.mode],
           \/ w2.pending = Cur.pending /\ wish.mode = app.mode
           \/ w2.pending # 0 /\ wish.mode = w2.pending
    PROVE  DataInv'
    <1>1. handle[h].pc = "open" /\ State(h).held = "" /\ ~State(h).poisoned BY DEF Serving
    <1>2. Cover(Cur, File, app, mode["file"], FALSE) BY <1>1, Called
    <1>3. ~(w2.half /\ w2.size = w2.base) /\ Spend("data") BY DEF Change, Sealed, Racing
    <1>4. left' \in Budget BY <1>3, Facts, Spent DEF Typed
    <1>5. wish.mode = IF w2.pending = 0 THEN mode["file"] ELSE w2.pending BY <1>2 DEF Cover
    <1>6. Keeps(h) /\ handle'[h].pc = "open" BY <1>1, Called DEF Change, Keeps
    <1>7. /\ states' = [states EXCEPT ![handle[h].slot] = w2] /\ app' = [bytes |-> wish.bytes, mode |-> wish.mode]
          /\ UNCHANGED <<ns, stored, mode, current, dir, tracked, recovery, mounted>>
        BY DEF Change, storeVars
    <1> QED BY <1>1, <1>3, <1>4, <1>5, <1>6, <1>7, Calling

LEMMA DataKept ==
    ASSUME PathInv, DataInv, Sealed, NEW h \in Handles,
           \/ \E x \in Writes : Write(h, x[1], x[2])
           \/ \E n \in Sizes : SetSize(h, n) \/ Allocate(h, n)
           \/ StageMode(h)
    PROVE  DataInv'
    <1>1. Serving(h) BY DEF Write, SetSize, Allocate, StageMode
    <1>2. /\ State(h) = Cur /\ Cover(Cur, File, app, mode["file"], FALSE) /\ current # 0 /\ Cur.made
        BY <1>1, Called DEF Serving
    <1>3. /\ Good(Cur, File, app.bytes) /\ app.bytes \in Seq(Int) /\ app = [bytes |-> app.bytes, mode |-> app.mode]
          /\ left \in Budget
        BY <1>2, Facts DEF Cover, Typed
    <1>a. \A b : [app EXCEPT !.bytes = b] = [bytes |-> b, mode |-> app.mode] BY <1>3
    <1>4. ASSUME NEW x \in Writes, Write(h, x[1], x[2]) PROVE DataInv'
        <2> DEFINE data == [i \in 1..x[2] |-> left.data]
                   w2 == Written(Cur, Content(Cur.path), x[1], data)
                   wish == [app EXCEPT !.bytes = WriteAt(@, x[1], data)]
        <2>1. x[1] \in Nat /\ x[2] \in Nat BY FuseAssumption
        <2>2. data \in Seq(Int)
            <3>1. left.data \in Int BY <1>3 DEF Budget
            <3> QED BY <2>1, <3>1, IsASeq
        <2>3. Backed(Cur, Content(Cur.path), app.bytes)
            <3>1. ~Renaming BY <1>1 DEF Serving, Quiet, Sealed, Racing
            <3> QED BY <1>2, <3>1, Reads
        <2>4. Change(h, w2, wish) BY <1>2, <1>4 DEF Write
        <2> DEFINE to == WriteAt(app.bytes, x[1], data)
        <2>6. wish = [bytes |-> to, mode |-> app.mode] BY <1>a
        <2> HIDE DEF data
        <2>5. /\ Turned(Cur, app.bytes, w2, to) /\ w2.pending = Cur.pending
              /\ w2.hasSnap = Cur.hasSnap
            BY <1>3, <2>1, <2>2, <2>3, Wrote
        <2> HIDE DEF w2, wish, to
        <2> QED BY <1>1, <2>4, <2>5, <2>6, Altering
    <1>5. ASSUME NEW n \in Sizes, SetSize(h, n) PROVE DataInv'
        <2> DEFINE w2 == Resized(Cur, n)
                   wish == [app EXCEPT !.bytes = Resize(@, n)]
                   to == Resize(app.bytes, n)
        <2>1. n \in Nat BY FuseAssumption
        <2>2. n = 0 => dir.pc # "hub" BY <1>5, <2>1 DEF SetSize, Sealed, Racing
        <2>3. ~Regrows(Cur, n) BY <1>2, <1>5 DEF SetSize, Sealed, Racing
        <2>4. Change(h, w2, wish) BY <1>2, <1>5 DEF SetSize
        <2>5. wish = [bytes |-> to, mode |-> app.mode] BY <1>a
        <2>6. /\ Turned(Cur, app.bytes, w2, to) /\ w2.pending = Cur.pending
              /\ n # 0 => w2.hasSnap = Cur.hasSnap
            BY <1>3, <2>1, <2>3, Truncated
        <2> HIDE DEF w2, wish, to
        <2> QED BY <1>1, <2>2, <2>4, <2>5, <2>6, Altering
    <1>6. ASSUME NEW n \in Sizes, Allocate(h, n) PROVE DataInv'
        <2> DEFINE w2 == Allocated(Cur, n)
                   wish == [app EXCEPT !.bytes = Resize(@, n)]
                   to == Resize(app.bytes, n)
        <2>1. n \in Nat BY FuseAssumption
        <2>3. n > Cur.size BY <1>2, <1>6 DEF Allocate
        <2>4. Change(h, w2, wish) BY <1>2, <1>6 DEF Allocate
        <2>5. wish = [bytes |-> to, mode |-> app.mode] BY <1>a
        <2>6. /\ Turned(Cur, app.bytes, w2, to) /\ w2.pending = Cur.pending /\ w2.hasSnap = Cur.hasSnap
            BY <1>3, <2>1, <2>3, Extended
        <2> HIDE DEF w2, wish, to
        <2> QED BY <1>1, <2>4, <2>5, <2>6, Altering
    <1>7. ASSUME StageMode(h) PROVE DataInv'
        <2> DEFINE w2 == [Cur EXCEPT !.pending = left.data]
                   wish == [app EXCEPT !.mode = left.data]
        <2>1. Change(h, w2, wish) BY <1>2, <1>7 DEF StageMode
        <2>2. left.data # 0
            <3>1. Spend("data") BY <2>1 DEF Change
            <3>2. left["data"] \in Nat /\ left["data"] > 0 BY <1>3, <3>1, Spent
            <3> QED BY <3>2
        <2>3. wish = [bytes |-> app.bytes, mode |-> left.data] BY <1>3
        <2>4. /\ DataFields \subseteq DOMAIN w2 /\ w2.pending = left.data
              /\ \A y \in DataFields \ {"pending"} : w2[y] = Cur[y]
            BY <1>3 DEF Good, DataFields
        <2>5. Turned(Cur, app.bytes, w2, app.bytes) /\ w2.hasSnap = Cur.hasSnap
            <3> HIDE DEF w2
            <3>1. \A y \in Still \cup {"temp", "size", "dirty", "auth", "snap", "hasSnap"} : w2[y] = Cur[y]
                BY <2>4 DEF Still, DataFields
            <3>2. /\ w2.temp = Cur.temp /\ w2.size = Cur.size /\ w2.dirty = Cur.dirty /\ w2.auth = Cur.auth
                  /\ w2.snap = Cur.snap /\ w2.hasSnap = Cur.hasSnap /\ w2.base = Cur.base
                BY <3>1 DEF Still
            <3>3. Clean(w2) = Clean(Cur) BY <3>2 DEF Clean
            <3>4. Sized(w2) BY <1>3, <3>2 DEF Good, Sized
            <3> QED BY <1>3, <2>4, <3>1, <3>2, <3>3, <3>4 DEF Good, Sound, Turned
        <2> HIDE DEF w2, wish
        <2> QED BY <1>1, <2>1, <2>2, <2>3, <2>4, <2>5, Altering
    <1> QED BY <1>4, <1>5, <1>6, <1>7

LEMMA TruncateKept ==
    ASSUME PathInv, DataInv, Sealed, NEW h \in Handles, TruncateOpen(h)
    PROVE  DataInv'
    <1>1. handle[h].pc = "trunc" /\ State(h).held = "" BY DEF TruncateOpen
    <1>2. /\ UNCHANGED <<ns, stored, mode, current, dir, tracked, recovery, mounted, left>>
          /\ handle' = [handle EXCEPT ![h].pc = "open"]
        BY DEF TruncateOpen, storeVars
    <1>3. CASE State(h).poisoned
        <2>1. handle[h].slot # current \/ current = 0
            BY <1>3, Facts DEF Staged, State, Cur
        <2>2. /\ DOMAIN handle = Handles /\ DOMAIN states = Slots /\ handle[h].slot \in Slots
              /\ HandleFields \subseteq DOMAIN handle[h]
            BY <1>1, Roles, Facts DEF Placed, Place
        <2>3. (\A s \in Slots : states'[s] = states[s]) /\ app' = app BY <1>3, <2>2 DEF TruncateOpen, State
        <2>4. /\ handle'[h].pc = "open" /\ handle'[h].slot = handle[h].slot /\ handle'[h].path = handle[h].path
              /\ HandleFields \subseteq DOMAIN handle'[h] /\ \A g \in Handles \ {h} : handle'[g] = handle[g]
            BY <1>2, <2>2 DEF HandleFields
        <2>a. Keeps(h) BY <2>4 DEF Keeps
        <2>5. handle[h].pc \notin Sync /\ handle'[h].pc \notin Sync /\ handle'[h].pc \in Stages
            BY <1>1, <2>4 DEF Sync, Stages
        <2>6. current # 0 => ~Cares(handle[h], current) BY <2>1 DEF Cares
        <2> QED BY <1>1, <1>2, <2>3, <2>a, <2>4, <2>5, <2>6, Passing
    <1>4. CASE ~State(h).poisoned
        <2>1. /\ State(h) = Cur /\ Cover(Cur, File, app, mode["file"], FALSE)
              /\ DOMAIN states = Slots /\ handle[h].slot = current /\ current \in Slots
            BY <1>1, <1>4, Called
        <2>2. /\ Good(Cur, File, app.bytes) /\ app = [bytes |-> app.bytes, mode |-> app.mode] /\ left \in Budget
            BY <2>1, Facts DEF Cover, Typed
        <2> DEFINE w2 == Resized(Cur, 0)
                   to == Resize(app.bytes, 0)
        <2>3. Turned(Cur, app.bytes, w2, to) /\ w2.pending = Cur.pending BY <2>2, Truncated
        <2>4. to = <<>> BY DEF Resize
        <2>5. app' = [bytes |-> to, mode |-> app.mode] BY <1>4, <2>2, <2>4 DEF TruncateOpen
        <2>6. states' = [states EXCEPT ![handle[h].slot] = w2] BY <1>4, <2>1 DEF TruncateOpen, State, Cur
        <2>7. dir.pc # "hub" BY DEF TruncateOpen, Sealed, Racing
        <2>8. w2.size = 0 BY DEF Resized, WithSize
        <2> HIDE DEF w2, to
        <2>9. ~(w2.half /\ w2.size = w2.base)
            <3> SUFFICES ASSUME w2.half, w2.base = 0 PROVE FALSE BY <2>8
            <3>1. Cur.half /\ Cur.base = 0 BY <2>3 DEF Turned, Still
            <3>2. Odd(Cur) /\ Cur.size \in Nat /\ Cur.dirty \subseteq Span(0, Cur.size) BY <2>2, <3>1 DEF Good, Sized
            <3>3. \A d \in Cur.dirty : d >= 0 BY <3>2 DEF Span
            <3> QED BY <3>1, <3>2, <3>3 DEF Odd, Span
        <2>10. app.mode = IF w2.pending = 0 THEN mode["file"] ELSE w2.pending BY <2>1, <2>3 DEF Cover
        <2>11. left' \in Budget BY <1>2, <2>2
        <2>12. Keeps(h) /\ handle'[h].pc = "open"
            <3>1. DOMAIN handle = Handles /\ HandleFields \subseteq DOMAIN handle[h] BY <1>1, <1>4, Called
            <3>2. handle'[h] = [handle[h] EXCEPT !.pc = "open"] BY <1>2, <3>1
            <3> QED BY <1>2, <3>1, <3>2 DEF Keeps, HandleFields
        <2> QED BY <1>1, <1>2, <1>4, <2>3, <2>5, <2>6, <2>7, <2>9, <2>10, <2>11, <2>12, Calling
    <1> QED BY <1>3, <1>4

-----------------------------------------------------------------------------
(* Commits.                                                                *)

Lots == {"held", "closed", "refs"}
\* What the handles have of an overlay may differ.
Alike(u, w) ==
    /\ DataFields \subseteq DOMAIN u /\ DataFields \subseteq DOMAIN w
    /\ \A x \in DataFields \ Lots : u[x] = w[x]

LEMMA Same ==
    ASSUME NEW u, NEW w, Alike(u, w)
    PROVE  /\ u.path = w.path /\ u.deleted = w.deleted /\ u.poisoned = w.poisoned /\ u.made = w.made
           /\ u.base = w.base /\ u.size = w.size /\ u.dirty = w.dirty /\ u.temp = w.temp /\ u.auth = w.auth
           /\ u.hasSnap = w.hasSnap /\ u.snap = w.snap /\ u.pending = w.pending /\ u.half = w.half
    BY DEF Alike, DataFields, Lots

PlannedOf(b, d) ==
    UNION {Span(IF r[1] < b THEN ChunkFloor(r[1]) ELSE r[1],
                IF r[2] < b THEN Larger(r[2], Smaller(ChunkCeil(r[2]), b)) ELSE r[2])
             : r \in Ranges(d)}
TailOf(b, d) == {c \in d : c \div ChunkSize = (b - 1) \div ChunkSize}

LEMMA AlikePlans ==
    ASSUME NEW u, NEW w, Alike(u, w), Tidy(w)
    PROVE  Tidy(u)
    <1>0. u.base = w.base /\ u.size = w.size /\ u.dirty = w.dirty /\ u.hasSnap = w.hasSnap BY Same
    <1>1. \A v : Planned(v) = PlannedOf(v.base, v.dirty) BY DEF Planned, PlannedOf
    <1>2. Planned(u) = Planned(w) BY <1>0, <1>1
    <1>3. ShouldChunkRewrite(u) <=> ShouldChunkRewrite(w) BY <1>0, <1>2 DEF ShouldChunkRewrite, FileSize
    <1>4. ShouldReplace(u) <=> ShouldReplace(w) BY <1>0, <1>2 DEF ShouldReplace, FileSize
    <1>5. \A v : Torn(v) <=> /\ ShouldChunkRewrite(v) /\ TailOf(v.base, v.dirty) # {}
                             /\ \A b \in TailOf(v.base, v.dirty) : b >= v.base
        BY DEF Torn, TailOf
    <1>6. Torn(u) <=> Torn(w) BY <1>0, <1>3, <1>5
    <1>7. Near(u) <=> Near(w) BY <1>0 DEF Near
    <1> QED BY <1>0, <1>3, <1>4, <1>6, <1>7 DEF Tidy, Mends

LEMMA AlikeCovers ==
    ASSUME NEW u, NEW w, Alike(u, w), NEW file, NEW a, NEW m, NEW past, Cover(w, file, a, m, past)
    PROVE  Cover(u, file, a, m, past)
    <1>0. /\ u.base = w.base /\ u.size = w.size /\ u.dirty = w.dirty /\ u.temp = w.temp /\ u.auth = w.auth
          /\ u.hasSnap = w.hasSnap /\ u.snap = w.snap /\ u.pending = w.pending /\ u.half = w.half
          /\ DataFields \subseteq DOMAIN u
        BY Same DEF Alike
    <1>1. Clean(u) = Clean(w) BY <1>0 DEF Clean
    <1>2. Good(u, file, a.bytes)
        <2>1. \A g : Agrees(u, g, a.bytes) <=> Agrees(w, g, a.bytes) BY <1>1 DEF Agrees
        <2>2. Good(w, file, a.bytes) BY DEF Cover
        <2>3. Sized(u) /\ (u.half => Odd(u)) BY <1>0, <2>2 DEF Good, Sized, Odd
        <2>4. Sound(u, a.bytes) BY <1>0, <2>1, <2>2 DEF Good, Sound
        <2> QED BY <1>0, <2>1, <2>2, <2>3, <2>4 DEF Good
    <1>3. FitsIn(u, file) <=> FitsIn(w, file) BY <1>0 DEF FitsIn
    <1> QED BY <1>0, <1>2, <1>3 DEF Cover

LEMMA AlikeBased ==
    ASSUME NEW u, NEW w, Alike(u, w), NEW lost, NEW hub, NEW past, Based(w, lost, hub, past)
    PROVE  Based(u, lost, hub, past)
    <1>0. u.path = w.path /\ u.size = w.size /\ u.dirty = w.dirty /\ u.hasSnap = w.hasSnap BY Same
    <1>1. Clean(u) = Clean(w) BY <1>0 DEF Clean
    <1> QED BY <1>0, <1>1 DEF Based

LEMMA AlikeBound ==
    ASSUME NEW u, NEW w, Alike(u, w), NEW x, NEW file, NEW bytes, Bound(x, w, file, bytes)
    PROVE  Bound(x, u, file, bytes)
    <1>0. /\ u.path = w.path /\ u.base = w.base /\ u.size = w.size /\ u.dirty = w.dirty
          /\ u.hasSnap = w.hasSnap /\ u.pending = w.pending
        BY Same
    <1>1. Clean(u) = Clean(w) BY <1>0 DEF Clean
    <1>2. Tidy(w) => Tidy(u) BY AlikePlans
    <1>3. \A v : Sendable(v, u) <=> Sendable(v, w) BY <1>0 DEF Sendable, Odd
    <1>4. \A v, g : Exact(v, g, u, bytes) <=> Exact(v, g, w, bytes) BY <1>1 DEF Exact, Agrees
    <1> QED BY <1>0, <1>2, <1>3, <1>4 DEF Bound

LEMMA AlikeDone ==
    ASSUME NEW u, NEW w, Alike(u, w)
    PROVE  Uncommitted(u) <=> Uncommitted(w)
    BY Same DEF Uncommitted, HasPending

\* h moves and nothing of the overlay does, but what the handles have of it.
LEMMA Shifting ==
    ASSUME PathInv, DataInv, NEW h \in Handles, handle[h].slot = current, current # 0, Cur.made, Stands(h),
           handle[h].pc # "saving", \A g \in Handles \ {h} : handle[g].pc \notin Sync,
           UNCHANGED <<stored, mode, app>>, left' \in Budget, Alike(Cur', Cur),
           Passed(handle[h]) => Passed(handle'[h]),
           Based(Cur, Lost(Cur.path), dir.pc = "hub", Passed(handle'[h])), Bound(handle'[h], Cur, File, app.bytes),
           Cur'.closed => handle'[h].pc = "saving" \/ (handle'[h].pc # "saving" /\ Cur.closed),
           handle'[h].pc \in Stages, handle'[h].pc \in {"failed", "saving"} => handle'[h].failed,
           Uncommitted(Cur) /\ Filed # {} =>
              Cares(handle'[h], current) \/ \E g \in Handles \ {h} : Cares(handle[g], current)
    PROVE  DataInv'
    <1>0. Covered /\ Typed /\ UNCHANGED dir BY Facts DEF Stands
    <1>1. Past <=> Passed(handle[h])
        <2>1. \A g \in Handles \ {h} : ~(handle[g].pc \in {"trim", "finish"}) BY DEF Sync
        <2> QED BY <2>1 DEF Past, Passed
    <1>2. File' = File BY DEF File
    <1>3. Cover(Cur, File, app, mode["file"], Passed(handle'[h])) BY <1>0, <1>1 DEF Covered, Cover
    <1>4. Cover(Cur', File', app', mode'["file"], Passed(handle'[h]))
        <2>1. Cover(Cur', File, app, mode["file"], Passed(handle'[h])) BY <1>3, AlikeCovers
        <2> QED BY <1>2, <2>1
    <1>5. Based(Cur', Lost(Cur.path), dir.pc = "hub", Passed(handle'[h])) BY AlikeBased
    <1>6. Bound(handle'[h], Cur', File', app'.bytes)
        <2>1. Bound(handle'[h], Cur', File, app.bytes) BY AlikeBound
        <2> QED BY <1>2, <2>1
    <1>7. Uncommitted(Cur') <=> Uncommitted(Cur) BY AlikeDone
    <1>8. Cur'.made /\ Cur'.path = Cur.path /\ Cur'.deleted = Cur.deleted /\ Cur'.poisoned = Cur.poisoned
        BY Same
    <1>9. File' \in Seq(Int) /\ app'.bytes \in Seq(Int) /\ app' = [bytes |-> app'.bytes, mode |-> app'.mode]
        BY <1>0, <1>2 DEF Typed
    <1> QED BY <1>4, <1>5, <1>6, <1>7, <1>8, <1>9, Handling

\* The position of h is p.
LEMMA Posed ==
    ASSUME PathInv, NEW h \in Handles, NEW p, handle' = [handle EXCEPT ![h] = p],
           HandleFields \subseteq DOMAIN p, p.slot = handle[h].slot, p.path = handle[h].path
    PROVE  Keeps(h) /\ handle'[h] = p
    <1>1. DOMAIN handle = Handles BY Roles
    <1> QED BY <1>1 DEF Keeps

\* The overlay of h is u.
LEMMA Set ==
    ASSUME PathInv, NEW h \in Handles, handle[h].slot = current, current \in Slots, NEW u,
           states' = [states EXCEPT ![handle[h].slot] = u], current' = current
    PROVE  Cur' = u /\ \A s \in Slots \ {current} : states'[s] = states[s]
    <1>1. DOMAIN states = Slots BY Roles
    <1> QED BY <1>1 DEF Cur

LEMMA StartKept ==
    ASSUME PathInv, DataInv, Sealed, NEW h \in Handles, NEW why, CommitStart(h, why)
    PROVE  DataInv'
    <1> DEFINE w == State(h)
               nothing == ~Uncommitted(w) \/ w.deleted \/ handle[h].path = ""
               p == [handle[h] EXCEPT !.pc = "unlock", !.failed = w.poisoned]
               q == [handle[h] EXCEPT !.pc = "check", !.why = why, !.failed = FALSE, !.cpath = handle[h].path]
               u == [w EXCEPT !.held = h]
    <1>0. /\ handle[h].pc = "open" /\ State(h).held = ""
          /\ UNCHANGED <<ns, stored, mode, current, dir, tracked, recovery, mounted, app, left>>
        BY DEF CommitStart, storeVars
    <1>1. /\ HandleFields \subseteq DOMAIN handle[h] /\ DOMAIN handle = Handles /\ DOMAIN states = Slots
          /\ handle[h].slot \in Slots
        BY <1>0, Roles, Facts DEF Placed, Place
    <1>p. /\ HandleFields \subseteq DOMAIN p /\ p.slot = handle[h].slot /\ p.path = handle[h].path /\ p.pc = "unlock"
          /\ p.failed = w.poisoned
        BY <1>1 DEF HandleFields
    <1>q. /\ HandleFields \subseteq DOMAIN q /\ q.slot = handle[h].slot /\ q.path = handle[h].path /\ q.pc = "check"
        BY <1>1 DEF HandleFields
    <1>2. \/ (w.poisoned \/ nothing) /\ handle' = [handle EXCEPT ![h] = p] /\ states' = states
          \/ /\ ~w.poisoned /\ Known(w) /\ handle' = [handle EXCEPT ![h] = q]
             /\ states' = [states EXCEPT ![handle[h].slot].held = h]
        BY <1>1 DEF CommitStart
    <1>3. CASE (w.poisoned \/ nothing) /\ handle' = [handle EXCEPT ![h] = p] /\ states' = states
        <2>1. Keeps(h) /\ handle'[h] = p
            <3> HIDE DEF p
            <3> QED BY <1>3, <1>p, Posed
        <2>2. handle'[h].pc = "unlock" /\ handle'[h].pc \in Stages BY <1>p, <2>1 DEF Stages
        <2>3. ~(current # 0 /\ Cur.made /\ Cares(handle[h], current) /\ Uncommitted(Cur) /\ Filed # {})
            <3> SUFFICES ASSUME current # 0, Cares(handle[h], current), Uncommitted(Cur), Filed # {} PROVE FALSE
                OBVIOUS
            <3>1. handle[h].slot = current /\ w = Cur BY DEF Cares, State, Cur
            <3>2. ~Cur.poisoned BY Facts DEF Staged
            <3>3. ~Cur.deleted BY Facts DEF Nameless
            <3>4. handle[h].path # "" BY <3>1, Facts DEF Placed, Place
            <3> QED BY <1>3, <3>1, <3>2, <3>3, <3>4
        <2>4. handle[h].pc \notin Sync /\ handle'[h].pc \notin Sync BY <1>0, <2>2 DEF Sync
        <2> HIDE DEF p
        <2> QED BY <1>0, <1>3, <2>1, <2>2, <2>3, <2>4, Passing
    <1>4. CASE /\ ~w.poisoned /\ Known(w) /\ handle' = [handle EXCEPT ![h] = q]
               /\ states' = [states EXCEPT ![handle[h].slot].held = h]
        <2>1. /\ handle[h].slot = current /\ current # 0 /\ w = Cur /\ Cur.made /\ current \in Slots
              /\ \A g \in Handles : handle[g].pc \notin Sync
              /\ Cover(Cur, File, app, mode["file"], FALSE) /\ Based(Cur, Lost(Cur.path), dir.pc = "hub", FALSE)
            BY <1>0, <1>4, Called
        <2>2. Keeps(h) /\ handle'[h] = q
            <3> HIDE DEF q
            <3> QED BY <1>4, <1>q, Posed
        <2>3. Cur' = u /\ \A s \in Slots \ {current} : states'[s] = states[s]
            <3>1. states' = [states EXCEPT ![handle[h].slot] = u] BY <1>1, <1>4 DEF State
            <3> HIDE DEF u
            <3> QED BY <1>0, <2>1, <3>1, Set
        <2>4. Alike(Cur', Cur) /\ Cur'.closed = Cur.closed
            <3>1. DataFields \subseteq DOMAIN Cur BY <2>1 DEF Cover, Good
            <3> QED BY <2>1, <2>3, <3>1 DEF Alike, DataFields, Lots
        <2>5. Tidy(Cur)
            <3>1. /\ ~Torn(Cur) /\ ~Refused(Cur) /\ ~(Cur.hasSnap /\ Sent(Cur).kind = "patch")
                BY <1>4, <2>1 DEF Known, Sealed, Racing
            <3>2. Mends(Cur) => Sent(Cur).kind = "patch" BY DEF Mends, Sent, Plan, NoVerb
            <3>3. Sent(Cur).kind = "patch" => Near(Cur)
                <4> SUFFICES ASSUME Sent(Cur).kind = "patch", NEW r \in Ranges(Cur.dirty), NEW b \in Pages(r)
                             PROVE  b <= Cur.base
                    BY DEF Near
                <4>1. ~(b > Cur.base) BY <3>1 DEF Refused
                <4>2. b \in Int /\ Cur.base \in Int
                    <5>1. Sized(Cur) BY <2>1 DEF Cover, Good
                    <5> QED BY <5>1 DEF Pages, Span, Sized
                <4> QED BY <4>1, <4>2
            <3> QED BY <3>1, <3>2, <3>3 DEF Tidy
        <2>6. handle'[h].pc = "check" BY <1>q, <2>2
        <2>7. Bound(handle'[h], Cur, File, app.bytes) BY <2>5, <2>6 DEF Bound
        <2>8. Cares(handle'[h], current) BY <1>q, <2>1, <2>2 DEF Cares, Resp
        <2>9. ~Passed(handle'[h]) /\ ~Passed(handle[h]) /\ handle'[h].pc \in Stages BY <1>0, <2>6 DEF Passed, Stages
        <2>a. Based(Cur, Lost(Cur.path), dir.pc = "hub", Passed(handle'[h])) BY <2>1, <2>9 DEF Based
        <2>10. Stands(h) BY <1>0, <2>2, <2>3 DEF Stands
        <2>11. left' \in Budget BY <1>0, Facts DEF Typed
        <2> HIDE DEF q, u, w
        <2> QED BY <1>0, <2>1, <2>4, <2>6, <2>7, <2>8, <2>9, <2>a, <2>10, <2>11, Shifting
    <1> HIDE DEF p, q, nothing
    <1> QED BY <1>2, <1>3, <1>4

\* A handle that commits.
LEMMA Holder ==
    ASSUME PathInv, DataInv, NEW h \in Handles, handle[h].pc \in Sync
    PROVE  /\ handle[h].slot = current /\ current # 0 /\ current \in Slots /\ State(h) = Cur /\ Cur.made
           /\ Cur.held = h /\ ~Cur.poisoned /\ handle[h].pc # "saving"
           /\ \A g \in Handles \ {h} : handle[g].pc \notin Sync
           /\ Cover(Cur, File, app, mode["file"], Passed(handle[h]))
           /\ Based(Cur, Lost(Cur.path), dir.pc = "hub", Passed(handle[h]))
           /\ Bound(handle[h], Cur, File, app.bytes)
           /\ HandleFields \subseteq DOMAIN handle[h] /\ DOMAIN handle = Handles /\ DOMAIN states = Slots
           /\ DataFields \subseteq DOMAIN Cur /\ Sized(Cur)
    <1>1. /\ handle[h].slot = current /\ State(h).held = h /\ DOMAIN handle = Handles /\ DOMAIN states = Slots
          /\ handle[h].slot \in Slots /\ handle[h].pc \notin {"saving", "making"}
        BY Roles DEF Sync
    <1>2. current # 0 /\ State(h) = Cur BY <1>1, Mounts DEF State, Cur
    <1>3. Placed /\ Covered /\ Pending /\ Staged BY Facts
    <1>4. Cur.made /\ HandleFields \subseteq DOMAIN handle[h] BY <1>1, <1>2, <1>3 DEF Placed, Place
    <1>5. \A g \in Handles \ {h} : handle[g].pc \notin Sync BY <1>1, <1>2, Only
    <1>6. Past <=> Passed(handle[h])
        <2>1. \A g \in Handles \ {h} : ~(handle[g].pc \in {"trim", "finish"}) BY <1>5 DEF Sync
        <2> QED BY <2>1 DEF Past, Passed
    <1>7. /\ Cover(Cur, File, app, mode["file"], Passed(handle[h]))
          /\ Based(Cur, Lost(Cur.path), dir.pc = "hub", Passed(handle[h]))
        BY <1>2, <1>3, <1>4, <1>6 DEF Covered, Cover, Based
    <1>8. DataFields \subseteq DOMAIN Cur /\ Sized(Cur) BY <1>2, Sourced
    <1> QED BY <1>1, <1>2, <1>3, <1>4, <1>5, <1>7, <1>8 DEF Pending, Staged

LEMMA GaveBack ==
    ASSUME PathInv, DataInv, NEW h \in Handles, handle[h].pc \in Sync, NEW z, handle' = Return(h, z)
    PROVE  /\ Keeps(h) /\ handle'[h].pc \in {"unlock", "open"} /\ handle'[h].failed = z
           /\ handle'[h].pc \notin Sync /\ ~Passed(handle'[h]) /\ handle'[h].pc \in Stages
           /\ handle'[h].pc # "saving" /\ handle'[h].pc # "failed"
           /\ z => Cares(handle'[h], current)
    <1>0. HandleFields \subseteq DOMAIN handle[h] /\ DOMAIN handle = Handles /\ handle[h].slot = current BY Holder
    <1> DEFINE q == IF handle[h].why = "release" THEN "unlock" ELSE "open"
               p == [handle[h] EXCEPT !.pc = q, !.why = "", !.failed = z, !.verb = NoVerb, !.cpath = "", !.cpend = 0]
    <1>1. q \in {"unlock", "open"} OBVIOUS
    <1>2. handle' = [handle EXCEPT ![h] = p] BY <1>0 DEF Return
    <1> HIDE DEF q
    <1>3. /\ HandleFields \subseteq DOMAIN p /\ p.slot = handle[h].slot /\ p.path = handle[h].path /\ p.pc = q
          /\ p.failed = z
        BY <1>0 DEF HandleFields
    <1> HIDE DEF p
    <1>4. Keeps(h) /\ handle'[h] = p BY <1>2, <1>3, Posed
    <1>5. handle'[h].pc \in {"unlock", "open"} /\ handle'[h].failed = z /\ handle'[h].slot = current
        BY <1>0, <1>1, <1>3, <1>4
    <1>6. z => Cares(handle'[h], current) BY <1>5 DEF Cares, Resp
    <1> QED BY <1>4, <1>5, <1>6 DEF Sync, Passed, Stages

\* A commit that gives up before its verb: it was told to fail, or there is no file any more.
LEMMA StopKept ==
    ASSUME PathInv, DataInv, NEW h \in Handles, handle[h].pc \in {"check", "verb"}, NEW z, Stopped(h, z),
           z \/ Filed = {}, left' \in Budget,
           UNCHANGED <<ns, stored, mode, current, dir, tracked, recovery, mounted, app>>
    PROVE  DataInv'
    <1>0. handle[h].pc \in Sync /\ ~Passed(handle[h]) BY DEF Sync, Passed
    <1>1. /\ handle[h].slot = current /\ current # 0 /\ current \in Slots /\ State(h) = Cur /\ Cur.made
          /\ \A g \in Handles \ {h} : handle[g].pc \notin Sync
          /\ Based(Cur, Lost(Cur.path), dir.pc = "hub", Passed(handle[h]))
          /\ DOMAIN states = Slots /\ DataFields \subseteq DOMAIN Cur /\ handle[h].pc # "saving"
        BY <1>0, Holder
    <1>2. /\ Keeps(h) /\ handle'[h].pc \notin Sync /\ ~Passed(handle'[h]) /\ handle'[h].pc \in Stages
          /\ handle'[h].pc # "saving" /\ handle'[h].pc # "failed" /\ (z => Cares(handle'[h], current))
        BY <1>0, GaveBack DEF Stopped
    <1> DEFINE u == Unhold(Cur)
    <1>3. states' = [states EXCEPT ![handle[h].slot] = u] BY <1>1 DEF Stopped, State
    <1>4. Alike(u, Cur) /\ u.closed = Cur.closed BY <1>1 DEF Unhold, Alike, DataFields, Lots
    <1> HIDE DEF u
    <1>5. Cur' = u /\ \A s \in Slots \ {current} : states'[s] = states[s] BY <1>1, <1>3, Set
    <1>6. Bound(handle'[h], Cur, File, app.bytes) BY <1>2, NoSync
    <1>7. Stands(h) BY <1>2, <1>5 DEF Stands
    <1>8. Based(Cur, Lost(Cur.path), dir.pc = "hub", Passed(handle'[h])) BY <1>0, <1>1, <1>2 DEF Based
    <1> QED BY <1>0, <1>1, <1>2, <1>4, <1>5, <1>6, <1>7, <1>8, Shifting

\* The commit goes on with the overlay as it is.
LEMMA Onwards ==
    ASSUME PathInv, DataInv, NEW h \in Handles, handle[h].pc \in Sync, NEW p, handle' = [handle EXCEPT ![h] = p],
           HandleFields \subseteq DOMAIN p, p.slot = handle[h].slot, p.path = handle[h].path, p.pc \in Sync,
           Passed(handle[h]) => Passed(p), Bound(p, Cur, File, app.bytes),
           Based(Cur, Lost(Cur.path), dir.pc = "hub", Passed(p)),
           UNCHANGED <<ns, stored, mode, states, current, dir, tracked, recovery, mounted, app, left>>
    PROVE  DataInv'
    <1>1. /\ handle[h].slot = current /\ current # 0 /\ current \in Slots /\ State(h) = Cur /\ Cur.made
          /\ \A g \in Handles \ {h} : handle[g].pc \notin Sync
          /\ DataFields \subseteq DOMAIN Cur /\ handle[h].pc # "saving"
        BY Holder
    <1>2. Keeps(h) /\ handle'[h] = p BY Posed
    <1>3. Stands(h) BY <1>2 DEF Stands
    <1>4. Cur' = Cur BY DEF Cur
    <1>5. Alike(Cur', Cur) BY <1>1, <1>4 DEF Alike
    <1>6. left' \in Budget BY Facts DEF Typed
    <1>7. p.pc \in Stages /\ p.pc \notin {"failed", "saving"} BY DEF Sync, Stages
    <1>8. Cares(p, current) BY <1>1 DEF Cares, Resp, Sync
    <1> QED BY <1>1, <1>2, <1>3, <1>4, <1>5, <1>6, <1>7, <1>8, Shifting

LEMMA PlanKept ==
    ASSUME PathInv, DataInv, Sealed, NEW h \in Handles, CommitPlan(h)
    PROVE  DataInv'
    <1> DEFINE w == State(h)
               v == Sent(w)
               gone == w.deleted \/ handle[h].path = "" \/ w.path = ""
               moved == handle[h].path # handle[h].cpath \/ w.path # handle[h].cpath
               short == v.kind \in {"rewrite", "replace"} /\ ~WholeImage(w) /\ ~Readable(w, Content(w.path))
               q == IF v.kind = "none" THEN "finish" ELSE "verb"
               z == w.poisoned \/ ~gone
               p == [handle[h] EXCEPT !.pc = q, !.verb = v, !.cpend = w.pending]
    <1>0. /\ handle[h].pc = "check" /\ ~(dir.kind = "rename" /\ dir.pc = "handles")
          /\ UNCHANGED <<ns, stored, mode, current, dir, tracked, recovery, mounted, app, left>>
        BY DEF CommitPlan, storeVars, Sealed, Racing
    <1>1. handle[h].pc \in Sync /\ ~Passed(handle[h]) BY <1>0 DEF Sync, Passed
    <1>2. /\ handle[h].slot = current /\ current # 0 /\ w = Cur /\ Cur.made /\ ~Cur.poisoned
          /\ Cover(Cur, File, app, mode["file"], Passed(handle[h]))
          /\ Based(Cur, Lost(Cur.path), dir.pc = "hub", Passed(handle[h]))
          /\ Bound(handle[h], Cur, File, app.bytes)
          /\ HandleFields \subseteq DOMAIN handle[h] /\ DOMAIN handle = Handles
        BY <1>1, Holder
    <1>3. \/ Stopped(h, z) /\ (w.poisoned \/ gone \/ moved \/ short)
          \/ handle' = [handle EXCEPT ![h] = p] /\ states' = states /\ ~gone /\ ~moved
        BY <1>2 DEF CommitPlan, Stopped
    <1>4. left' \in Budget BY <1>0, Facts DEF Typed
    <1>5. CASE Stopped(h, z)
        <2>1. z \/ Filed = {}
            <3>1. w.deleted \/ w.path = "" => Filed = {} BY <1>2, Facts DEF Nameless
            <3>2. handle[h].path = "" => Filed = {} BY <1>2, Facts DEF Placed, Place
            <3> QED BY <3>1, <3>2
        <2> HIDE DEF z
        <2> QED BY <1>0, <1>4, <1>5, <2>1, StopKept
    <1>6. CASE handle' = [handle EXCEPT ![h] = p] /\ states' = states /\ ~gone /\ ~moved
        <2>1. w.path = handle[h].cpath /\ w.path = handle[h].path /\ w.path # "" BY <1>6
        <2>2. /\ HandleFields \subseteq DOMAIN p /\ p.slot = handle[h].slot /\ p.path = handle[h].path /\ p.pc = q
              /\ p.verb = v /\ p.cpend = w.pending /\ p.cpath = handle[h].cpath
            BY <1>2 DEF HandleFields
        <2>3. q \in {"verb", "finish"} /\ (q = "finish" <=> v.kind = "none") OBVIOUS
        <2> DEFINE from == Content(Cur.path)
        <2>4. Backed(Cur, from, app.bytes)
            <3>1. Cur.path \in tracked \cup {""} BY <1>2, <2>1 DEF PathInv, Under
            <3>2. ~Renaming \/ dir.pc = "states" BY <1>0 DEF Renaming
            <3> QED BY <1>2, <3>1, <3>2, Reads
        <2>5. Good(Cur, File, app.bytes) /\ FitsIn(Cur, File) /\ Tidy(Cur) /\ File \in Seq(Int)
            BY <1>0, <1>1, <1>2, Facts DEF Cover, Bound, Typed
        <2>6. v = Plan(Cur, from) BY <1>2 DEF Sent
        <2> HIDE DEF from, v
        <2>7. /\ Sendable(v, Cur)
              /\ Accepted(File, v) => Applied(File, v) \in Seq(Int) /\ Exact(v, Applied(File, v), Cur, app.bytes)
            BY <2>4, <2>5, <2>6, CommitExact
        <2>8. v.kind = "none" => Cur.dirty = {} /\ Cur.size = Cur.base
            BY <2>6 DEF Plan, NoVerb
        <2>9. v.kind = "none" => File = app.bytes BY <2>5, <2>8, CleanExact
        <2>10. Based(Cur, Lost(Cur.path), dir.pc = "hub", Passed(p))
            <3>1. CASE q = "verb" BY <1>1, <1>2, <2>2, <3>1 DEF Based, Passed
            <3>2. CASE v.kind = "none"
                <4>1. Clean(Cur) = {} => Cur.size = 0
                    <5>1. Clean(Cur) = Span(0, Cur.size) BY <2>8, <3>2 DEF Clean
                    <5>2. Cur.size \in Nat BY <2>5 DEF Good, Sized
                    <5>3. Cur.size # 0 => 0 \in Span(0, Cur.size) BY <5>2 DEF Span
                    <5> QED BY <5>1, <5>3
                <4> QED BY <1>1, <1>2, <4>1 DEF Based
            <3> QED BY <2>3, <3>1, <3>2
        <2>11. Bound(p, Cur, File, app.bytes)
            BY <1>2, <2>1, <2>2, <2>3, <2>7, <2>9 DEF Bound
        <2>12. p.pc \in Sync BY <2>2, <2>3 DEF Sync
        <2> HIDE DEF p, q, w
        <2> QED BY <1>0, <1>1, <1>6, <2>2, <2>10, <2>11, <2>12, Onwards
    <1> HIDE DEF p, q, z, gone, moved, short, v, w
    <1> QED BY <1>3, <1>5, <1>6

\* The name that is the file's is not the one that goes.
LEMMA Unlost ==
    ASSUME PathInv, DataInv, current # 0, Cur.path \in Names, ns[Cur.path] = "file", dir.pc # "hub"
    PROVE  ~Lost(Cur.path)
    <1>0. Named /\ Under /\ Removing /\ mounted BY Facts, Sourced
    <1>1. SUFFICES ASSUME Lost(Cur.path) PROVE FALSE OBVIOUS
    <1>2. Cur.path = dir.dst /\ dir.pc \in {"handles", "states"} BY <1>0, <1>1 DEF Lost, Named
    <1>3. Cur.path \in Filed BY DEF Filed
    <1>4. CASE dir.pc = "states"
        <2>1. dir.src = dir.dst /\ dir.src \notin tracked BY <1>0, <1>1, <1>4 DEF Lost, Removing
        <2>2. Filed = tracked BY <1>0, <1>4 DEF Named
        <2> QED BY <1>2, <1>3, <2>1, <2>2
    <1>5. CASE dir.pc = "handles" /\ dir.kind = "unlink"
        <2>1. dir.src = dir.dst BY <1>0, <1>5 DEF Removing
        <2>2. ns[dir.src] = "none" BY <1>0, <1>5 DEF Named
        <2> QED BY <1>2, <2>1, <2>2
    <1>6. CASE dir.pc = "handles" /\ dir.kind = "rename"
        <2>1. Cur.path \in tracked BY <1>0, <1>6, Mounts DEF Under, Cur
        <2>2. dir.src \notin tracked BY <1>0, <1>2, <1>6, <2>1 DEF Removing
        <2>3. Moves = dir.dst BY <1>6, <2>2 DEF Moves
        <2>4. Filed = tracked \ {dir.dst} BY <1>0, <1>6, <2>2, <2>3 DEF Named
        <2> QED BY <1>2, <1>3, <2>4
    <1> QED BY <1>0, <1>2, <1>4, <1>5, <1>6 DEF Named

\* What the file is once it holds what was written.
LEMMA Wrought ==
    ASSUME NEW w, NEW file, NEW bytes, Good(w, file, bytes)
    PROVE  Good(w, bytes, bytes) /\ bytes \in Seq(Int) /\ Len(bytes) = w.size
    <1>1. w.size \in Nat /\ bytes \in Image(w.size) BY DEF Good, Sized, Sound
    <1>2. bytes \in Seq(Int) /\ Len(bytes) = w.size BY <1>1, Images
    <1>3. Agrees(w, bytes, bytes) BY <1>1, <1>2 DEF Agrees, Clean, Span
    <1> QED BY <1>2, <1>3 DEF Good

\* The store changes under the commit of h, and the overlay does not.
LEMMA Storing ==
    ASSUME PathInv, DataInv, NEW h \in Handles, handle[h].pc \in {"verb", "trim"}, ns[Cur.path] = "file",
           NEW q \in {"trim", "finish"}, handle' = [handle EXCEPT ![h].pc = q], File' \in Seq(Int),
           IF q = "trim" THEN handle[h].verb.trim /\ Exact(handle[h].verb, File', Cur, app.bytes)
           ELSE File' = app.bytes,
           UNCHANGED <<ns, mode, states, current, dir, tracked, recovery, mounted, app, left>>
    PROVE  DataInv'
    <1>0. handle[h].pc \in Sync BY DEF Sync
    <1>1. /\ handle[h].slot = current /\ current # 0 /\ State(h) = Cur /\ Cur.made /\ handle[h].pc # "saving"
          /\ \A g \in Handles \ {h} : handle[g].pc \notin Sync
          /\ Cover(Cur, File, app, mode["file"], Passed(handle[h]))
          /\ Based(Cur, Lost(Cur.path), dir.pc = "hub", Passed(handle[h]))
          /\ Bound(handle[h], Cur, File, app.bytes)
          /\ HandleFields \subseteq DOMAIN handle[h] /\ DOMAIN handle = Handles
        BY <1>0, Holder
    <1> DEFINE p == [handle[h] EXCEPT !.pc = q]
    <1>2. /\ HandleFields \subseteq DOMAIN p /\ p.slot = handle[h].slot /\ p.path = handle[h].path /\ p.pc = q
          /\ p.cpath = handle[h].cpath /\ p.cpend = handle[h].cpend /\ p.verb = handle[h].verb
        BY <1>1 DEF HandleFields
    <1>3. handle' = [handle EXCEPT ![h] = p] BY <1>1
    <1> HIDE DEF p
    <1>4. Keeps(h) /\ handle'[h] = p BY <1>2, <1>3, Posed
    <1>5. Passed(handle'[h]) /\ handle'[h].pc \in Stages /\ handle'[h].pc \notin {"failed", "saving"}
        BY <1>2, <1>4 DEF Passed, Stages
    <1>6. Cur' = Cur BY DEF Cur
    <1>7. Good(Cur, File', app.bytes)
        <2>1. Good(Cur, File, app.bytes) BY <1>1 DEF Cover
        <2>2. CASE q = "trim"
            <3>1. Agrees(Cur, File', app.bytes) BY <2>2 DEF Exact
            <3> QED BY <2>1, <3>1 DEF Good
        <2>3. CASE q = "finish" BY <2>1, <2>3, Wrought
        <2> QED BY <2>2, <2>3
    <1>8. Cover(Cur', File', app', mode'["file"], Passed(handle'[h])) BY <1>1, <1>5, <1>6, <1>7 DEF Cover
    <1>9. Based(Cur', Lost(Cur.path), dir.pc = "hub", Passed(handle'[h]))
        <2>1. Cur.path = handle[h].cpath BY <1>1 DEF Bound
        <2>2. handle[h].cpath \in Names BY <1>0 DEF PathInv, Sends
        <2>3. dir.pc # "hub" => ~Lost(Cur.path) BY <1>1, <2>1, <2>2, Unlost
        <2>4. Cur.path # "" BY <2>1, <2>2, Mounts
        <2> QED BY <1>1, <1>6, <2>3, <2>4 DEF Based
    <1>10. Bound(handle'[h], Cur', File', app'.bytes)
        BY <1>1, <1>2, <1>4, <1>6 DEF Bound
    <1>11. Cares(handle'[h], current) BY <1>1, <1>2, <1>4 DEF Cares, Resp
    <1>12. app'.bytes \in Seq(Int) /\ app' = [bytes |-> app'.bytes, mode |-> app'.mode] /\ left' \in Budget
        BY Facts DEF Typed
    <1>13. Stands(h) BY <1>4 DEF Stands
    <1>14. /\ Cur'.made /\ Cur'.path = Cur.path /\ Cur'.deleted = Cur.deleted /\ Cur'.poisoned = Cur.poisoned
           /\ Cur'.closed = Cur.closed
        BY <1>1, <1>6
    <1> QED BY <1>1, <1>5, <1>8, <1>9, <1>10, <1>11, <1>12, <1>13, <1>14, Handling

LEMMA Faulted ==
    ASSUME DataInv, Spend("fault") \/ UNCHANGED left
    PROVE  left' \in Budget
    <1>1. left \in Budget BY DEF DataInv, Typed
    <1>2. CASE Spend("fault") BY <1>1, <1>2, Spent
    <1>3. CASE UNCHANGED left BY <1>1, <1>3
    <1> QED BY <1>2, <1>3

LEMMA VerbKept ==
    ASSUME PathInv, DataInv, NEW h \in Handles, CommitVerb(h)
    PROVE  DataInv'
    <1> DEFINE f == Reached(handle[h].cpath)
               v == handle[h].verb
               q == IF v.trim THEN "trim" ELSE "finish"
    <1>0. /\ handle[h].pc = "verb" /\ UNCHANGED <<ns, mode, current, dir, tracked, recovery, mounted, app>>
        BY DEF CommitVerb
    <1>1. handle[h].pc \in Sync \ {"check"} /\ handle[h].pc \in Sync BY <1>0 DEF Sync
    <1>2. f \in {"file", "none"} /\ f = ns[handle[h].cpath] BY <1>1, Aims
    <1>3. \/ /\ f # "none" /\ Accepted(stored[f], v) /\ stored' = [stored EXCEPT ![f] = Applied(stored[f], v)]
             /\ handle' = [handle EXCEPT ![h].pc = q] /\ UNCHANGED <<states, left>>
          \/ Fail(h) /\ UNCHANGED stored /\ (Spend("fault") \/ UNCHANGED left)
        BY DEF CommitVerb
    <1>4. Bound(handle[h], Cur, File, app.bytes) BY <1>1, Holder
    <1>5. CASE /\ f # "none" /\ Accepted(stored[f], v) /\ stored' = [stored EXCEPT ![f] = Applied(stored[f], v)]
               /\ handle' = [handle EXCEPT ![h].pc = q] /\ UNCHANGED <<states, left>>
        <2>1. f = "file" BY <1>2, <1>5
        <2>2. "file" \in DOMAIN stored BY Mounts DEF PathInv, Shapes
        <2>3. File' = Applied(File, v) /\ Accepted(File, v)
            <3> HIDE DEF f, v
            <3> QED BY <1>5, <2>1, <2>2 DEF File
        <2>4. File' \in Seq(Int) /\ Exact(v, File', Cur, app.bytes) BY <1>0, <1>4, <2>3 DEF Bound
        <2>5. ns[Cur.path] = "file" BY <1>0, <1>2, <1>4, <2>1 DEF Bound
        <2>6. IF q = "trim" THEN v.trim /\ Exact(v, File', Cur, app.bytes) ELSE File' = app.bytes
            BY <2>4 DEF Exact
        <2>7. q \in {"trim", "finish"} OBVIOUS
        <2> HIDE DEF q
        <2> QED BY <1>0, <1>5, <2>4, <2>5, <2>6, <2>7, Storing
    <1>6. CASE Fail(h) /\ UNCHANGED stored /\ (Spend("fault") \/ UNCHANGED left)
        <2>1. Stopped(h, TRUE) BY <1>6 DEF Fail, Stopped
        <2>2. left' \in Budget BY <1>6, Faulted
        <2> QED BY <1>0, <1>6, <2>1, <2>2, StopKept
    <1> HIDE DEF f, v, q
    <1> QED BY <1>3, <1>5, <1>6

LEMMA TrimKept ==
    ASSUME PathInv, DataInv, NEW h \in Handles, CommitTrim(h)
    PROVE  DataInv'
    <1> DEFINE f == Reached(handle[h].cpath)
               n == handle[h].verb.size
    <1>0. /\ handle[h].pc = "trim" /\ UNCHANGED <<ns, mode, current, dir, tracked, recovery, mounted, app>>
        BY DEF CommitTrim
    <1>1. handle[h].pc \in Sync \ {"check"} /\ handle[h].pc \in Sync /\ Passed(handle[h])
        BY <1>0 DEF Sync, Passed
    <1>2. f \in {"file", "none"} /\ f = ns[handle[h].cpath] BY <1>1, Aims
    <1>3. \/ /\ f # "none" /\ stored' = [stored EXCEPT ![f] = Resize(stored[f], n)]
             /\ handle' = [handle EXCEPT ![h].pc = "finish"] /\ UNCHANGED <<states, left>>
          \/ /\ handle' = Return(h, TRUE) /\ UNCHANGED stored /\ (Spend("fault") \/ UNCHANGED left)
             /\ states' = [states EXCEPT ![handle[h].slot] = [Unhold(@) EXCEPT !.half = TRUE]]
        BY DEF CommitTrim
    <1>4. /\ handle[h].slot = current /\ current # 0 /\ current \in Slots /\ State(h) = Cur /\ Cur.made
          /\ \A g \in Handles \ {h} : handle[g].pc \notin Sync
          /\ Cover(Cur, File, app, mode["file"], Passed(handle[h]))
          /\ Based(Cur, Lost(Cur.path), dir.pc = "hub", Passed(handle[h]))
          /\ Bound(handle[h], Cur, File, app.bytes)
          /\ DOMAIN states = Slots /\ DataFields \subseteq DOMAIN Cur /\ handle[h].pc # "saving"
        BY <1>1, Holder
    <1>5. handle[h].verb.trim /\ Resize(File, n) = app.bytes /\ Odd(Cur) /\ Cur.path = handle[h].cpath
        BY <1>0, <1>4 DEF Bound, Exact, Sendable
    <1>6. CASE /\ f # "none" /\ stored' = [stored EXCEPT ![f] = Resize(stored[f], n)]
               /\ handle' = [handle EXCEPT ![h].pc = "finish"] /\ UNCHANGED <<states, left>>
        <2>1. f = "file" BY <1>2, <1>6
        <2>2. "file" \in DOMAIN stored BY Mounts DEF PathInv, Shapes
        <2>3. File' = Resize(File, n)
            <3> HIDE DEF f, n
            <3> QED BY <1>6, <2>1, <2>2 DEF File
        <2>4. File' = app.bytes /\ File' \in Seq(Int) BY <1>5, <2>3, Facts DEF Typed
        <2>5. ns[Cur.path] = "file" BY <1>2, <1>5, <2>1
        <2> QED BY <1>0, <1>6, <2>4, <2>5, Storing
    <1>7. CASE /\ handle' = Return(h, TRUE) /\ UNCHANGED stored /\ (Spend("fault") \/ UNCHANGED left)
               /\ states' = [states EXCEPT ![handle[h].slot] = [Unhold(@) EXCEPT !.half = TRUE]]
        <2> DEFINE u == [Unhold(Cur) EXCEPT !.half = TRUE]
        <2>1. states' = [states EXCEPT ![handle[h].slot] = u] BY <1>4, <1>7 DEF State
        <2>2. /\ DataFields \subseteq DOMAIN u /\ u.half /\ \A x \in DataFields \ {"held", "half"} : u[x] = Cur[x]
            BY <1>4 DEF Unhold, DataFields
        <2> HIDE DEF u
        <2>3. /\ u.path = Cur.path /\ u.deleted = Cur.deleted /\ u.poisoned = Cur.poisoned /\ u.made = Cur.made
              /\ u.base = Cur.base /\ u.size = Cur.size /\ u.dirty = Cur.dirty /\ u.temp = Cur.temp /\ u.auth = Cur.auth
              /\ u.hasSnap = Cur.hasSnap /\ u.snap = Cur.snap /\ u.pending = Cur.pending /\ u.closed = Cur.closed
            BY <2>2 DEF DataFields
        <2>4. Clean(u) = Clean(Cur) BY <2>3 DEF Clean
        <2>5. Good(u, File, app.bytes)
            <3>1. \A g : Agrees(u, g, app.bytes) <=> Agrees(Cur, g, app.bytes) BY <2>4 DEF Agrees
            <3>2. Good(Cur, File, app.bytes) BY <1>4 DEF Cover
            <3>3. Sized(u) /\ Odd(u) BY <1>5, <2>3, <3>2 DEF Good, Sized, Odd
            <3>4. Sound(u, app.bytes) BY <2>3, <3>1, <3>2 DEF Good, Sound
            <3> QED BY <2>2, <3>1, <3>2, <3>3, <3>4 DEF Good
        <2>6. Cur' = u /\ \A s \in Slots \ {current} : states'[s] = states[s] BY <1>0, <1>4, <2>1, Set
        <2>7. /\ Keeps(h) /\ handle'[h].pc \notin Sync /\ ~Passed(handle'[h]) /\ handle'[h].pc \in Stages
              /\ handle'[h].pc # "saving" /\ handle'[h].pc # "failed" /\ Cares(handle'[h], current)
            BY <1>1, <1>7, GaveBack
        <2>8. File' = File BY <1>7 DEF File
        <2>9. Cover(Cur', File', app', mode'["file"], Passed(handle'[h]))
            BY <1>0, <1>4, <2>2, <2>3, <2>5, <2>6, <2>8 DEF Cover, FitsIn
        <2>10. Based(Cur', Lost(Cur.path), dir.pc = "hub", Passed(handle'[h]))
            BY <1>4, <2>3, <2>4, <2>6, <2>7 DEF Based
        <2>11. Bound(handle'[h], Cur', File', app'.bytes) BY <2>7, NoSync
        <2>12. /\ app'.bytes \in Seq(Int) /\ app' = [bytes |-> app'.bytes, mode |-> app'.mode] /\ File' \in Seq(Int)
            BY <1>0, <2>8, Facts DEF Typed
        <2>13. left' \in Budget BY <1>7, Faulted
        <2>14. Stands(h) BY <1>0, <2>6, <2>7 DEF Stands
        <2> QED BY <1>4, <2>3, <2>6, <2>7, <2>9, <2>10, <2>11, <2>12, <2>13, <2>14, Handling
    <1> HIDE DEF f, n
    <1> QED BY <1>3, <1>6, <1>7

\* The overlay of a commit that landed.
LEMMA Settles ==
    ASSUME NEW w, NEW file, NEW bytes, Good(w, file, bytes), file = bytes, NEW v, Sendable(v, w),
           NEW landed \in BOOLEAN, NEW u, u = Settled(w, v, landed)
    PROVE  /\ Good(u, file, bytes) /\ FitsIn(u, file)
           /\ u.path = w.path /\ u.deleted = w.deleted /\ u.poisoned = w.poisoned /\ u.closed = w.closed
           /\ u.made = w.made /\ u.size = w.size /\ u.hasSnap = w.hasSnap
           /\ u.pending = IF landed THEN 0 ELSE w.pending
           /\ landed => u.dirty = {} /\ u.base = u.size
    <1>0. /\ w.size \in Nat /\ w.base \in Nat /\ w.dirty \subseteq Span(0, w.size) /\ bytes \in Image(w.size)
          /\ DataFields \subseteq DOMAIN w /\ w.temp \in Image(w.size) /\ bytes \in Seq(Int) /\ Len(bytes) = w.size
          /\ w.temp \in Seq(Int)
        BY Images DEF Good, Sized, Sound
    <1>1. CASE v.kind \in {"truncate", "none"} /\ ~landed
        <2>1. u = [w EXCEPT !.held = "", !.pending = w.pending] BY <1>1 DEF Settled
        <2>2. DataFields \subseteq DOMAIN u /\ \A x \in DataFields \ {"held"} : u[x] = w[x]
            BY <1>0, <2>1 DEF DataFields
        <2>3. Alike(u, w) /\ u.closed = w.closed BY <1>0, <2>2 DEF Alike, Lots, DataFields
        <2>4. /\ u.path = w.path /\ u.deleted = w.deleted /\ u.poisoned = w.poisoned /\ u.made = w.made
              /\ u.base = w.base /\ u.size = w.size /\ u.hasSnap = w.hasSnap /\ u.pending = w.pending
            BY <2>3, Same
        <2>5. Good(u, file, bytes)
            <3> DEFINE a == [bytes |-> bytes, mode |-> IF w.pending = 0 THEN 0 ELSE w.pending]
            <3>1. a.bytes = bytes /\ a.mode = IF w.pending = 0 THEN 0 ELSE w.pending OBVIOUS
            <3> HIDE DEF a
            <3>2. Cover(w, file, a, 0, TRUE) BY <3>1 DEF Cover
            <3>3. Cover(u, file, a, 0, TRUE) BY <2>3, <3>2, AlikeCovers
            <3> QED BY <3>1, <3>3 DEF Cover
        <2>6. FitsIn(u, file) BY <1>0, <1>1, <2>4 DEF FitsIn, Sendable
        <2> QED BY <1>1, <2>3, <2>4, <2>5, <2>6
    <1>2. CASE ~(v.kind \in {"truncate", "none"} /\ ~landed)
        <2> DEFINE marked == IF v.kind = "patch" THEN {} ELSE w.dirty
                   take == IF v.kind = "patch" THEN Resize(w.temp, v.size) ELSE w.temp
                   keep == IF ~w.hasSnap THEN w.snap
                           ELSE [i \in 1..w.size |->
                                   IF i - 1 \in marked THEN At(w.temp, i - 1) ELSE At(w.snap, i - 1)]
                   now == IF landed THEN 0 ELSE w.pending
        <2>0. v.size = w.size /\ (v.kind = "patch" => ~w.hasSnap) BY DEF Sendable
        <2>1. Refreshed(w, v) = [w EXCEPT !.base = v.size, !.dirty = {}, !.auth = FALSE, !.half = FALSE,
                                          !.temp = take, !.snap = keep]
            BY DEF Refreshed
        <2>2. u = [Refreshed(w, v) EXCEPT !.held = "", !.pending = IF landed THEN 0 ELSE @]
            BY <1>2 DEF Settled
        <2>3. take \in Image(w.size) BY <1>0, <2>0, Resizes
        <2>4. w.hasSnap => keep \in Seq(Int) /\ \A b \in Span(0, w.size) : b < Len(keep) /\ At(keep, b) = At(bytes, b)
            <3> SUFFICES ASSUME w.hasSnap
                         PROVE  keep \in Seq(Int) /\ \A b \in Span(0, w.size) : b < Len(keep) /\ At(keep, b) = At(bytes, b)
                OBVIOUS
            <3>1. w.snap \in Seq(Int) /\ Agrees(w, w.snap, bytes) /\ \A b \in w.dirty : At(w.temp, b) = At(bytes, b)
                BY DEF Good, Sound
            <3>2. keep = [i \in 1..w.size |-> IF i - 1 \in w.dirty THEN At(w.temp, i - 1) ELSE At(w.snap, i - 1)]
                BY <2>0
            <3> HIDE DEF keep
            <3>3. ASSUME NEW i \in 1..w.size
                  PROVE  (IF i - 1 \in w.dirty THEN At(w.temp, i - 1) ELSE At(w.snap, i - 1)) = bytes[i]
                <4>1. i - 1 \in Nat /\ i - 1 < w.size /\ i - 1 \in Span(0, w.size) /\ (i - 1) + 1 = i
                    BY <1>0 DEF Span
                <4>2. At(bytes, i - 1) = bytes[i] BY <1>0, <4>1, Reading
                <4>3. CASE i - 1 \in w.dirty BY <3>1, <4>2, <4>3
                <4>4. CASE i - 1 \notin w.dirty
                    <5>1. i - 1 \in Clean(w) BY <4>1, <4>4 DEF Clean
                    <5>2. At(w.snap, i - 1) = At(bytes, i - 1) BY <3>1, <5>1 DEF Agrees
                    <5> QED BY <4>2, <4>4, <5>2
                <4> QED BY <4>3, <4>4
            <3>4. keep = bytes BY <1>0, <3>2, <3>3 DEF Image
            <3>5. \A b \in Span(0, w.size) : b < w.size BY <1>0 DEF Span
            <3> QED BY <1>0, <3>4, <3>5
        <2> HIDE DEF take, keep, marked
        <2>5. /\ DataFields \subseteq DOMAIN u /\ u.base = w.size /\ u.dirty = {} /\ ~u.auth /\ ~u.half /\ u.temp = take
              /\ u.snap = keep /\ u.size = w.size /\ u.hasSnap = w.hasSnap /\ u.path = w.path
              /\ u.deleted = w.deleted /\ u.poisoned = w.poisoned /\ u.closed = w.closed /\ u.made = w.made
              /\ u.pending = IF landed THEN 0 ELSE w.pending
            BY <1>0, <2>0, <2>1, <2>2 DEF DataFields
        <2>6. Clean(u) = Span(0, w.size) BY <2>5 DEF Clean
        <2>7. Span(u.base, u.size) = {}
            <3>1. \A b : b \notin Span(w.size, w.size) BY <1>0 DEF Span
            <3> QED BY <2>5, <3>1
        <2>8. Agrees(u, file, bytes)
            <3>1. \A b \in Span(0, w.size) : b < w.size BY <1>0 DEF Span
            <3> QED BY <1>0, <2>6, <3>1 DEF Agrees
        <2>9. Sound(u, bytes) BY <1>0, <2>3, <2>4, <2>5, <2>6, <2>7 DEF Sound, Agrees
        <2>10. Good(u, file, bytes) BY <1>0, <2>5, <2>8, <2>9 DEF Good, Sized
        <2>11. FitsIn(u, file) BY <1>0, <2>5 DEF FitsIn
        <2> QED BY <2>5, <2>10, <2>11
    <1> QED BY <1>1, <1>2

LEMMA FinishKept ==
    ASSUME PathInv, DataInv, NEW h \in Handles, CommitFinish(h)
    PROVE  DataInv'
    <1> DEFINE f == Reached(handle[h].cpath)
               v == handle[h].verb
    <1>0. /\ handle[h].pc = "finish" /\ UNCHANGED <<ns, stored, current, dir, tracked, recovery, mounted, app>>
        BY DEF CommitFinish
    <1>1. handle[h].pc \in Sync \ {"check"} /\ handle[h].pc \in Sync /\ Passed(handle[h])
        BY <1>0 DEF Sync, Passed
    <1>2. f \in {"file", "none"} BY <1>1, Aims
    <1>4. /\ handle[h].slot = current /\ current # 0 /\ current \in Slots /\ State(h) = Cur /\ Cur.made
          /\ \A g \in Handles \ {h} : handle[g].pc \notin Sync
          /\ Cover(Cur, File, app, mode["file"], Passed(handle[h]))
          /\ Based(Cur, Lost(Cur.path), dir.pc = "hub", Passed(handle[h]))
          /\ Bound(handle[h], Cur, File, app.bytes)
          /\ DOMAIN states = Slots /\ handle[h].pc # "saving" /\ ~Cur.poisoned
        BY <1>1, Holder
    <1>5. PICK landed \in BOOLEAN :
             /\ states' = [states EXCEPT ![handle[h].slot] = Settled(Cur, v, landed)]
             /\ handle' = Return(h, ~landed)
             /\ IF handle[h].cpend = 0 THEN landed /\ UNCHANGED <<mode, stamp, left>>
                ELSE IF landed THEN f # "none" /\ UNCHANGED left /\ mode' = [mode EXCEPT ![f] = handle[h].cpend]
                ELSE (Spend("fault") \/ UNCHANGED left) /\ UNCHANGED mode
        BY <1>4 DEF CommitFinish
    <1>6. /\ File = app.bytes /\ Sendable(v, Cur) /\ Cur.path = handle[h].cpath /\ handle[h].cpend = Cur.pending
          /\ Good(Cur, File, app.bytes)
        BY <1>0, <1>4 DEF Bound, Cover
    <1> DEFINE u == Settled(Cur, v, landed)
    <1>7. states' = [states EXCEPT ![handle[h].slot] = u] BY <1>5
    <1> HIDE DEF u
    <1>8. /\ Good(u, File, app.bytes) /\ FitsIn(u, File)
          /\ u.path = Cur.path /\ u.deleted = Cur.deleted /\ u.poisoned = Cur.poisoned /\ u.closed = Cur.closed
          /\ u.made = Cur.made /\ u.size = Cur.size /\ u.hasSnap = Cur.hasSnap
          /\ u.pending = IF landed THEN 0 ELSE Cur.pending
          /\ landed => u.dirty = {} /\ u.base = u.size
        BY <1>6, Settles DEF u
    <1>9. Cur' = u /\ \A s \in Slots \ {current} : states'[s] = states[s] BY <1>0, <1>4, <1>7, Set
    <1>10. /\ Keeps(h) /\ handle'[h].pc \notin Sync /\ ~Passed(handle'[h]) /\ handle'[h].pc \in Stages
           /\ handle'[h].pc # "saving" /\ handle'[h].pc # "failed" /\ (~landed => Cares(handle'[h], current))
        BY <1>1, <1>5, GaveBack
    <1>11. File' = File BY <1>0 DEF File
    <1>12. app.mode = IF u.pending = 0 THEN mode'["file"] ELSE u.pending
        <2>1. app.mode = IF Cur.pending = 0 THEN mode["file"] ELSE Cur.pending BY <1>4 DEF Cover
        <2>2. CASE handle[h].cpend = 0 BY <1>5, <1>6, <1>8, <2>1, <2>2
        <2>3. CASE handle[h].cpend # 0 /\ landed
            <3>1. f = "file" BY <1>2, <1>5, <2>3
            <3>2. "file" \in DOMAIN mode BY Mounts DEF PathInv, Shapes
            <3>3. mode' = [mode EXCEPT !["file"] = handle[h].cpend] BY <1>5, <2>3, <3>1
            <3>4. mode'["file"] = handle[h].cpend BY <3>2, <3>3
            <3> QED BY <1>6, <1>8, <2>1, <2>3, <3>4
        <2>4. CASE handle[h].cpend # 0 /\ ~landed BY <1>5, <1>6, <1>8, <2>1, <2>4
        <2> QED BY <2>2, <2>3, <2>4
    <1>13. Cover(Cur', File', app', mode'["file"], Passed(handle'[h]))
        BY <1>0, <1>8, <1>9, <1>11, <1>12 DEF Cover
    <1>14. Based(Cur', Lost(Cur.path), dir.pc = "hub", Passed(handle'[h]))
        <2>1. Cur.path # ""
            <3>1. handle[h].cpath \in Names BY <1>1 DEF PathInv, Sends
            <3> QED BY <1>6, <3>1, Mounts
        <2>2. Cur.size = 0 => Clean(u) = {}
            <3>1. Cur.size = 0 => Clean(u) = Span(0, 0) \ u.dirty BY <1>8 DEF Clean
            <3> QED BY <3>1, Hollow
        <2>3. Lost(Cur.path) => u.hasSnap \/ (Cur.size = 0 /\ dir.pc # "hub") BY <1>1, <1>4, <1>8 DEF Based
        <2> QED BY <1>8, <1>9, <1>10, <2>1, <2>2, <2>3 DEF Based
    <1>15. Bound(handle'[h], Cur', File', app'.bytes) BY <1>10, NoSync
    <1>16. /\ app'.bytes \in Seq(Int) /\ app' = [bytes |-> app'.bytes, mode |-> app'.mode] /\ File' \in Seq(Int)
        BY <1>0, <1>11, Facts DEF Typed
    <1>17. left' \in Budget BY <1>5, Faulted
    <1>18. Stands(h) BY <1>0, <1>9, <1>10 DEF Stands
    <1>19. Uncommitted(Cur') => Cares(handle'[h], current)
        BY <1>8, <1>9, <1>10 DEF Uncommitted, HasPending
    <1>20. /\ Cur'.made /\ Cur'.path = Cur.path /\ Cur'.deleted = Cur.deleted /\ Cur'.poisoned = Cur.poisoned
           /\ Cur'.closed = Cur.closed
        BY <1>4, <1>8, <1>9
    <1> QED BY <1>4, <1>10, <1>13, <1>14, <1>15, <1>16, <1>17, <1>18, <1>19, <1>20, Handling

-----------------------------------------------------------------------------
(* Releases.                                                               *)

LEMMA ReleaseKept ==
    ASSUME PathInv, DataInv, NEW h \in Handles, Unlock(h) \/ Delete(h) \/ LastClose(h)
    PROVE  DataInv'
    <1>0. /\ UNCHANGED <<ns, current, dir, tracked, mounted, recovery>> /\ UNCHANGED <<stored, mode, app, left>>
          /\ states' = states /\ handle[h].pc \in {"unlock", "drop", "locks"}
        BY DEF Unlock, Delete, LastClose, storeVars
    <1>1. DOMAIN handle = Handles /\ HandleFields \subseteq DOMAIN handle[h]
        BY Roles, Facts DEF Placed, Place
    <1>2. \E q \in {"failed", "drop", "locks", "ref"} :
             /\ handle' = [handle EXCEPT ![h].pc = q]
             /\ q = "failed" => handle[h].failed
             /\ handle[h].pc = "unlock" /\ handle[h].failed => q = "failed"
        <2>1. CASE Unlock(h) BY <2>1 DEF Unlock
        <2>2. CASE Delete(h) BY <2>2 DEF Delete
        <2>3. CASE LastClose(h) BY <2>3 DEF LastClose
        <2> QED BY <2>1, <2>2, <2>3
    <1>3. PICK q \in {"failed", "drop", "locks", "ref"} :
             /\ handle' = [handle EXCEPT ![h].pc = q]
             /\ q = "failed" => handle[h].failed
             /\ handle[h].pc = "unlock" /\ handle[h].failed => q = "failed"
        BY <1>2
    <1> DEFINE p == [handle[h] EXCEPT !.pc = q]
    <1>4. /\ handle' = [handle EXCEPT ![h] = p] /\ HandleFields \subseteq DOMAIN p /\ p.slot = handle[h].slot
          /\ p.path = handle[h].path /\ p.pc = q /\ p.failed = handle[h].failed
        BY <1>1, <1>3 DEF HandleFields
    <1> HIDE DEF p
    <1>5. Keeps(h) /\ handle'[h] = p BY <1>4, Posed
    <1>6. handle[h].pc \notin Sync \cup {"making", "saving"} /\ q \notin Sync \cup {"making", "saving"} /\ q \in Stages
        BY <1>0, <1>3 DEF Sync, Stages
    <1>7. Cares(handle[h], current) => Cares(p, current)
        BY <1>0, <1>3, <1>4 DEF Cares, Resp
    <1> QED BY <1>0, <1>3, <1>4, <1>5, <1>6, <1>7, Passing

\* Of several handles of a state, another than h has it.
LEMMA Others ==
    ASSUME PathInv, NEW h \in Handles, handle[h].pc # "closed", handle[h].slot = current, ~(State(h).refs <= 1)
    PROVE  \E g \in Handles \ {h} : handle[g].slot = current
    <1> DEFINE S == {g \in Handles : handle[g].slot = current}
    <1>1. SUFFICES ASSUME \A g \in Handles \ {h} : handle[g].slot # current PROVE State(h).refs <= 1 OBVIOUS
    <1>2. current # 0 BY Roles, Mounts
    <1>3. State(h).refs = Cardinality(S) BY <1>2 DEF PathInv, Slotted, State
    <1>4. S = {h} BY <1>1
    <1>5. Cardinality(S) = 1 BY <1>4, FS_Singleton
    <1> QED BY <1>3, <1>5

LEMMA QuarantineKept ==
    ASSUME PathInv, DataInv, Sealed, NEW h \in Handles, QuarantineStart(h)
    PROVE  DataInv'
    <1>0. /\ UNCHANGED <<ns, current, dir, tracked, mounted, recovery>> /\ UNCHANGED <<stored, mode, app, left>>
          /\ handle[h].pc = "failed"
        BY DEF QuarantineStart, storeVars
    <1>1. /\ DOMAIN handle = Handles /\ HandleFields \subseteq DOMAIN handle[h] /\ DOMAIN states = Slots
          /\ handle[h].slot \in Slots /\ handle[h].failed
        BY <1>0, Roles, Facts DEF Placed, Place
    <1>2. \A g \in Handles \ {h} : handle[g].slot = handle[h].slot =>
             /\ handle[g].pc \notin {"drop", "locks", "ref"}
             /\ handle[g].pc = "unlock" => handle[g].failed
        BY DEF QuarantineStart, Sealed, Racing
    <1>3. CASE ~(Sole(h) /\ ~State(h).closed)
        <2> DEFINE p == [handle[h] EXCEPT !.pc = "drop"]
        <2>1. states' = states /\ handle' = [handle EXCEPT ![h] = p] BY <1>1, <1>3 DEF QuarantineStart
        <2>2. HandleFields \subseteq DOMAIN p /\ p.slot = handle[h].slot /\ p.path = handle[h].path /\ p.pc = "drop"
            BY <1>1 DEF HandleFields
        <2> HIDE DEF p
        <2>3. Keeps(h) /\ handle'[h] = p BY <2>1, <2>2, Posed
        <2>4. ASSUME current # 0, Cares(handle[h], current) PROVE \E g \in Handles \ {h} : Cares(handle[g], current)
            <3>1. handle[h].slot = current /\ State(h) = Cur BY <2>4 DEF Cares, State, Cur
            <3>2. CASE State(h).closed
                <4>1. PICK g \in Handles : handle[g].pc = "saving" BY <2>4, <3>1, <3>2, Facts DEF Staged
                <4>2. g # h /\ handle[g].slot = current BY <1>0, <4>1, Facts DEF Placed, Place
                <4> QED BY <4>1, <4>2 DEF Cares, Resp
            <3>3. CASE ~Sole(h)
                <4>1. ~(State(h).refs <= 1) BY <3>1, <3>3 DEF Sole
                <4>2. PICK g \in Handles \ {h} : handle[g].slot = current BY <1>0, <3>1, <4>1, Others
                <4>3. handle[g].pc # "closed" BY <2>4, <4>2, Facts DEF Slotted
                <4>4. handle[g].pc \in Stages BY Facts DEF Placed, Place
                <4> QED BY <1>2, <3>1, <4>2, <4>3, <4>4 DEF Stages, Cares, Resp
            <3> QED BY <1>3, <3>2, <3>3
        <2>5. handle[h].pc \notin Sync /\ p.pc \notin Sync /\ p.pc \in Stages BY <1>0, <2>2 DEF Sync, Stages
        <2>6. current # 0 /\ Cares(handle[h], current) => \E g \in Handles : Cares(handle'[g], current)
            BY <2>3, <2>4 DEF Keeps
        <2> QED BY <1>0, <2>1, <2>2, <2>3, <2>5, <2>6, Passing
    <1>4. CASE Sole(h) /\ ~State(h).closed
        <2> DEFINE t == Fingerprint(State(h).path)
                   p == [handle[h] EXCEPT !.pc = "saving", !.full = WholeImage(State(h)), !.stamp = t]
                   u == [State(h) EXCEPT !.closed = TRUE]
        <2>1. /\ states' = [states EXCEPT ![handle[h].slot] = u] /\ handle' = [handle EXCEPT ![h] = p]
            BY <1>1, <1>4 DEF QuarantineStart, State
        <2>2. /\ HandleFields \subseteq DOMAIN p /\ p.slot = handle[h].slot /\ p.path = handle[h].path
              /\ p.pc = "saving" /\ p.failed = handle[h].failed
            BY <1>1 DEF HandleFields
        <2> HIDE DEF p, t
        <2>3. Keeps(h) /\ handle'[h] = p BY <2>1, <2>2, Posed
        <2>4. handle[h].slot = current /\ State(h).refs <= 1 /\ current \in Slots /\ current # 0 /\ State(h) = Cur
            BY <1>1, <1>4, Mounts DEF Sole, State, Cur
        <2>5. \A g \in Handles \ {h} : handle[g].slot # handle[h].slot BY <1>0, <2>4, Alone
        <2>6. \A g \in Handles \ {h} : handle[g].pc \notin Sync BY <2>4, <2>5, Roles
        <2>7. Cur.made BY <1>0, <2>4, Facts DEF Placed, Place
        <2>8. Alike(u, Cur)
            <3>1. DataFields \subseteq DOMAIN Cur BY <2>4, Sourced
            <3> QED BY <2>4, <3>1 DEF Alike, DataFields, Lots
        <2> HIDE DEF u
        <2>9. Cur' = u /\ \A s \in Slots \ {current} : states'[s] = states[s] BY <1>0, <2>1, <2>4, Set
        <2>10. Stands(h) BY <1>0, <2>3, <2>9 DEF Stands
        <2>11. ~Passed(handle[h]) /\ ~Passed(p) /\ p.pc \in Stages /\ p.pc \notin Sync
            BY <1>0, <2>2 DEF Passed, Stages, Sync
        <2>12. Based(Cur, Lost(Cur.path), dir.pc = "hub", Passed(p))
            <3>1. ~Past BY <1>0, <2>6 DEF Past, Sync
            <3> QED BY <2>4, <2>7, <2>11, <3>1, Facts DEF Covered, Based
        <2>13. Bound(p, Cur, File, app.bytes) BY <2>11, NoSync
        <2>14. Cares(p, current) BY <2>2, <2>4 DEF Cares, Resp
        <2>15. left' \in Budget BY <1>0, Facts DEF Typed
        <2>16. handle[h].pc # "saving" BY <1>0
        <2> QED BY <1>0, <1>1, <2>2, <2>3, <2>4, <2>6, <2>7, <2>8, <2>9, <2>10, <2>11, <2>12, <2>13, <2>14, <2>15,
                   <2>16, Shifting
    <1> QED BY <1>3, <1>4

-----------------------------------------------------------------------------
(* A state that goes.                                                      *)

\* A handle that has nothing to do with a current state.
Aloof(x, filed) ==
    /\ HandleFields \subseteq DOMAIN x /\ x.pc \in Stages \ (Sync \cup {"making", "saving"})
    /\ x.slot # 0 /\ x.path = "" => filed = {}
    /\ x.pc = "failed" => x.failed

LEMMA Astray ==
    ASSUME PathInv, DataInv, NEW g \in Handles, handle[g].slot # current
    PROVE  Aloof(handle[g], Filed)
    <1>1. Place(handle[g], Filed, current, Cur.made) BY Facts DEF Placed
    <1>2. handle[g].pc \notin Sync BY Roles
    <1> QED BY <1>1, <1>2 DEF Aloof, Place

LEMMA Ceased ==
    ASSUME PathInv, DataInv, current' = 0, UNCHANGED <<ns, stored, mode>>,
           (dir' = dir /\ tracked' = tracked) \/ dir' = NoDir,
           \A s \in Slots : DataFields \subseteq DOMAIN states'[s] /\ Sized(states'[s]),
           app' = Landed \/ (app' = app /\ (Filed # {} => app = Landed)), left' \in Budget,
           \A g \in Handles : Aloof(handle'[g], Filed), Recovered'
    PROVE  DataInv'
    <1>0. Typed /\ Nameless /\ Removing BY Facts
    <1>1. Filed' = Filed /\ File' = File /\ Landed' = Landed BY DEF Filed, File, Landed
    <1>2. app' = [bytes |-> app'.bytes, mode |-> app'.mode] /\ app'.bytes \in Seq(Int)
        BY <1>0 DEF Typed, Landed, File
    <1>3. Typed' BY <1>0, <1>1, <1>2 DEF Typed
    <1>4. Covered' /\ Unmade' /\ Cared' /\ Staged' BY DEF Covered, Unmade, Cared, Staged
    <1>5. Grounded' BY <1>1 DEF Grounded
    <1>d. (dir' = dir /\ tracked' = tracked) \/ dir'.pc = "idle"
        <2>1. NoDir.pc = "idle" BY DEF NoDir
        <2>2. dir' = NoDir => dir'.pc = "idle" BY <2>1
        <2> QED BY <2>2
    <1>6. Nameless' BY <1>0, <1>1, <1>d DEF Nameless
    <1>7. Placed'
        <2>1. ASSUME NEW g \in Handles PROVE Place(handle'[g], Filed', current', Cur'.made)
            BY <1>1 DEF Aloof, Place
        <2> QED BY <2>1 DEF Placed
    <1>8. Pending'
        <2>1. \A g \in Handles : handle'[g].pc \notin Sync BY DEF Aloof
        <2> QED BY <2>1, NoSync DEF Pending
    <1>9. Removing' BY <1>0, <1>d DEF Removing
    <1> QED BY <1>2, <1>3, <1>4, <1>5, <1>6, <1>7, <1>8, <1>9 DEF DataInv

\* What is saved of an overlay rebuilds what was written.
LEMMA Rebuilt ==
    ASSUME NEW e, NEW w, NEW file \in Seq(Int), NEW bytes, Good(w, file, bytes), FitsIn(w, file),
           e.image = w.temp, e.size = w.size, e.base = w.base, e.dirty = w.dirty, e.over = file, e.want = bytes,
           e.full => WholeImage(w)
    PROVE  Rebuilds(e)
    <1>0. /\ w.size \in Nat /\ w.base \in Nat /\ w.dirty \subseteq Span(0, w.size) /\ w.temp \in Image(w.size)
          /\ bytes \in Image(w.size) /\ w.temp \in Seq(Int) /\ bytes \in Seq(Int) /\ Len(file) \in Nat
          /\ \A b \in w.dirty : At(w.temp, b) = At(bytes, b)
        BY Images DEF Good, Sized, Sound
    <1>1. e.full => e.image = e.want
        <2>1. CASE w.auth BY <2>1 DEF Good, Sound
        <2>2. CASE Span(0, w.size) \subseteq w.dirty
            <3>1. w.temp = bytes BY <1>0, <2>2, SameBytes
            <3> QED BY <3>1
        <2> QED BY <2>1, <2>2 DEF WholeImage
    <1> DEFINE drawn == [i \in 1..Len(file) |-> IF i - 1 \in w.dirty THEN At(w.temp, i - 1) ELSE file[i]]
    <1>2. ASSUME w.dirty # {}, w.size = w.base, \A b \in w.dirty : b < Len(file)
          PROVE  drawn = bytes
        <2>1. Len(file) <= w.size
            <3>1. ~w.half BY <1>2 DEF Good, Odd
            <3> QED BY <1>2, <3>1 DEF FitsIn
        <2>2. \A b \in Clean(w) : b < Len(file) /\ At(file, b) = At(bytes, b) BY DEF Good, Agrees
        <2>3. Len(file) = w.size
            <3>1. SUFFICES ASSUME Len(file) < w.size PROVE FALSE BY <1>0, <2>1
            <3>2. Len(file) \in Span(0, w.size) BY <1>0, <3>1 DEF Span
            <3>3. Len(file) < Len(file) BY <1>2, <2>2, <3>2 DEF Clean
            <3> QED BY <1>0, <3>3
        <2>4. ASSUME NEW i \in 1..w.size
              PROVE  (IF i - 1 \in w.dirty THEN At(w.temp, i - 1) ELSE file[i]) = bytes[i]
            <3>1. i - 1 \in Nat /\ i - 1 < w.size /\ (i - 1) + 1 = i /\ i - 1 \in Span(0, w.size)
                BY <1>0 DEF Span
            <3>2. Len(bytes) = w.size BY <1>0, Images
            <3>3. At(bytes, i - 1) = bytes[i] /\ At(file, i - 1) = file[i] BY <1>0, <2>3, <3>1, <3>2, Reading
            <3>4. CASE i - 1 \in w.dirty BY <1>0, <3>3, <3>4
            <3>5. CASE i - 1 \notin w.dirty
                <4>1. i - 1 \in Clean(w) BY <3>1, <3>5 DEF Clean
                <4> QED BY <2>2, <3>3, <3>5, <4>1
            <3> QED BY <3>4, <3>5
        <2>5. drawn = [i \in 1..w.size |-> IF i - 1 \in w.dirty THEN At(w.temp, i - 1) ELSE file[i]]
            BY <2>3
        <2> HIDE DEF drawn
        <2> QED BY <1>0, <2>4, <2>5 DEF Image
    <1>3. w.dirty = {} => Resize(file, w.size) = bytes BY CleanExact
    <1> HIDE DEF drawn
    <1>4. drawn = [i \in 1..Len(e.over) |-> IF i - 1 \in e.dirty THEN At(e.image, i - 1) ELSE e.over[i]]
        BY DEF drawn
    <1> QED BY <1>0, <1>1, <1>2, <1>3, <1>4 DEF Rebuilds

\* The current state is saved while no commit is past its verb.
LEMMA SavedSound ==
    ASSUME PathInv, DataInv, current # 0, NEW full, NEW st
    PROVE  /\ Rebuilds([Saved(Cur, full, st) EXCEPT !.target = ""])
           /\ Cur.made /\ ~Past => Rebuilds(Saved(Cur, full, st))
    <1> DEFINE e == Saved(Cur, full, st)
               d == [Saved(Cur, full, st) EXCEPT !.target = ""]
    <1>1. /\ e.image = Cur.temp /\ e.size = Cur.size /\ e.base = Cur.base /\ e.dirty = Cur.dirty /\ e.over = File
          /\ e.want = app.bytes /\ (e.full => WholeImage(Cur))
          /\ d.image = Cur.temp /\ d.size = Cur.size /\ d.target = ""
        BY DEF Saved, File
    <1> HIDE DEF e, d
    <1>2. Cur.temp \in Seq(Int) /\ Cur.size \in Nat
        <2>1. Cur.size \in Nat BY Sourced DEF Sized
        <2>2. CASE Cur.made
            <3>1. Cur.temp \in Image(Cur.size) BY <2>2, Facts DEF Covered, Cover, Good, Sound
            <3> QED BY <2>1, <3>1, Images
        <2>3. CASE ~Cur.made BY <2>1, <2>3, Facts DEF Unmade, Fresh
        <2> QED BY <2>2, <2>3
    <1>3. Rebuilds(d) BY <1>1, <1>2 DEF Rebuilds
    <1>4. ASSUME Cur.made, ~Past PROVE Rebuilds(e)
        <2>1. Good(Cur, File, app.bytes) /\ FitsIn(Cur, File) /\ File \in Seq(Int)
            BY <1>4, Facts DEF Covered, Cover, Typed
        <2> QED BY <1>1, <2>1, Rebuilt
    <1> QED BY <1>3, <1>4 DEF e, d

LEMMA SaveKept ==
    ASSUME PathInv, DataInv, NEW h \in Handles, QuarantineSave(h)
    PROVE  DataInv'
    <1> DEFINE p == [handle[h] EXCEPT !.pc = "drop"]
               u == Poisoned(Cur)
    <1>0. /\ handle[h].pc = "saving" /\ UNCHANGED <<ns, stored, mode, dir, tracked, mounted, left>>
          /\ app' = Landed
        BY DEF QuarantineSave, storeVars
    <1>1. /\ DOMAIN handle = Handles /\ DOMAIN states = Slots /\ HandleFields \subseteq DOMAIN handle[h]
          /\ handle[h].slot = current /\ current \in Slots /\ handle[h].slot # 0 /\ State(h) = Cur
        BY <1>0, Roles, Mounts, Facts DEF Placed, Place, State, Cur
    <1>2. \A g \in Handles \ {h} : handle[g].slot # current
        BY <1>0, <1>1, Facts DEF Slotted
    <1>3. /\ HandleFields \subseteq DOMAIN p /\ p.slot = handle[h].slot /\ p.path = handle[h].path /\ p.pc = "drop"
        BY <1>1 DEF HandleFields
    <1>4. handle' = [handle EXCEPT ![h] = p] /\ states' = [states EXCEPT ![current] = u] /\ current' = 0
        BY <1>1 DEF QuarantineSave, Cur
    <1>5. DataFields \subseteq DOMAIN u /\ Sized(u)
        <2>1. DataFields \subseteq DOMAIN Cur /\ Sized(Cur) BY <1>1, Sourced
        <2> QED BY <2>1 DEF Poisoned, DataFields, Sized
    <1> HIDE DEF p, u
    <1>6. \A s \in Slots : DataFields \subseteq DOMAIN states'[s] /\ Sized(states'[s])
        BY <1>1, <1>4, <1>5, Facts DEF Typed
    <1>7. ASSUME NEW g \in Handles PROVE Aloof(handle'[g], Filed)
        <2>1. CASE g = h
            <3>1. handle'[g] = p BY <1>1, <1>4, <2>1
            <3>2. handle[h].slot # 0 /\ handle[h].path = "" => Filed = {} BY Facts DEF Placed, Place
            <3> QED BY <1>3, <3>1, <3>2 DEF Aloof, Stages, Sync
        <2>2. CASE g # h
            <3>1. handle'[g] = handle[g] BY <1>1, <1>4, <2>2
            <3> QED BY <1>2, <2>2, <3>1, Astray
        <2> QED BY <2>1, <2>2
    <1>8. Recovered'
        <2>1. ~Past
            <3>1. \A g \in Handles : handle[g].pc \notin {"trim", "finish"}
                <4>1. \A g \in Handles \ {h} : handle[g].pc \notin Sync BY <1>2, Roles
                <4> QED BY <1>0, <4>1 DEF Sync
            <3> QED BY <3>1 DEF Past
        <2>2. Cur.made BY <1>0, <1>1, Facts DEF Placed, Place
        <2>3. recovery' = recovery \cup {Saved(Cur, handle[h].full, handle[h].stamp)} BY <1>1 DEF QuarantineSave
        <2>4. Rebuilds(Saved(Cur, handle[h].full, handle[h].stamp)) BY <1>1, <2>1, <2>2, SavedSound
        <2> QED BY <2>3, <2>4, Facts DEF Recovered
    <1>9. left' \in Budget BY <1>0, Facts DEF Typed
    <1> QED BY <1>0, <1>4, <1>6, <1>7, <1>8, <1>9, Ceased

-----------------------------------------------------------------------------
(* Opens and drops.                                                        *)

\* A handle that does nothing with the overlay comes or goes.
LEMMA Sharing ==
    ASSUME PathInv, DataInv, NEW h \in Handles, handle[h].pc \notin Sync \cup {"saving"},
           ~Cares(handle[h], current), \A g \in Handles \ {h} : handle'[g] = handle[g],
           handle'[h].pc \notin Sync \cup {"saving"}, Place(handle'[h], Filed, current, Cur.made),
           UNCHANGED <<ns, current, dir, tracked, mounted, recovery>>, UNCHANGED <<stored, mode, app>>,
           left' \in Budget,
           \A s \in Slots : DataFields \subseteq DOMAIN states'[s] /\ Sized(states'[s]),
           current # 0 => Alike(Cur', Cur) /\ Cur'.closed = Cur.closed
    PROVE  DataInv'
    <1>0. /\ Typed /\ Covered /\ Unmade /\ Grounded /\ Cared /\ Nameless /\ Staged /\ Placed /\ Pending
          /\ Recovered /\ Removing
        BY Facts
    <1>1. Filed' = Filed /\ File' = File /\ Landed' = Landed BY DEF Filed, File, Landed
    <1>2. Past' <=> Past BY DEF Past, Sync
    <1>3. current # 0 => /\ Cur'.path = Cur.path /\ Cur'.deleted = Cur.deleted /\ Cur'.poisoned = Cur.poisoned
                         /\ Cur'.made = Cur.made /\ Cur'.base = Cur.base /\ Cur'.size = Cur.size
                         /\ Cur'.dirty = Cur.dirty /\ Cur'.temp = Cur.temp /\ Cur'.auth = Cur.auth
                         /\ Cur'.hasSnap = Cur.hasSnap /\ Cur'.snap = Cur.snap /\ Cur'.pending = Cur.pending
                         /\ Cur'.half = Cur.half /\ (Uncommitted(Cur') <=> Uncommitted(Cur))
        BY Same, AlikeDone
    <1>4. Typed' BY <1>0, <1>1 DEF Typed
    <1>5. Covered'
        <2> SUFFICES ASSUME current # 0, Cur.made
                     PROVE  /\ Cover(Cur', File, app, mode["file"], Past)
                            /\ Based(Cur', Lost(Cur.path), dir.pc = "hub", Past)
            BY <1>1, <1>2, <1>3 DEF Covered, Cover, Based, Lost
        <2>1. Cover(Cur, File, app, mode["file"], Past) /\ Based(Cur, Lost(Cur.path), dir.pc = "hub", Past)
            BY <1>0 DEF Covered
        <2> QED BY <2>1, AlikeCovers, AlikeBased
    <1>6. Unmade' BY <1>0, <1>1, <1>3 DEF Unmade, Fresh, Reached, Lost
    <1>7. Grounded' BY <1>0, <1>1, <1>3 DEF Grounded
    <1>8. Cared'
        <2> SUFFICES ASSUME current # 0, Cur.made, Uncommitted(Cur), Filed # {}
                     PROVE  \E g \in Handles : Cares(handle'[g], current)
            BY <1>1, <1>3 DEF Cared
        <2>1. PICK g \in Handles : Cares(handle[g], current) BY <1>0 DEF Cared
        <2>2. g # h BY <2>1
        <2> QED BY <2>1, <2>2
    <1>9. Nameless' BY <1>0, <1>1, <1>3 DEF Nameless
    <1>10. Staged'
        <2>1. \A g \in Handles : handle[g].pc = "saving" => handle'[g].pc = "saving" OBVIOUS
        <2> QED BY <1>0, <1>3, <2>1 DEF Staged
    <1>11. Placed'
        <2>0. ASSUME NEW x, Place(x, Filed, current, Cur.made), current = 0 \/ Cur'.made = Cur.made
              PROVE  Place(x, Filed, current, Cur'.made)
            BY <2>0 DEF Place
        <2>1. ASSUME NEW g \in Handles PROVE Place(handle'[g], Filed, current, Cur.made)
            BY <1>0 DEF Placed
        <2> QED BY <1>1, <1>3, <2>0, <2>1 DEF Placed
    <1>12. Pending'
        <2>1. ASSUME NEW g \in Handles, handle'[g].pc \in Sync PROVE Bound(handle'[g], Cur', File, app.bytes)
            <3>1. handle'[g] = handle[g] /\ handle[g].pc \in Sync BY <2>1
            <3>2. handle[g].slot = current /\ handle[g].slot \in Slots BY <3>1, Roles DEF Sync
            <3>3. current # 0 BY <3>2, Mounts
            <3>4. Bound(handle[g], Cur, File, app.bytes) BY <1>0 DEF Pending
            <3> QED BY <3>1, <3>3, <3>4, AlikeBound
        <2>2. \A g \in Handles : Bound(handle'[g], Cur', File, app.bytes) BY <2>1, NoSync
        <2> QED BY <1>1, <2>2 DEF Pending
    <1>13. Recovered' BY <1>0 DEF Recovered
    <1>14. Removing' BY <1>0 DEF Removing
    <1> QED BY <1>4, <1>5, <1>6, <1>7, <1>8, <1>9, <1>10, <1>11, <1>12, <1>13, <1>14 DEF DataInv

LEMMA Blank0 ==
    /\ DataFields \subseteq DOMAIN Free /\ Sized(Free) /\ HandleFields \subseteq DOMAIN Rest
    /\ Rest.slot = 0 /\ Rest.pc = "closed" /\ Rest.path = "" /\ ~Rest.failed
    /\ \A p : LET w == Overlay(p, 0)
              IN  /\ DataFields \subseteq DOMAIN w /\ Sized(w) /\ w.path = p /\ ~w.deleted /\ ~w.poisoned /\ ~w.closed
                  /\ ~w.made /\ w.base = 0 /\ w.size = 0 /\ w.dirty = {} /\ w.temp \in Seq(Int) /\ ~w.auth
                  /\ ~w.hasSnap /\ w.pending = 0 /\ ~w.half
    <1>1. Resize(<<>>, 0) \in Seq(Int)
        <2>1. <<>> \in Seq(Int) OBVIOUS
        <2>2. Resize(<<>>, 0) \in Image(0) BY <2>1, Resizes
        <2> QED BY <2>2, Images
    <1>2. ASSUME NEW p
          PROVE  LET w == Overlay(p, 0)
                 IN  /\ DataFields \subseteq DOMAIN w /\ Sized(w) /\ w.path = p /\ ~w.deleted /\ ~w.poisoned /\ ~w.closed
                     /\ ~w.made /\ w.base = 0 /\ w.size = 0 /\ w.dirty = {} /\ w.temp \in Seq(Int) /\ ~w.auth
                     /\ ~w.hasSnap /\ w.pending = 0 /\ ~w.half
        BY <1>1 DEF Overlay, DataFields, Sized
    <1>3. DataFields \subseteq DOMAIN Free /\ Sized(Free)
        <2> DEFINE w == Overlay("", 0)
        <2>1. Free = [w EXCEPT !.refs = 0] BY DEF Free
        <2>2. DataFields \subseteq DOMAIN w /\ Sized(w) BY <1>2
        <2> HIDE DEF w
        <2> QED BY <2>1, <2>2 DEF DataFields, Sized
    <1>4. HandleFields \subseteq DOMAIN Rest /\ Rest.slot = 0 /\ Rest.pc = "closed" /\ Rest.path = "" /\ ~Rest.failed
        BY DEF Rest, HandleFields
    <1> QED BY <1>2, <1>3, <1>4

LEMMA RestAside == Aloof(Rest, Filed) /\ \A made : Place(Rest, Filed, current, made)
    BY Blank0 DEF Aloof, Place, Stages, Sync

LEMMA DropKept ==
    ASSUME PathInv, DataInv, NEW h \in Handles, Drop(h)
    PROVE  DataInv'
    <1> DEFINE k == handle[h].slot
               used == \E g \in Handles \ {h} : handle[g].slot = k
               last == current = k /\ LastRef(states[k])
               w == IF ~used THEN Free
                    ELSE IF last THEN [State(h) EXCEPT !.closed = TRUE, !.refs = 0]
                    ELSE IF current = k THEN [State(h) EXCEPT !.refs = @ - 1] ELSE State(h)
    <1>0. /\ handle[h].pc = "ref" /\ UNCHANGED <<ns, stored, mode, dir, tracked, recovery, mounted, app, left>>
          /\ current' = (IF last THEN 0 ELSE current) /\ handle' = [handle EXCEPT ![h] = Rest]
        BY DEF Drop, storeVars
    <1>1. DOMAIN states = Slots /\ DOMAIN handle = Handles /\ k \in Slots /\ k # 0 /\ State(h) = states[k]
        BY <1>0, Roles, Mounts DEF State
    <1>2. states' = [states EXCEPT ![k] = w]
        <2>1. CASE ~used
            <3>1. states' = [states EXCEPT ![k] = Free] BY <2>1 DEF Drop
            <3>2. w = Free BY <2>1
            <3> QED BY <3>1, <3>2
        <2>2. CASE used /\ last
            <3>1. states' = [states EXCEPT ![k] = [@ EXCEPT !.closed = TRUE, !.refs = 0]] BY <2>2 DEF Drop
            <3>2. w = [State(h) EXCEPT !.closed = TRUE, !.refs = 0] BY <2>2
            <3> HIDE DEF w
            <3> QED BY <1>1, <3>1, <3>2
        <2>3. CASE used /\ ~last /\ current = k
            <3>1. states' = [states EXCEPT ![k] = [states[k] EXCEPT !.refs = @ - 1]] BY <2>3 DEF Drop
            <3>2. w = [State(h) EXCEPT !.refs = @ - 1] BY <2>3
            <3> HIDE DEF w
            <3> QED BY <1>1, <3>1, <3>2
        <2>4. CASE used /\ current # k
            <3>1. states' = [states EXCEPT ![k] = @] BY <2>4 DEF Drop
            <3>2. w = State(h) BY <2>4
            <3> HIDE DEF w
            <3> QED BY <1>1, <3>1, <3>2
        <2> QED BY <2>1, <2>2, <2>3, <2>4
    <1>3. \A s \in Slots : DataFields \subseteq DOMAIN states[s] /\ Sized(states[s]) BY Facts DEF Typed
    <1>4. /\ DataFields \subseteq DOMAIN w /\ Sized(w)
          /\ used /\ ~last => (current = k => Alike(w, State(h)) /\ w.closed = State(h).closed)
        <2>1. DataFields \subseteq DOMAIN State(h) /\ Sized(State(h)) BY <1>1, <1>3
        <2>2. CASE ~used BY <2>2, Blank0
        <2>3. CASE used /\ last
            <3>1. w = [State(h) EXCEPT !.closed = TRUE, !.refs = 0] BY <2>3
            <3> HIDE DEF w, last, used
            <3> QED BY <2>1, <2>3, <3>1 DEF DataFields, Sized
        <2>4. CASE used /\ ~last /\ current = k
            <3>1. w = [State(h) EXCEPT !.refs = @ - 1] BY <2>4
            <3> HIDE DEF w, last, used
            <3> QED BY <2>1, <2>4, <3>1 DEF DataFields, Sized, Alike, Lots
        <2>5. CASE used /\ ~last /\ current # k BY <2>1, <2>5
        <2> QED BY <2>2, <2>3, <2>4, <2>5
    <1>5. /\ \A s \in Slots : DataFields \subseteq DOMAIN states'[s] /\ Sized(states'[s])
          /\ states'[k] = w /\ \A s \in Slots \ {k} : states'[s] = states[s]
        <2> HIDE DEF w, used, last
        <2> QED BY <1>1, <1>2, <1>3, <1>4
    <1>6. handle'[h] = Rest /\ \A g \in Handles \ {h} : handle'[g] = handle[g] BY <1>0, <1>1
    <1>7. left' \in Budget BY <1>0, Facts DEF Typed
    <1>8. CASE last
        <2>1. handle[h].slot = current /\ State(h).refs <= 1 /\ current' = 0 /\ current # 0 /\ State(h) = Cur
              /\ current \in Slots
            BY <1>0, <1>1, <1>8 DEF LastRef, Cur
        <2>2. \A g \in Handles \ {h} : handle[g].slot # current BY <1>0, <2>1, Alone
        <2>3. Filed # {} => app = Landed
            <3> SUFFICES ASSUME Filed # {} PROVE app = Landed OBVIOUS
            <3>1. Cur.made BY <1>0, <2>1, Facts DEF Placed, Place
            <3>2. ~Uncommitted(Cur)
                <4>1. \A g \in Handles : ~Cares(handle[g], current) BY <1>0, <2>2 DEF Cares, Resp
                <4> QED BY <2>1, <3>1, <4>1, Facts DEF Cared
            <3>3. ~Past
                <4>1. \A g \in Handles \ {h} : handle[g].pc \notin Sync BY <2>2, Roles
                <4> QED BY <1>0, <4>1 DEF Past, Sync
            <3>4. /\ Good(Cur, File, app.bytes) /\ FitsIn(Cur, File) /\ File \in Seq(Int)
                  /\ app.mode = IF Cur.pending = 0 THEN mode["file"] ELSE Cur.pending
                  /\ app = [bytes |-> app.bytes, mode |-> app.mode]
                BY <2>1, <3>1, <3>3, Facts DEF Covered, Cover, Typed
            <3>5. File = app.bytes /\ app.mode = mode["file"]
                BY <3>2, <3>4, CleanExact DEF Uncommitted, HasPending
            <3> QED BY <3>4, <3>5 DEF Landed, File
        <2>4. \A g \in Handles : Aloof(handle'[g], Filed) BY <1>6, <2>2, RestAside, Astray
        <2>5. Recovered' BY <1>0, Facts DEF Recovered
        <2> HIDE DEF w, used, last, k
        <2> QED BY <1>0, <1>5, <1>7, <2>1, <2>3, <2>4, <2>5, Ceased
    <1>9. CASE ~last
        <2>1. current' = current BY <1>0, <1>9
        <2>2. current # 0 => Alike(Cur', Cur) /\ Cur'.closed = Cur.closed
            <3> SUFFICES ASSUME current # 0 PROVE Alike(Cur', Cur) /\ Cur'.closed = Cur.closed OBVIOUS
            <3>1. current \in Slots BY Sourced
            <3>2. CASE current = k
                <4>1. used
                    <5> DEFINE S == {g \in Handles : handle[g].slot = current}
                    <5>1. SUFFICES ASSUME ~used PROVE FALSE OBVIOUS
                    <5>2. S = {h} BY <3>2, <5>1
                    <5>3. Cardinality(S) = 1 BY <5>2, FS_Singleton
                    <5>4. State(h).refs = Cardinality(S) BY <1>1, <3>2, Facts DEF Slotted
                    <5> QED BY <1>1, <1>9, <3>2, <5>3, <5>4 DEF LastRef
                <4>2. Alike(w, State(h)) /\ w.closed = State(h).closed BY <1>4, <1>9, <3>2, <4>1
                <4>3. Cur' = w /\ Cur = State(h) BY <1>1, <1>5, <2>1, <3>2 DEF Cur
                <4> HIDE DEF w, used, last, k
                <4> QED BY <4>2, <4>3
            <3>3. CASE current # k
                <4>1. Cur' = Cur BY <1>5, <2>1, <3>1, <3>3 DEF Cur
                <4>2. DataFields \subseteq DOMAIN Cur BY <1>3, <3>1 DEF Cur
                <4> QED BY <4>1, <4>2 DEF Alike
            <3> QED BY <3>2, <3>3
        <2>3. ~Cares(handle[h], current) /\ handle[h].pc \notin Sync \cup {"saving"} BY <1>0 DEF Cares, Resp, Sync
        <2>4. Place(handle'[h], Filed, current, Cur.made) /\ handle'[h].pc \notin Sync \cup {"saving"}
            BY <1>6, RestAside, Blank0 DEF Sync
        <2> HIDE DEF w, used, last, k
        <2> QED BY <1>0, <1>5, <1>6, <1>7, <2>1, <2>2, <2>3, <2>4, Sharing
    <1> QED BY <1>8, <1>9

\* A state is made from what is stored.
Stocked(w, n) == [WithSize(w, n) EXCEPT !.made = TRUE, !.base = n]
LEMMA Filling ==
    ASSUME NEW w, NEW file \in Seq(Int), Fresh(w, file, "file", FALSE), DataFields \subseteq DOMAIN w,
           NEW u, u = Stocked(w, Len(file))
    PROVE  /\ Good(u, file, file) /\ FitsIn(u, file) /\ u.made /\ ~Uncommitted(u) /\ u.pending = 0
           /\ u.path = w.path /\ u.deleted = w.deleted /\ u.poisoned = w.poisoned /\ u.closed = w.closed
           /\ u.hasSnap = w.hasSnap
    <1> DEFINE n == Len(file)
               v == WithSize(w, n)
    <1>0. n \in Nat /\ file \in Image(n) BY Images
    <1>1. /\ w.dirty = {} /\ w.pending = 0 /\ ~w.auth /\ ~w.half /\ w.temp \in Seq(Int)
          /\ w.hasSnap => w.snap = file
        BY DEF Fresh
    <1>2. /\ DataFields \subseteq DOMAIN v /\ v.size = n /\ v.temp = Resize(w.temp, n)
          /\ v.dirty = {b \in w.dirty : b < n} /\ \A x \in DataFields \ {"size", "temp", "dirty"} : v[x] = w[x]
        BY Cutting
    <1>3. u = [v EXCEPT !.made = TRUE, !.base = n] BY DEF Stocked
    <1>4. Resize(w.temp, n) \in Image(n) BY <1>0, <1>1, Resizes
    <1> HIDE DEF n, v
    <1>5. /\ DataFields \subseteq DOMAIN u /\ u.size = n /\ u.base = n /\ u.made /\ u.temp \in Image(n) /\ u.dirty = {}
          /\ \A x \in DataFields \ {"size", "temp", "dirty", "base", "made"} : u[x] = w[x]
        <2>1. v.dirty = {} BY <1>1, <1>2
        <2>2. DOMAIN u = DOMAIN v /\ {"made", "base"} \subseteq DOMAIN v BY <1>2, <1>3 DEF DataFields
        <2>3. u.made /\ u.base = n /\ \A x \in DataFields \ {"made", "base"} : u[x] = v[x]
            BY <1>2, <1>3, <2>2
        <2>4. u.size = v.size /\ u.temp = v.temp /\ u.dirty = v.dirty BY <2>3 DEF DataFields
        <2> QED BY <1>2, <1>4, <2>1, <2>2, <2>3, <2>4
    <1>6. /\ u.pending = w.pending /\ u.auth = w.auth /\ u.half = w.half /\ u.hasSnap = w.hasSnap /\ u.snap = w.snap
          /\ u.path = w.path /\ u.deleted = w.deleted /\ u.poisoned = w.poisoned /\ u.closed = w.closed
        BY <1>5 DEF DataFields
    <1>7. Agrees(u, file, file)
        <2>1. Clean(u) \subseteq Span(0, n) BY <1>5 DEF Clean
        <2>2. \A b \in Span(0, n) : b < n BY <1>0 DEF Span
        <2> QED BY <2>1, <2>2 DEF Agrees, n
    <1>8. Span(u.base, u.size) = {}
        <2>1. \A b : b \notin Span(n, n) BY <1>0 DEF Span
        <2> QED BY <1>5, <2>1
    <1>9. Sound(u, file)
        <2>1. u.hasSnap => u.snap \in Seq(Int) /\ Agrees(u, u.snap, file) BY <1>1, <1>6, <1>7
        <2> QED BY <1>0, <1>1, <1>5, <1>6, <1>8, <2>1 DEF Sound
    <1>10. Good(u, file, file) BY <1>0, <1>1, <1>5, <1>6, <1>7, <1>9 DEF Good, Sized
    <1>11. FitsIn(u, file)
        <2>1. Len(file) <= n BY <1>0 DEF n
        <2> QED BY <1>5, <2>1 DEF FitsIn
    <1> QED BY <1>1, <1>5, <1>6, <1>10, <1>11 DEF Uncommitted, HasPending

LEMMA MakeKept ==
    ASSUME PathInv, DataInv, NEW h \in Handles, Materialize(h)
    PROVE  DataInv'
    <1>0. /\ handle[h].pc = "making" /\ UNCHANGED <<ns, stored, mode, dir, tracked, recovery, mounted, app>>
        BY DEF Materialize, storeVars
    <1>1. /\ DOMAIN handle = Handles /\ DOMAIN states = Slots /\ HandleFields \subseteq DOMAIN handle[h]
          /\ handle[h].slot = current /\ current \in Slots /\ current # 0 /\ State(h) = Cur
        BY <1>0, Roles, Mounts, Facts DEF Placed, Place, State, Cur
    <1>2. /\ \A g \in Handles \ {h} : handle[g].slot # current
          /\ handle[h].why \in {"open", "trunc"} /\ ~Cur.made
        BY <1>0, <1>1, Facts DEF Slotted, Cur
    <1>3. \A g \in Handles \ {h} : handle[g].pc \notin Sync BY <1>2, Roles
    <1>4. Fresh(Cur, File, Reached(Cur.path), Lost(Cur.path)) BY <1>1, <1>2, Facts DEF Unmade
    <1>5. DataFields \subseteq DOMAIN Cur /\ Sized(Cur) BY <1>1, Sourced
    <1> DEFINE found == Reached(Cur.path) # "none"
               size == Len(Content(Cur.path))
               u == [WithSize(Cur, size) EXCEPT !.made = TRUE, !.base = size]
               v == IF Cur.refs = 1 THEN Free ELSE [Cur EXCEPT !.closed = TRUE]
               p == [handle[h] EXCEPT !.pc = handle[h].why]
    <1>6. \/ /\ found /\ states' = [states EXCEPT ![current] = u]
             /\ handle' = [handle EXCEPT ![h] = p] /\ UNCHANGED <<current, left>>
          \/ /\ states' = [states EXCEPT ![current] = v] /\ current' = 0
             /\ handle' = [handle EXCEPT ![h] = Rest] /\ (Spend("fault") \/ UNCHANGED left)
        <2>1. states[handle[h].slot] = Cur BY <1>1 DEF Cur
        <2>2. \/ /\ found /\ states' = [states EXCEPT ![handle[h].slot] =
                                          [WithSize(Cur, size) EXCEPT !.made = TRUE, !.base = size]]
                 /\ handle' = [handle EXCEPT ![h].pc = handle[h].why] /\ UNCHANGED <<current, left>>
              \/ /\ states' = [states EXCEPT ![handle[h].slot] = IF @.refs = 1 THEN Free ELSE [@ EXCEPT !.closed = TRUE]]
                 /\ current' = IF current = handle[h].slot THEN 0 ELSE current
                 /\ handle' = [handle EXCEPT ![h] = Rest] /\ (Spend("fault") \/ UNCHANGED left)
            BY <2>1 DEF Materialize
        <2>3. CASE /\ found /\ states' = [states EXCEPT ![handle[h].slot] =
                                          [WithSize(Cur, size) EXCEPT !.made = TRUE, !.base = size]]
                   /\ handle' = [handle EXCEPT ![h].pc = handle[h].why] /\ UNCHANGED <<current, left>>
            <3>1. handle' = [handle EXCEPT ![h] = p] BY <1>1, <2>3
            <3> QED BY <1>1, <2>3, <3>1
        <2>4. CASE /\ states' = [states EXCEPT ![handle[h].slot] = IF @.refs = 1 THEN Free ELSE [@ EXCEPT !.closed = TRUE]]
                   /\ current' = IF current = handle[h].slot THEN 0 ELSE current
                   /\ handle' = [handle EXCEPT ![h] = Rest] /\ (Spend("fault") \/ UNCHANGED left)
            <3>1. states' = [states EXCEPT ![current] = v] BY <1>1, <2>1, <2>4
            <3> HIDE DEF v
            <3> QED BY <1>1, <2>4, <3>1
        <2> HIDE DEF found, size, u, v, p
        <2> QED BY <2>2, <2>3, <2>4 DEF found, size
    <1>7. CASE /\ found /\ states' = [states EXCEPT ![current] = u]
               /\ handle' = [handle EXCEPT ![h] = p] /\ UNCHANGED <<current, left>>
        <2>1. Cur.path # "" /\ ns[Cur.path] = "file" /\ Cur.path \in Names
            <3>1. Cur.path # "" BY <1>7 DEF Reached
            <3>2. Cur.path \in tracked \cup {""} \cup (IF dir.pc = "states" THEN {dir.src} ELSE {})
                BY <1>1, Facts DEF Under, Cur
            <3>3. Cur.path \in Names BY <3>1, <3>2, Facts DEF Shapes, Removing
            <3>4. ns[Cur.path] \in {"file", "stranger", "none"} BY <3>3, Mounts, Facts DEF Shapes
            <3>5. Reached(Cur.path) = ns[Cur.path] BY <3>1 DEF Reached
            <3>6. Reached(Cur.path) # "stranger" BY <1>4 DEF Fresh
            <3> QED BY <1>7, <3>1, <3>3, <3>4, <3>5, <3>6
        <2>2. Reached(Cur.path) = "file" /\ Content(Cur.path) = File BY <2>1 DEF Content, Reached, File
        <2>3. Filed # {} BY <2>1 DEF Filed
        <2>4. app = Landed BY <1>1, <1>2, <2>3, Facts DEF Grounded
        <2>5. app.bytes = File /\ app.mode = mode["file"] /\ File \in Seq(Int)
            BY <2>4, Facts DEF Landed, File, Typed
        <2>6. u = Stocked(Cur, Len(File)) BY <2>2 DEF Stocked
        <2> HIDE DEF u, found, size
        <2>7. /\ Good(u, File, File) /\ FitsIn(u, File) /\ u.made /\ ~Uncommitted(u) /\ u.pending = 0
              /\ u.path = Cur.path /\ u.deleted = Cur.deleted /\ u.poisoned = Cur.poisoned /\ u.closed = Cur.closed
              /\ Lost(Cur.path) => u.hasSnap
            <3>1. Fresh(Cur, File, "file", FALSE) BY <1>4, <2>2 DEF Fresh
            <3>2. Lost(Cur.path) => Cur.hasSnap BY <1>4 DEF Fresh
            <3>3. DataFields \subseteq DOMAIN Cur /\ File \in Seq(Int) BY <1>5, <2>5
            <3>4. Good(u, File, File) BY <2>6, <3>1, <3>3, Filling
            <3>5. /\ FitsIn(u, File) /\ u.made /\ ~Uncommitted(u) /\ u.pending = 0 BY <2>6, <3>1, <3>3, Filling
            <3>6. /\ u.path = Cur.path /\ u.deleted = Cur.deleted /\ u.poisoned = Cur.poisoned /\ u.closed = Cur.closed
                  /\ u.hasSnap = Cur.hasSnap
                BY <2>6, <3>1, <3>3, Filling
            <3>7. Lost(Cur.path) => u.hasSnap BY <3>2, <3>6
            <3> QED BY <3>4, <3>5, <3>6, <3>7
        <2>8. /\ HandleFields \subseteq DOMAIN p /\ p.slot = handle[h].slot /\ p.path = handle[h].path
              /\ p.pc \in {"open", "trunc"}
            BY <1>1, <1>2 DEF HandleFields
        <2> HIDE DEF p
        <2>9. Keeps(h) /\ handle'[h] = p BY <1>7, <2>8, Posed
        <2>10. Cur' = u /\ (\A s \in Slots \ {current} : states'[s] = states[s])
            BY <1>1, <1>7 DEF Cur
        <2>11. File' = File BY <1>0 DEF File
        <2>12. Cover(Cur', File', app', mode'["file"], Passed(p))
            BY <1>0, <2>5, <2>7, <2>10, <2>11 DEF Cover
        <2>13. Based(Cur', Lost(Cur.path), dir.pc = "hub", Passed(p)) BY <2>1, <2>7, <2>10 DEF Based
        <2>14. Stands(h) BY <1>0, <1>7, <2>9, <2>10 DEF Stands
        <2>15. p.pc \notin Sync /\ p.pc \in Stages /\ p.pc \notin {"failed", "saving"} /\ handle[h].pc # "saving"
            BY <1>0, <2>8 DEF Sync, Stages
        <2>16. Bound(p, Cur', File', app'.bytes) BY <2>15, NoSync
        <2>17. left' \in Budget BY <1>7, Facts DEF Typed
        <2>18. app'.bytes \in Seq(Int) /\ app' = [bytes |-> app'.bytes, mode |-> app'.mode] /\ File' \in Seq(Int)
            BY <1>0, <2>11, Facts DEF Typed
        <2> QED BY <1>1, <1>3, <2>7, <2>9, <2>10, <2>12, <2>13, <2>14, <2>15, <2>16, <2>17, <2>18, Handling
    <1>8. CASE /\ states' = [states EXCEPT ![current] = v] /\ current' = 0
               /\ handle' = [handle EXCEPT ![h] = Rest] /\ (Spend("fault") \/ UNCHANGED left)
        <2>1. DataFields \subseteq DOMAIN v /\ Sized(v) BY <1>5, Blank0 DEF DataFields, Sized
        <2> HIDE DEF v, u, p, found, size
        <2>2. \A s \in Slots : DataFields \subseteq DOMAIN states'[s] /\ Sized(states'[s])
            BY <1>1, <1>8, <2>1, Facts DEF Typed
        <2>3. \A g \in Handles : Aloof(handle'[g], Filed)
            <3>1. handle'[h] = Rest /\ \A g \in Handles \ {h} : handle'[g] = handle[g] BY <1>1, <1>8
            <3> QED BY <1>2, <3>1, RestAside, Astray
        <2>4. Filed # {} => app = Landed BY <1>1, <1>2, Facts DEF Grounded
        <2>5. left' \in Budget BY <1>8, Spent, Facts DEF Typed
        <2>6. Recovered' BY <1>0, Facts DEF Recovered
        <2> QED BY <1>0, <1>8, <2>2, <2>3, <2>4, <2>5, <2>6, Ceased
    <1> HIDE DEF u, v, p, found, size
    <1> QED BY <1>6, <1>7, <1>8

\* While an open goes on, the name it uses is not the one that goes.
LEMMA Steadfast ==
    ASSUME PathInv, DataInv, NEW p \in tracked, ns[p] = "file", dir.pc # "hub", ~Renaming, mounted
    PROVE  ~Lost(p)
    <1>0. Named /\ Removing BY Facts
    <1>1. SUFFICES ASSUME dir.pc # "idle", p = dir.dst, dir.pc = "states" => dir.src = dir.dst PROVE FALSE
        BY DEF Lost
    <1>2. dir.pc \in {"handles", "states"} /\ dir.kind = "unlink" BY <1>0, <1>1 DEF Named, Renaming
    <1>3. dir.src = dir.dst BY <1>0, <1>2 DEF Removing
    <1>4. CASE dir.pc = "handles" BY <1>0, <1>1, <1>3, <1>4 DEF Named
    <1>5. CASE dir.pc = "states" BY <1>0, <1>1, <1>3, <1>5 DEF Removing
    <1> QED BY <1>2, <1>4, <1>5

LEMMA OpenKept ==
    ASSUME PathInv, DataInv, Sealed, NEW h \in Handles, NEW trunc \in BOOLEAN, Open(h, trunc)
    PROVE  DataInv'
    <1> DEFINE goal == IF trunc THEN "trunc" ELSE "open"
    <1>0. /\ mounted /\ handle[h].pc = "closed" /\ Spend("open")
          /\ UNCHANGED <<ns, stored, mode, dir, tracked, recovery, mounted, app>>
        BY DEF Open, storeVars
    <1>1. /\ DOMAIN states = Slots /\ DOMAIN handle = Handles /\ handle[h].slot = 0
          /\ dir.pc # "hub" /\ ~Renaming
        BY <1>0, Roles, Facts DEF Slotted, Open, Quiet, Sealed, Racing
    <1>g. goal \in {"open", "trunc"} OBVIOUS
    <1>2. left' \in Budget BY <1>0, Spent, Facts DEF Typed
    <1>3. PICK path \in tracked :
             /\ ns[path] = "file"
             /\ IF current # 0
                THEN /\ states[current].made
                     /\ states' = [states EXCEPT ![current].refs = @ + 1]
                     /\ handle' = [handle EXCEPT ![h] = [Rest EXCEPT !.pc = goal, !.path = path, !.slot = current]]
                     /\ UNCHANGED current
                ELSE \E s \in Slots :
                     /\ states[s] = Free
                     /\ states' = [states EXCEPT ![s] = Overlay(path, 0)] /\ current' = s
                     /\ handle' = [handle EXCEPT ![h] = [Rest EXCEPT !.pc = "making", !.path = path, !.slot = s,
                                                                     !.why = goal]]
        BY DEF Open, Sealed, Racing
    <1>4. path \in Names /\ path # "" BY <1>3, Mounts, Facts DEF Shapes
    <1> HIDE DEF goal
    <1>5. CASE current # 0
        <2> DEFINE p == [Rest EXCEPT !.pc = goal, !.path = path, !.slot = current]
                   w == [Cur EXCEPT !.refs = @ + 1]
        <2>1. /\ Cur.made /\ handle' = [handle EXCEPT ![h] = p] /\ UNCHANGED current /\ current \in Slots
              /\ states' = [states EXCEPT ![current] = w]
            BY <1>3, <1>5, Sourced DEF Cur
        <2>2. /\ HandleFields \subseteq DOMAIN p /\ p.slot = current /\ p.path = path /\ p.pc = goal
            BY DEF Rest, HandleFields
        <2> HIDE DEF p
        <2>3. DataFields \subseteq DOMAIN Cur /\ Sized(Cur) BY <1>5, Sourced
        <2>4. Alike(w, Cur) /\ w.closed = Cur.closed /\ DataFields \subseteq DOMAIN w /\ Sized(w)
            BY <2>3 DEF Alike, DataFields, Lots, Sized
        <2> HIDE DEF w
        <2>5. Cur' = w /\ \A s \in Slots \ {current} : states'[s] = states[s] BY <1>1, <2>1 DEF Cur
        <2>6. \A s \in Slots : DataFields \subseteq DOMAIN states'[s] /\ Sized(states'[s])
            BY <1>1, <2>1, <2>4, <2>5, Facts DEF Typed
        <2>7. handle'[h] = p /\ \A g \in Handles \ {h} : handle'[g] = handle[g] BY <1>1, <2>1
        <2>8. Place(p, Filed, current, Cur.made) /\ p.pc \notin Sync \cup {"saving"}
            BY <1>4, <1>g, <2>1, <2>2 DEF Place, Stages, Sync
        <2>9. ~Cares(handle[h], current) /\ handle[h].pc \notin Sync \cup {"saving"}
            BY <1>0 DEF Cares, Resp, Sync
        <2> QED BY <1>0, <1>2, <2>1, <2>4, <2>5, <2>6, <2>7, <2>8, <2>9, Sharing
    <1>6. CASE current = 0
        <2>1. PICK s \in Slots :
                 /\ states[s] = Free
                 /\ states' = [states EXCEPT ![s] = Overlay(path, 0)] /\ current' = s
                 /\ handle' = [handle EXCEPT ![h] = [Rest EXCEPT !.pc = "making", !.path = path, !.slot = s,
                                                                 !.why = goal]]
            BY <1>3, <1>6
        <2> DEFINE p == [Rest EXCEPT !.pc = "making", !.path = path, !.slot = s, !.why = goal]
                   w == Overlay(path, 0)
        <2>2. /\ HandleFields \subseteq DOMAIN p /\ p.slot = s /\ p.path = path /\ p.pc = "making"
            BY DEF Rest, HandleFields
        <2>3. handle' = [handle EXCEPT ![h] = p] /\ states' = [states EXCEPT ![s] = w] BY <2>1
        <2> HIDE DEF p
        <2>4. /\ DataFields \subseteq DOMAIN w /\ Sized(w) /\ w.path = path /\ ~w.deleted /\ ~w.poisoned /\ ~w.closed
              /\ ~w.made /\ w.base = 0 /\ w.size = 0 /\ w.dirty = {} /\ w.temp \in Seq(Int) /\ ~w.auth
              /\ ~w.hasSnap /\ w.pending = 0 /\ ~w.half
            BY Blank0
        <2> HIDE DEF w
        <2>5. Cur' = w /\ \A t \in Slots \ {s} : states'[t] = states[t] BY <1>1, <2>1, <2>3 DEF Cur
        <2>6. handle'[h] = p /\ \A g \in Handles \ {h} : handle'[g] = handle[g] BY <1>1, <2>3
        <2>7. Filed' = Filed /\ File' = File /\ Landed' = Landed BY <1>0 DEF Filed, File, Landed
        <2>8. s # 0 BY Mounts
        <2>9. \A g \in Handles : handle[g].pc # "closed" => handle[g].slot # s /\ handle[g].slot # 0
            <3>1. ~states[s].poisoned BY <2>1, FreeShape
            <3> QED BY <1>6, <2>8, <3>1, Facts DEF Slotted
        <2>10. \A g \in Handles : handle[g].slot # s BY <2>8, <2>9, Facts DEF Slotted
        <2>11. Typed'
            <3>1. \A t \in Slots : DataFields \subseteq DOMAIN states'[t] /\ Sized(states'[t])
                BY <1>1, <2>3, <2>4, Facts DEF Typed
            <3> QED BY <1>0, <1>2, <2>7, <3>1, Facts DEF Typed
        <2>12. Covered' /\ Cared' BY <2>1, <2>4, <2>5 DEF Covered, Cared
        <2>13. Unmade'
            <3>1. Reached(path) = "file" /\ Reached(path)' = Reached(path) BY <1>0, <1>3, <1>4 DEF Reached
            <3>2. ~Lost(path) /\ ~Lost(path)' BY <1>0, <1>1, <1>3, Steadfast DEF Lost
            <3>3. ~Lost(w.path)' BY <2>4, <3>2 DEF Lost
            <3>4. Reached(w.path)' = "file" BY <2>4, <3>1
            <3>5. Fresh(Cur', File', Reached(Cur.path)', Lost(Cur.path)')
                <4>1. Lost(Cur.path)' = FALSE BY <2>5, <3>3 DEF Lost
                <4>2. Reached(Cur.path)' = "file" BY <2>5, <3>4 DEF Reached
                <4> QED BY <2>4, <2>5, <4>1, <4>2 DEF Fresh
            <3> QED BY <3>5 DEF Unmade
        <2>14. Grounded' BY <1>0, <1>6, <2>7, Facts DEF Grounded
        <2>15. Nameless' BY <1>0, <1>4, <2>4, <2>5, <2>7, Facts DEF Nameless
        <2>16. Staged' BY <2>4, <2>5 DEF Staged
        <2>17. Placed'
            <3>1. ASSUME NEW g \in Handles PROVE Place(handle'[g], Filed, s, Cur'.made)
                <4>1. CASE g = h BY <1>4, <2>2, <2>6, <4>1 DEF Place, Stages
                <4>2. CASE g # h
                    <5>1. Place(handle[g], Filed, current, Cur.made) BY Facts DEF Placed
                    <5>2. handle[g].pc \notin {"making", "saving"} BY <1>6, <2>9, <5>1 DEF Place
                    <5> QED BY <2>6, <2>10, <4>2, <5>1, <5>2 DEF Place
                <4> QED BY <4>1, <4>2
            <3> QED BY <2>1, <2>7, <3>1 DEF Placed
        <2>18. Pending'
            <3>1. \A g \in Handles : handle[g].pc \notin Sync BY <1>6, <2>9, Roles DEF Sync
            <3>2. \A g \in Handles : handle'[g].pc \notin Sync BY <2>2, <2>6, <3>1 DEF Sync
            <3> QED BY <3>2, NoSync DEF Pending
        <2>19. Recovered' /\ Removing' BY <1>0, Facts DEF Recovered, Removing
        <2> QED BY <2>11, <2>12, <2>13, <2>14, <2>15, <2>16, <2>17, <2>18, <2>19 DEF DataInv
    <1> QED BY <1>5, <1>6

-----------------------------------------------------------------------------
(* Directory operations.                                                   *)

\* The file has no name.
Unnamed(filed) == filed = {}

\* The names change; the commits, the file and what was written do not.
LEMMA Steering ==
    ASSUME PathInv, DataInv, UNCHANGED <<stored, mode, current, recovery, app>>, left' \in Budget,
           \A g \in Handles : /\ HandleFields \subseteq DOMAIN handle'[g]
                              /\ handle'[g].pc = handle[g].pc /\ handle'[g].slot = handle[g].slot
                              /\ handle'[g].failed = handle[g].failed
                              /\ handle'[g].slot # 0 /\ handle'[g].path = "" => Unnamed(Filed'),
           Unnamed(Filed) => Unnamed(Filed'),
           \A s \in Slots : DataFields \subseteq DOMAIN states'[s] /\ Sized(states'[s]),
           current # 0 => /\ Cur'.made = Cur.made /\ Cur'.closed = Cur.closed /\ Cur'.poisoned = Cur.poisoned
                          /\ Cur'.dirty = Cur.dirty /\ Cur'.size = Cur.size /\ Cur'.base = Cur.base
                          /\ Cur'.pending = Cur.pending,
           \A g \in Handles : handle[g].pc \in Sync => Bound(handle'[g], Cur', File, app.bytes),
           Covered', Unmade', Nameless', Removing'
    PROVE  DataInv'
    <1>0. /\ Typed /\ Grounded /\ Cared /\ Staged /\ Placed /\ Recovered
        BY Facts
    <1>1. File' = File /\ Landed' = Landed BY DEF File, Landed
    <1>2. current # 0 => (Uncommitted(Cur') <=> Uncommitted(Cur)) BY DEF Uncommitted, HasPending
    <1>3. Typed' BY <1>0, <1>1 DEF Typed
    <1>4. Grounded' BY <1>0, <1>1 DEF Grounded, Unnamed
    <1>5. Cared'
        <2> SUFFICES ASSUME current # 0, Cur.made, Uncommitted(Cur), Filed # {}
                     PROVE  \E g \in Handles : Cares(handle'[g], current)
            BY <1>2 DEF Cared, Unnamed
        <2>1. PICK g \in Handles : Cares(handle[g], current) BY <1>0 DEF Cared
        <2>2. Cares(handle'[g], current) BY <2>1 DEF Cares
        <2> QED BY <2>2
    <1>6. Staged' BY <1>0 DEF Staged
    <1>7. Placed'
        <2>1. ASSUME NEW g \in Handles PROVE Place(handle'[g], Filed', current', Cur'.made)
            <3>1. Place(handle[g], Filed, current, Cur.made) BY <1>0 DEF Placed
            <3>2. handle[g].slot # 0 /\ handle[g].slot = current /\ handle[g].pc # "making" => Cur'.made
                BY <3>1 DEF Place
            <3> QED BY <3>1, <3>2 DEF Place, Unnamed
        <2> QED BY <2>1 DEF Placed
    <1>8. Pending'
        <2>1. ASSUME NEW g \in Handles PROVE Bound(handle'[g], Cur', File, app.bytes)
            <3>1. CASE handle[g].pc \in Sync BY <3>1
            <3>2. CASE handle[g].pc \notin Sync
                <4>1. handle'[g].pc \notin Sync BY <3>2
                <4> QED BY <4>1, NoSync
            <3> QED BY <3>1, <3>2
        <2> QED BY <1>1, <2>1 DEF Pending
    <1>9. Recovered' BY <1>0 DEF Recovered
    <1> QED BY <1>3, <1>4, <1>5, <1>6, <1>7, <1>8, <1>9 DEF DataInv

LEMMA Idling ==
    ASSUME PathInv, DataInv, UNCHANGED <<handle, states, current, stored, app>>
    PROVE  /\ \A g \in Handles : /\ HandleFields \subseteq DOMAIN handle'[g]
                                 /\ handle'[g].pc = handle[g].pc /\ handle'[g].slot = handle[g].slot
                                 /\ handle'[g].failed = handle[g].failed
                                 /\ handle'[g].slot # 0 /\ handle'[g].path = "" => Unnamed(Filed)
           /\ \A s \in Slots : DataFields \subseteq DOMAIN states'[s] /\ Sized(states'[s])
           /\ current # 0 => Cur' = Cur
           /\ \A g \in Handles : handle[g].pc \in Sync => Bound(handle'[g], Cur', File, app.bytes)
           /\ Past' <=> Past
    <1>0. Placed /\ Typed /\ Pending BY Facts
    <1>1. Cur' = Cur BY DEF Cur
    <1> QED BY <1>0, <1>1 DEF Placed, Place, Typed, Pending, Past, Unnamed

\* The base of the state that loses its name is kept before.
LEMMA Snapped ==
    ASSUME NEW w, NEW file \in Seq(Int), DataFields \subseteq DOMAIN w
    PROVE  LET v == [w EXCEPT !.hasSnap = TRUE, !.snap = file]
           IN  /\ DataFields \subseteq DOMAIN v /\ v.hasSnap /\ v.snap = file
               /\ v.path = w.path /\ v.deleted = w.deleted
               /\ v.made = w.made /\ v.closed = w.closed /\ v.poisoned = w.poisoned
               /\ v.dirty = w.dirty /\ v.size = w.size /\ v.base = w.base /\ v.pending = w.pending
               /\ v.temp = w.temp /\ v.auth = w.auth /\ v.half = w.half
               /\ Clean(v) = Clean(w) /\ (Sized(w) => Sized(v))
               /\ \A a, m, past : Cover(w, file, a, m, past) => Cover(v, file, a, m, past)
               /\ \A reached, lost : Fresh(w, file, reached, lost) => Fresh(v, file, reached, TRUE)
    <1> DEFINE v == [w EXCEPT !.hasSnap = TRUE, !.snap = file]
    <1>1. /\ DataFields \subseteq DOMAIN v /\ v.hasSnap /\ v.snap = file
          /\ v.path = w.path /\ v.deleted = w.deleted
          /\ v.made = w.made /\ v.closed = w.closed /\ v.poisoned = w.poisoned
          /\ v.dirty = w.dirty /\ v.size = w.size /\ v.base = w.base /\ v.pending = w.pending
          /\ v.temp = w.temp /\ v.auth = w.auth /\ v.half = w.half
        BY DEF DataFields
    <1> HIDE DEF v
    <1>2. Clean(v) = Clean(w) /\ (Sized(w) => Sized(v)) BY <1>1 DEF Clean, Sized
    <1>3. ASSUME NEW a, NEW m, NEW past, Cover(w, file, a, m, past) PROVE Cover(v, file, a, m, past)
        <2>1. Good(w, file, a.bytes) /\ (~past => FitsIn(w, file)) BY <1>3 DEF Cover
        <2>2. Sound(v, a.bytes) BY <1>1, <1>2, <2>1 DEF Good, Sound, Agrees
        <2>3. Good(v, file, a.bytes) BY <1>1, <1>2, <2>1, <2>2 DEF Good, Agrees, Odd
        <2>4. ~past => FitsIn(v, file) BY <1>1, <2>1 DEF FitsIn
        <2> QED BY <1>1, <1>3, <2>3, <2>4 DEF Cover
    <1>4. \A reached, lost : Fresh(w, file, reached, lost) => Fresh(v, file, reached, TRUE)
        BY <1>1 DEF Fresh
    <1> QED BY <1>1, <1>2, <1>3, <1>4 DEF v

LEMMA DirStartKept ==
    ASSUME PathInv, DataInv, Sealed, NEW kind \in {"unlink", "rename"}, NEW src \in Names, NEW dst \in Names,
           DirStart(kind, src, dst)
    PROVE  DataInv'
    <1>0. Typed /\ Covered /\ Unmade /\ Nameless /\ Named /\ Under BY Facts
    <1>1. /\ mounted /\ dir.pc = "idle" /\ Spend("dir")
          /\ UNCHANGED <<ns, stored, mode, current, handle, tracked, recovery, mounted, app>>
          /\ kind = "unlink" => src = dst
          /\ dir' = [NoDir EXCEPT !.pc = "hub", !.kind = kind, !.src = src, !.dst = dst]
          /\ NeedsSnap(dst) => ~Committing
          /\ states' = IF NeedsSnap(dst)
                       THEN [states EXCEPT ![current].hasSnap = TRUE, ![current].snap = File] ELSE states
        BY DEF DirStart, storeVars, Sealed, Racing, File
    <1>2. dir'.pc = "hub" /\ dir'.kind = kind /\ dir'.src = src /\ dir'.dst = dst BY <1>1 DEF NoDir
    <1>3. Filed' = Filed /\ File' = File /\ File \in Seq(Int) BY <1>0, <1>1 DEF Filed, File, Typed
    <1>4. left' \in Budget BY <1>0, <1>1, Spent DEF Typed
    <1>5. Removing' BY <1>1, <1>2 DEF Removing
    <1>6. \A p : Lost(p)' <=> p = dst BY <1>2 DEF Lost
    <1>7. Past' <=> Past BY <1>1 DEF Past
    <1>8. CASE NeedsSnap(dst)
        <2> DEFINE v == [Cur EXCEPT !.hasSnap = TRUE, !.snap = File]
        <2>0. current # 0 /\ current \in Slots /\ DataFields \subseteq DOMAIN Cur /\ DOMAIN states = Slots
            BY <1>8, Sourced, Facts DEF NeedsSnap, Shapes
        <2>1. states' = [states EXCEPT ![current] = v] BY <1>1, <1>8, <2>0 DEF Cur
        <2>2. /\ DataFields \subseteq DOMAIN v /\ v.hasSnap /\ v.snap = File
              /\ v.path = Cur.path /\ v.deleted = Cur.deleted
              /\ v.made = Cur.made /\ v.closed = Cur.closed /\ v.poisoned = Cur.poisoned
              /\ v.dirty = Cur.dirty /\ v.size = Cur.size /\ v.base = Cur.base /\ v.pending = Cur.pending
              /\ (Sized(Cur) => Sized(v))
              /\ \A a, m, past : Cover(Cur, File, a, m, past) => Cover(v, File, a, m, past)
              /\ \A reached, lost : Fresh(Cur, File, reached, lost) => Fresh(v, File, reached, TRUE)
            BY <1>3, <2>0, Snapped
        <2> HIDE DEF v
        <2>3. Cur' = v /\ \A s \in Slots \ {current} : states'[s] = states[s] BY <1>1, <2>0, <2>1 DEF Cur
        <2>4. \A s \in Slots : DataFields \subseteq DOMAIN states'[s] /\ Sized(states'[s])
            BY <1>0, <2>0, <2>1, <2>2, <2>3, Sourced DEF Typed
        <2>5. Covered'
            <3>1. Cur.made => Cover(v, File, app, mode["file"], Past) BY <1>0, <2>0, <2>2 DEF Covered
            <3>2. \A lost, hub, past : Based(v, lost, hub, past) BY <2>2 DEF Based
            <3>3. Cover(v, File, app, mode["file"], Past) => Cover(v, File, app, mode["file"], Past')
                BY <1>7 DEF Cover
            <3>4. Cur'.made => Cover(Cur', File', app', mode'["file"], Past') BY <1>1, <1>3, <2>2, <2>3, <3>1, <3>3
            <3> QED BY <2>3, <3>2, <3>4 DEF Covered
        <2>6. Unmade'
            <3>1. ~Cur.made => Fresh(v, File, Reached(Cur.path), TRUE) BY <1>0, <2>0, <2>2 DEF Unmade
            <3>2. Reached(Cur.path)' = Reached(Cur.path) BY <1>1, <2>2, <2>3 DEF Reached
            <3>3. \A lost : Fresh(v, File, Reached(Cur.path), TRUE) => Fresh(v, File, Reached(Cur.path), lost)
                BY DEF Fresh
            <3>4. ~Cur.made => Fresh(Cur', File', Reached(Cur.path)', Lost(Cur.path)')
                BY <1>3, <2>3, <3>1, <3>2, <3>3
            <3> QED BY <2>2, <2>3, <3>4 DEF Unmade
        <2>7. Nameless' BY <1>0, <1>1, <1>2, <1>3, <2>2, <2>3 DEF Nameless
        <2>8. \A g \in Handles : handle[g].pc \notin Sync
            <3>1. Cur.held = "" BY <1>1, <1>8, <2>0 DEF Committing, Cur
            <3>2. \A g \in Handles \ {""} : handle[g].pc \notin Sync BY <2>0, <3>1, Only
            <3> QED BY <3>2, Mounts
        <2>9. \A g \in Handles : /\ HandleFields \subseteq DOMAIN handle'[g]
                                 /\ handle'[g].pc = handle[g].pc /\ handle'[g].slot = handle[g].slot
                                 /\ handle'[g].failed = handle[g].failed
                                 /\ handle'[g].slot # 0 /\ handle'[g].path = "" => Unnamed(Filed')
            BY <1>1, <1>3, Facts DEF Placed, Place, Unnamed
        <2> QED BY <1>1, <1>3, <1>4, <1>5, <2>2, <2>3, <2>4, <2>5, <2>6, <2>7, <2>8, <2>9, Steering
    <1>9. CASE ~NeedsSnap(dst)
        <2>1. states' = states /\ (current # 0 => Cur' = Cur) BY <1>1, <1>9 DEF Cur
        <2>2. ASSUME current # 0, Cur.path = dst PROVE Cur.hasSnap
            <3>1. Cur.path \in tracked BY <1>0, <1>1, <2>2, Mounts DEF Under, Cur
            <3>2. tracked = Filed BY <1>0, <1>1 DEF Named
            <3>3. Reached(dst) = "file" BY <2>2, <3>1, <3>2, Mounts DEF Reached, Filed
            <3>4. ~Cur.deleted BY <1>0, <2>2, <3>1, <3>2 DEF Nameless
            <3> QED BY <1>9, <2>2, <3>3, <3>4 DEF NeedsSnap, Cur
        <2>3. Covered'
            <3>1. SUFFICES ASSUME current # 0, Cur.made
                           PROVE  /\ Cover(Cur, File, app, mode["file"], Past)
                                  /\ Based(Cur, Lost(Cur.path)', dir'.pc = "hub", Past)
                BY <1>1, <1>3, <1>7, <2>1 DEF Covered, Cover, Based, Lost
            <3>2. /\ Cover(Cur, File, app, mode["file"], Past)
                  /\ Based(Cur, Lost(Cur.path), dir.pc = "hub", Past)
                BY <1>0, <3>1 DEF Covered
            <3>3. Lost(Cur.path)' => Cur.hasSnap BY <1>2, <2>1, <2>2, <3>1 DEF Lost
            <3> QED BY <3>2, <3>3 DEF Based
        <2>4. Unmade'
            <3>1. SUFFICES ASSUME current # 0, ~Cur.made PROVE Fresh(Cur, File, Reached(Cur.path), Lost(Cur.path)')
                BY <1>1, <1>3, <2>1 DEF Unmade, Reached, Lost, Fresh
            <3>2. Fresh(Cur, File, Reached(Cur.path), Lost(Cur.path)) BY <1>0, <3>1 DEF Unmade
            <3>3. Lost(Cur.path)' => Cur.hasSnap BY <1>2, <2>1, <2>2, <3>1 DEF Lost
            <3> QED BY <3>2, <3>3 DEF Fresh
        <2>5. Nameless' BY <1>0, <1>1, <1>2, <1>3, <2>1 DEF Nameless
        <2>6. UNCHANGED <<handle, states, current, stored, app>> BY <1>1, <2>1
        <2> QED BY <1>1, <1>3, <1>4, <1>5, <2>1, <2>3, <2>4, <2>5, <2>6, Idling, Steering
    <1> QED BY <1>8, <1>9

LEMMA DirHubKept ==
    ASSUME PathInv, DataInv, Sealed, DirHub
    PROVE  DataInv'
    <1>0. Typed /\ Covered /\ Unmade /\ Nameless /\ Named /\ Under /\ Removing /\ ns \in [Names -> Files \cup {"none"}]
        BY Facts DEF Shapes
    <1>1. /\ dir.pc = "hub" /\ mounted /\ Filed = tracked /\ dir.kind \in {"unlink", "rename"}
          /\ dir.src \in Names /\ dir.dst \in Names
          /\ UNCHANGED <<stored, mode, states, current, handle, tracked, recovery, mounted, app>>
        BY <1>0 DEF DirHub, Named
    <1>2. File' = File /\ (current # 0 => Cur' = Cur) BY <1>1 DEF File, Cur
    <1>3. CASE dir' = NoDir /\ UNCHANGED ns /\ Spend("fault")
        <2>1. dir'.pc = "idle" BY <1>3 DEF NoDir
        <2>2. Filed' = Filed /\ left' \in Budget BY <1>0, <1>3, Spent DEF Filed, Typed
        <2>3. UNCHANGED <<handle, states, current, stored, app>> BY <1>1
        <2>4. Past' <=> Past BY <1>1 DEF Past
        <2>5. Covered'
            <3>1. SUFFICES ASSUME current # 0, Cur.made
                           PROVE  /\ Cover(Cur, File, app, mode["file"], Past)
                                  /\ Based(Cur, FALSE, FALSE, Past)
                BY <1>1, <1>2, <2>1, <2>4 DEF Covered, Cover, Based, Lost
            <3> QED BY <1>0, <3>1 DEF Covered, Based
        <2>6. Unmade'
            <3>1. SUFFICES ASSUME current # 0, ~Cur.made PROVE Fresh(Cur, File, Reached(Cur.path), FALSE)
                BY <1>1, <1>2, <1>3, <2>1 DEF Unmade, Reached, Lost, Fresh
            <3> QED BY <1>0, <3>1 DEF Unmade, Fresh
        <2>7. Nameless' BY <1>0, <1>1, <1>2, <2>1, <2>2 DEF Nameless
        <2>8. Removing' BY <2>1 DEF Removing
        <2> QED BY <1>1, <1>2, <2>2, <2>3, <2>5, <2>6, <2>7, <2>8, Idling, Steering
    <1>4. CASE /\ ~(Sending \/ Making) \/ ~(dir.kind = "rename" /\ ns[dir.dst] = "file")
               /\ ns' = IF dir.kind = "rename" THEN Renamed ELSE [ns EXCEPT ![dir.src] = "none"]
               /\ dir' = [dir EXCEPT !.pc = "handles"]
               /\ UNCHANGED left
        <2>1. dir'.pc = "handles" /\ dir'.kind = dir.kind /\ dir'.src = dir.src /\ dir'.dst = dir.dst
            BY <1>4, Facts DEF Shapes
        <2>2. /\ ns' \in [Names -> Files \cup {"none"}]
              /\ dir.kind = "rename" => /\ ns'[dir.dst] = ns[dir.src]
                                        /\ \A n \in Names \ {dir.dst} : ns'[n] = ns[n] \/ ns'[n] = "none"
              /\ dir.kind # "rename" => \A n \in Names : ns'[n] = ns[n] \/ ns'[n] = "none"
            BY <1>0, <1>1, <1>4 DEF Renamed
        <2>3. Unnamed(Filed) => Unnamed(Filed')
            <3> SUFFICES ASSUME Filed = {}, NEW n \in Names, ns'[n] = "file" PROVE FALSE BY DEF Filed, Unnamed
            <3>1. \A m \in Names : ns[m] # "file" BY DEF Filed
            <3> QED BY <1>1, <2>2, <3>1
        <2>4. left' \in Budget BY <1>0, <1>4 DEF Typed
        <2>5. UNCHANGED <<handle, states, current, stored, app>> BY <1>1
        <2>6. Past' <=> Past BY <1>1 DEF Past
        <2>7. \A p : Lost(p)' <=> Lost(p) BY <1>1, <2>1 DEF Lost
        <2>8. Covered'
            <3>1. SUFFICES ASSUME current # 0, Cur.made
                           PROVE  /\ Cover(Cur, File, app, mode["file"], Past)
                                  /\ Based(Cur, Lost(Cur.path), FALSE, Past)
                BY <1>1, <1>2, <2>1, <2>6 DEF Covered, Cover, Based, Lost
            <3> QED BY <1>0, <3>1 DEF Covered, Based
        <2>9. Unmade'
            <3>1. SUFFICES ASSUME current # 0, ~Cur.made
                           PROVE  Fresh(Cur, File, Reached(Cur.path)', Lost(Cur.path))
                BY <1>1, <1>2, <2>1 DEF Unmade, Lost, Fresh, Reached
            <3>2. Fresh(Cur, File, Reached(Cur.path), Lost(Cur.path)) BY <1>0, <3>1 DEF Unmade
            <3>3. Reached(Cur.path)' # "stranger"
                <4>1. Cur.path \in tracked \cup {""} BY <1>0, <1>1, <3>1 DEF Under, Cur
                <4>2. CASE Cur.path = "" BY <1>2, <3>1, <4>2 DEF Reached
                <4>3. CASE Cur.path \in tracked
                    <5>1. ns[Cur.path] = "file" /\ Cur.path \in Names BY <1>1, <4>3 DEF Filed
                    <5>2. ns'[Cur.path] \in {"file", "none"}
                        <6>1. CASE dir.kind = "rename" /\ Cur.path = dir.dst
                            <7>1. Making BY <3>1 DEF Making, Cur
                            <7> QED BY <1>4, <5>1, <6>1, <7>1
                        <6>2. CASE ~(dir.kind = "rename" /\ Cur.path = dir.dst) BY <2>2, <5>1, <6>2
                        <6> QED BY <6>1, <6>2
                    <5>3. Reached(Cur.path)' = ns'[Cur.path] BY <1>2, <3>1, <5>1, Mounts DEF Reached
                    <5> QED BY <5>2, <5>3
                <4> QED BY <4>1, <4>2, <4>3
            <3> QED BY <3>2, <3>3 DEF Fresh
        <2>10. Nameless' BY <1>0, <1>1, <1>2, <2>1, <2>3 DEF Nameless, Unnamed
        <2>11. Removing'
            <3>1. dir.kind = "unlink" => dir.src = dir.dst BY <1>0, <1>1 DEF Removing
            <3>2. ASSUME dir.kind = "rename", dir.src \in tracked PROVE dir.dst \notin tracked
                <4>1. ns[dir.src] = "file" /\ ns[dir.src] # ns[dir.dst] BY <1>0, <1>1, <3>2 DEF Named, Filed
                <4> QED BY <1>1, <4>1 DEF Filed
            <3> QED BY <1>1, <2>1, <3>1, <3>2 DEF Removing
        <2>12. \A g \in Handles : /\ HandleFields \subseteq DOMAIN handle'[g]
                                  /\ handle'[g].pc = handle[g].pc /\ handle'[g].slot = handle[g].slot
                                  /\ handle'[g].failed = handle[g].failed
                                  /\ handle'[g].slot # 0 /\ handle'[g].path = "" => Unnamed(Filed')
            BY <2>3, <2>5, Idling
        <2>13. /\ \A s \in Slots : DataFields \subseteq DOMAIN states'[s] /\ Sized(states'[s])
               /\ \A g \in Handles : handle[g].pc \in Sync => Bound(handle'[g], Cur', File, app.bytes)
            BY <2>5, Idling
        <2>14. current # 0 => /\ Cur'.made = Cur.made /\ Cur'.closed = Cur.closed /\ Cur'.poisoned = Cur.poisoned
                              /\ Cur'.dirty = Cur.dirty /\ Cur'.size = Cur.size /\ Cur'.base = Cur.base
                              /\ Cur'.pending = Cur.pending
            BY <1>2
        <2>15. UNCHANGED <<stored, mode, current, recovery, app>> BY <1>1
        <2> QED BY <2>3, <2>4, <2>8, <2>9, <2>10, <2>11, <2>12, <2>13, <2>14, <2>15, Steering
    <1> QED BY <1>3, <1>4 DEF DirHub, Sealed, Racing

LEMMA LinkKept ==
    ASSUME PathInv, DataInv, NEW n \in Names, Link(n)
    PROVE  DataInv'
    <1>0. Typed /\ Covered /\ Unmade /\ Nameless /\ Named /\ Under /\ Removing /\ ns \in [Names -> Files \cup {"none"}]
        BY Facts DEF Shapes
    <1>1. /\ dir.pc = "idle" /\ dir' = dir /\ mounted /\ Filed = tracked /\ tracked # {} /\ Spend("dir")
          /\ ns[n] = "none" /\ ns' = [ns EXCEPT ![n] = "file"]
          /\ UNCHANGED <<stored, mode, states, current, handle, recovery, mounted, app>>
        BY <1>0 DEF Link, Named
    <1>2. File' = File /\ (current # 0 => Cur' = Cur) BY <1>1 DEF File, Cur
    <1>3. Filed # {} /\ ~Unnamed(Filed) /\ left' \in Budget BY <1>0, <1>1, Spent DEF Typed, Unnamed
    <1>4. UNCHANGED <<handle, states, current, stored, app>> BY <1>1
    <1>5. Past' <=> Past BY <1>1 DEF Past
    <1>6. \A p : ~Lost(p) /\ ~Lost(p)' BY <1>1 DEF Lost
    <1>7. Covered'
        <2>1. SUFFICES ASSUME current # 0, Cur.made
                       PROVE  /\ Cover(Cur, File, app, mode["file"], Past)
                              /\ Based(Cur, FALSE, FALSE, Past)
            BY <1>1, <1>2, <1>5 DEF Covered, Cover, Based, Lost
        <2> QED BY <1>0, <2>1 DEF Covered, Based
    <1>8. Unmade'
        <2>1. SUFFICES ASSUME current # 0, ~Cur.made
                       PROVE  Fresh(Cur, File, Reached(Cur.path)', FALSE)
            BY <1>1, <1>2 DEF Unmade, Lost, Fresh, Reached
        <2>2. Fresh(Cur, File, Reached(Cur.path), Lost(Cur.path)) BY <1>0, <2>1 DEF Unmade
        <2>3. Cur.path \in tracked \cup {""} BY <1>0, <1>1, <2>1 DEF Under, Cur
        <2>4. Reached(Cur.path)' # "stranger"
            <3>1. CASE Cur.path = "" BY <1>2, <2>1, <3>1 DEF Reached
            <3>2. CASE Cur.path \in tracked
                <4>1. ns[Cur.path] = "file" /\ Cur.path \in Names BY <1>1, <3>2 DEF Filed
                <4>2. ns'[Cur.path] = "file" BY <1>0, <1>1, <4>1
                <4>3. Reached(Cur.path)' = ns'[Cur.path] BY <1>2, <2>1, <4>1, Mounts DEF Reached
                <4> QED BY <4>2, <4>3
            <3> QED BY <2>3, <3>1, <3>2
        <2> QED BY <2>2, <2>4 DEF Fresh
    <1>9. Nameless' BY <1>0, <1>1, <1>2, <1>3 DEF Nameless
    <1>10. Removing' BY <1>1 DEF Removing
    <1>11. \A g \in Handles : /\ HandleFields \subseteq DOMAIN handle'[g]
                              /\ handle'[g].pc = handle[g].pc /\ handle'[g].slot = handle[g].slot
                              /\ handle'[g].failed = handle[g].failed
                              /\ handle'[g].slot # 0 /\ handle'[g].path = "" => Unnamed(Filed')
        BY <1>3, <1>4, Idling
    <1>12. /\ \A s \in Slots : DataFields \subseteq DOMAIN states'[s] /\ Sized(states'[s])
           /\ \A g \in Handles : handle[g].pc \in Sync => Bound(handle'[g], Cur', File, app.bytes)
        BY <1>4, Idling
    <1>13. current # 0 => /\ Cur'.made = Cur.made /\ Cur'.closed = Cur.closed /\ Cur'.poisoned = Cur.poisoned
                          /\ Cur'.dirty = Cur.dirty /\ Cur'.size = Cur.size /\ Cur'.base = Cur.base
                          /\ Cur'.pending = Cur.pending
        BY <1>2
    <1>14. UNCHANGED <<stored, mode, current, recovery, app>> BY <1>1
    <1> QED BY <1>3, <1>7, <1>8, <1>9, <1>10, <1>11, <1>12, <1>13, <1>14, Steering

LEMMA DirHandlesKept ==
    ASSUME PathInv, DataInv, DirHandles
    PROVE  DataInv'
    <1>0. /\ Typed /\ Covered /\ Unmade /\ Nameless /\ Named /\ Removing /\ Placed /\ Pending
          /\ tracked \subseteq Names /\ DOMAIN handle = Handles /\ {"pc", "kind", "src", "dst", "rest"} \subseteq DOMAIN dir
        BY Facts DEF Shapes
    <1>1. PICK next \in Successors(Moves) :
             /\ dir' = [dir EXCEPT !.pc = "states", !.src = Moves, !.rest = next]
             /\ tracked' = IF Moves \in tracked THEN (tracked \ {Moves}) \cup ({next} \ {""}) ELSE tracked
             /\ handle' = [h \in Handles |->
                   IF handle[h].slot # 0 /\ handle[h].path = Moves THEN [handle[h] EXCEPT !.path = next]
                   ELSE handle[h]]
        BY DEF DirHandles
    <1>2. /\ UNCHANGED <<ns, stored, mode, states, current, recovery, mounted, app, left>> /\ mounted
          /\ dir.pc = "handles" /\ dir.kind \in {"unlink", "rename"} /\ dir.src \in Names /\ dir.dst \in Names
          /\ dir.kind = "rename" => dir.src # dir.dst
          /\ dir.kind = "unlink" => dir.src = dir.dst
        BY <1>0 DEF DirHandles, Named, Removing, storeVars
    <1>3. dir'.pc = "states" /\ dir'.kind = dir.kind /\ dir'.src = Moves /\ dir'.dst = dir.dst /\ dir'.rest = next
        BY <1>0, <1>1
    <1>4. Filed' = tracked' /\ Filed' = Filed
        <2>1. Named' BY DirHandlesPath DEF PathInv
        <2> QED BY <1>2, <1>3, <2>1 DEF Named, Filed
    <1>5. /\ Moves \in Names /\ (dir.kind = "unlink" => Moves = dir.dst)
          /\ Moves # dir.dst => Moves = dir.src /\ dir.kind = "rename"
          /\ next = IF dir.kind = "rename" /\ Moves = dir.src THEN dir.dst ELSE next
          /\ ~(dir.kind = "rename" /\ Moves = dir.src) =>
                IF tracked \ {Moves} = {} THEN next = "" ELSE next \in tracked \ {Moves}
        BY <1>1, <1>2 DEF Moves, Successors
    <1> HIDE DEF Moves, Filed
    <1>6. next = "" => Moves = dir.dst /\ Filed = {}
        <2> SUFFICES ASSUME next = "" PROVE Moves = dir.dst /\ Filed = {} OBVIOUS
        <2>1. ~(dir.kind = "rename" /\ Moves = dir.src) BY <1>2, <1>5, Mounts
        <2>2. Moves = dir.dst BY <1>2, <1>5, <2>1
        <2>3. tracked \ {Moves} = {} BY <1>0, <1>5, <2>1, Mounts
        <2>4. tracked' = {} BY <1>1, <2>3
        <2> QED BY <1>4, <2>2, <2>4
    <1>7. Moves \notin tracked'
        <2>1. next # Moves BY <1>2, <1>5, Mounts
        <2> QED BY <1>1, <2>1
    <1>8. \A g \in Handles : /\ HandleFields \subseteq DOMAIN handle'[g]
                             /\ handle'[g].pc = handle[g].pc /\ handle'[g].slot = handle[g].slot
                             /\ handle'[g].failed = handle[g].failed /\ handle'[g].cpath = handle[g].cpath
                             /\ handle'[g].cpend = handle[g].cpend /\ handle'[g].verb = handle[g].verb
                             /\ handle'[g].path \in {handle[g].path, next}
        <2> SUFFICES ASSUME NEW g \in Handles
                     PROVE  /\ HandleFields \subseteq DOMAIN handle'[g]
                            /\ handle'[g].pc = handle[g].pc /\ handle'[g].slot = handle[g].slot
                            /\ handle'[g].failed = handle[g].failed /\ handle'[g].cpath = handle[g].cpath
                            /\ handle'[g].cpend = handle[g].cpend /\ handle'[g].verb = handle[g].verb
                            /\ handle'[g].path \in {handle[g].path, next}
            OBVIOUS
        <2>1. HandleFields \subseteq DOMAIN handle[g] BY <1>0 DEF Placed, Place
        <2>2. handle'[g] = handle[g] \/ handle'[g] = [handle[g] EXCEPT !.path = next] BY <1>1
        <2>3. CASE handle'[g] = handle[g] BY <2>1, <2>3
        <2>4. CASE handle'[g] = [handle[g] EXCEPT !.path = next] BY <2>1, <2>4 DEF HandleFields
        <2> QED BY <2>2, <2>3, <2>4
    <1>9. \A g \in Handles : /\ HandleFields \subseteq DOMAIN handle'[g]
                             /\ handle'[g].pc = handle[g].pc /\ handle'[g].slot = handle[g].slot
                             /\ handle'[g].failed = handle[g].failed
                             /\ handle'[g].slot # 0 /\ handle'[g].path = "" => Unnamed(Filed')
        <2>1. \A g \in Handles : handle[g].slot # 0 /\ handle[g].path = "" => Filed = {}
            BY <1>0 DEF Placed, Place
        <2>2. \A g \in Handles : handle'[g].slot # 0 /\ handle'[g].path = "" => Unnamed(Filed')
            BY <1>4, <1>6, <1>8, <2>1 DEF Unnamed
        <2> QED BY <1>8, <2>2
    <1>10. File' = File /\ (current # 0 => Cur' = Cur) BY <1>2 DEF File, Cur
    <1>11. \A p : Lost(p)' => Lost(p) BY <1>2, <1>3 DEF Lost
    <1>12. Past' <=> Past BY <1>8 DEF Past
    <1>13. Covered'
        <2>1. SUFFICES ASSUME current # 0, Cur.made
                       PROVE  /\ Cover(Cur, File, app, mode["file"], Past)
                              /\ Based(Cur, Lost(Cur.path)', FALSE, Past)
            BY <1>2, <1>3, <1>10, <1>12 DEF Covered, Cover, Based, Lost
        <2>2. Cover(Cur, File, app, mode["file"], Past) /\ Based(Cur, Lost(Cur.path), dir.pc = "hub", Past)
            BY <1>0, <2>1 DEF Covered
        <2>3. Lost(Cur.path)' => Lost(Cur.path) BY <1>2, <1>3, <1>10, <2>1 DEF Lost
        <2> QED BY <1>2, <2>2, <2>3 DEF Based
    <1>14. Unmade'
        <2>1. SUFFICES ASSUME current # 0, ~Cur.made
                       PROVE  Fresh(Cur, File, Reached(Cur.path), Lost(Cur.path)')
            BY <1>2, <1>3, <1>10 DEF Unmade, Lost, Fresh, Reached
        <2>2. Fresh(Cur, File, Reached(Cur.path), Lost(Cur.path)) BY <1>0, <2>1 DEF Unmade
        <2>3. Lost(Cur.path)' => Lost(Cur.path) BY <1>2, <1>3, <1>10, <2>1 DEF Lost
        <2> QED BY <2>2, <2>3 DEF Fresh
    <1>15. Nameless' BY <1>0, <1>2, <1>3, <1>4, <1>6, <1>10 DEF Nameless
    <1>16. Removing' BY <1>2, <1>3, <1>5, <1>6, <1>7 DEF Removing
    <1>17. \A g \in Handles : handle[g].pc \in Sync => Bound(handle'[g], Cur', File, app.bytes)
        <2> SUFFICES ASSUME NEW g \in Handles, handle[g].pc \in Sync
                     PROVE  Bound(handle'[g], Cur', File, app.bytes)
            OBVIOUS
        <2>1. Bound(handle[g], Cur, File, app.bytes) BY <1>0 DEF Pending
        <2>2. Cur' = Cur BY <1>2 DEF Cur
        <2> QED BY <1>8, <2>1, <2>2 DEF Bound
    <1>18. /\ \A s \in Slots : DataFields \subseteq DOMAIN states'[s] /\ Sized(states'[s])
           /\ left' \in Budget
        BY <1>0, <1>2 DEF Typed
    <1>19. UNCHANGED <<stored, mode, current, recovery, app>> BY <1>2
    <1>20. Unnamed(Filed) => Unnamed(Filed') BY <1>4
    <1> QED BY <1>9, <1>10, <1>13, <1>14, <1>15, <1>16, <1>17, <1>18, <1>19, <1>20, Steering

LEMMA DirStatesKept ==
    ASSUME PathInv, DataInv, DirStates
    PROVE  DataInv'
    <1>0. /\ Typed /\ Covered /\ Unmade /\ Nameless /\ Named /\ Under /\ Removing /\ DOMAIN states = Slots
        BY Facts DEF Shapes
    <1>1. /\ UNCHANGED <<ns, stored, mode, current, handle, tracked, recovery, mounted, app, left>> /\ mounted
          /\ dir.pc = "states" /\ dir.rest \in tracked \cup {""} /\ ~Committing /\ dir' = NoDir
          /\ Filed = tracked /\ dir.src \in Names
          /\ dir.rest = "" => dir.src = dir.dst
        BY <1>0 DEF DirStates, Named, Removing, storeVars
    <1>2. dir'.pc = "idle" BY <1>1 DEF NoDir
    <1>3. File' = File /\ Filed' = Filed BY <1>1 DEF File, Filed
    <1>4. left' \in Budget /\ Removing' BY <1>0, <1>1, <1>2 DEF Typed, Removing
    <1>5. UNCHANGED <<stored, mode, current, recovery, app>> BY <1>1
    <1>6. \A g \in Handles : /\ HandleFields \subseteq DOMAIN handle'[g]
                             /\ handle'[g].pc = handle[g].pc /\ handle'[g].slot = handle[g].slot
                             /\ handle'[g].failed = handle[g].failed
                             /\ handle'[g].slot # 0 /\ handle'[g].path = "" => Unnamed(Filed')
        BY <1>1, <1>3, Facts DEF Placed, Place, Unnamed
    <1>7. Past' <=> Past BY <1>1 DEF Past
    <1>8. current # 0 => \A g \in Handles : handle[g].pc \notin Sync
        <2>1. ASSUME current # 0 PROVE Cur.held = "" BY <1>1, <2>1 DEF Committing, Cur
        <2>2. ASSUME current # 0 PROVE \A g \in Handles \ {""} : handle[g].pc \notin Sync BY <2>1, <2>2, Only
        <2> QED BY <2>2, Mounts
    <1>9. \A g \in Handles : handle[g].pc \notin Sync
        <2>1. ASSUME current = 0, NEW g \in Handles PROVE handle[g].pc \notin Sync
            <3>1. handle[g].pc \in Sync => handle[g].slot = current /\ handle[g].slot \in Slots BY Roles DEF Sync
            <3> QED BY <2>1, <3>1, Mounts
        <2> QED BY <1>8, <2>1
    <1>10. CASE current # 0 /\ Cur.path = dir.src
        <2> DEFINE z == dir.rest = ""
                   v == [Cur EXCEPT !.path = dir.rest, !.deleted = z]
        <2>0. current \in Slots /\ DataFields \subseteq DOMAIN Cur /\ Sized(Cur) BY <1>10, Sourced
        <2>1. states' = [states EXCEPT ![current].path = dir.rest, ![current].deleted = dir.rest = ""]
            BY <1>10 DEF DirStates, Cur
        <2>2. states' = [states EXCEPT ![current] = v] BY <1>0, <2>0, <2>1 DEF Cur
        <2>z. z <=> dir.rest = "" OBVIOUS
        <2> HIDE DEF z
        <2>3. /\ DataFields \subseteq DOMAIN v /\ v.path = dir.rest /\ v.deleted = z
              /\ v.made = Cur.made /\ v.closed = Cur.closed /\ v.poisoned = Cur.poisoned
              /\ v.dirty = Cur.dirty /\ v.size = Cur.size /\ v.base = Cur.base /\ v.pending = Cur.pending
              /\ v.temp = Cur.temp /\ v.auth = Cur.auth /\ v.half = Cur.half /\ v.hasSnap = Cur.hasSnap
              /\ v.snap = Cur.snap
            BY <2>0 DEF DataFields
        <2> HIDE DEF v
        <2>4. Cur' = v /\ \A s \in Slots \ {current} : states'[s] = states[s]
            BY <1>0, <1>1, <2>0, <2>2 DEF Cur
        <2>5. Sized(v) /\ Clean(v) = Clean(Cur) BY <2>0, <2>3 DEF Sized, Clean
        <2>6. \A s \in Slots : DataFields \subseteq DOMAIN states'[s] /\ Sized(states'[s])
            BY <1>0, <2>0, <2>2, <2>3, <2>4, <2>5 DEF Typed
        <2>7. dir.rest = "" => Lost(Cur.path) BY <1>1, <1>10 DEF Lost
        <2>8. Covered'
            <3>1. SUFFICES ASSUME current # 0, Cur.made
                           PROVE  /\ Cover(v, File, app, mode["file"], Past)
                                  /\ Based(v, FALSE, FALSE, Past)
                BY <1>1, <1>2, <1>3, <1>7, <2>3, <2>4 DEF Covered, Cover, Based, Lost
            <3>2. Cover(Cur, File, app, mode["file"], Past) /\ Based(Cur, Lost(Cur.path), dir.pc = "hub", Past)
                BY <1>0, <3>1 DEF Covered
            <3>3. Good(v, File, app.bytes)
                <4>1. Good(Cur, File, app.bytes) BY <3>2 DEF Cover
                <4>2. Sound(v, app.bytes) BY <2>3, <2>5, <4>1 DEF Good, Sound, Agrees
                <4> QED BY <2>3, <2>5, <4>1, <4>2 DEF Good, Agrees, Odd
            <3>4. Cover(v, File, app, mode["file"], Past) BY <2>3, <3>2, <3>3 DEF Cover, FitsIn
            <3>5. Based(v, FALSE, FALSE, Past) BY <2>3, <2>5, <2>7, <3>2 DEF Based
            <3> QED BY <3>4, <3>5
        <2>9. Unmade'
            <3>1. SUFFICES ASSUME current # 0, ~Cur.made
                           PROVE  Fresh(v, File, Reached(dir.rest), FALSE)
                BY <1>1, <1>2, <1>3, <2>3, <2>4 DEF Unmade, Lost, Fresh, Reached
            <3>2. Fresh(Cur, File, Reached(Cur.path), Lost(Cur.path)) BY <1>0, <3>1 DEF Unmade
            <3>3. Reached(dir.rest) # "stranger" BY <1>1 DEF Reached, Filed
            <3> QED BY <2>3, <3>2, <3>3 DEF Fresh
        <2>10. Nameless' BY <1>0, <1>1, <1>2, <1>3, <2>3, <2>4, <2>z DEF Nameless
        <2>11. Unnamed(Filed) => Unnamed(Filed') BY <1>3
        <2> QED BY <1>4, <1>5, <1>6, <1>9, <2>3, <2>4, <2>6, <2>8, <2>9, <2>10, <2>11, Steering
    <1>11. CASE ~(current # 0 /\ Cur.path = dir.src)
        <2>1. states' = states /\ (current # 0 => Cur' = Cur) BY <1>1, <1>11 DEF DirStates, Cur
        <2>2. Covered'
            <3>1. SUFFICES ASSUME current # 0, Cur.made
                           PROVE  /\ Cover(Cur, File, app, mode["file"], Past)
                                  /\ Based(Cur, FALSE, FALSE, Past)
                BY <1>1, <1>2, <1>3, <1>7, <2>1 DEF Covered, Cover, Based, Lost
            <3> QED BY <1>0, <3>1 DEF Covered, Based
        <2>3. Unmade'
            <3>1. SUFFICES ASSUME current # 0, ~Cur.made
                           PROVE  Fresh(Cur, File, Reached(Cur.path), FALSE)
                BY <1>1, <1>2, <1>3, <2>1 DEF Unmade, Lost, Fresh, Reached
            <3> QED BY <1>0, <3>1 DEF Unmade, Fresh
        <2>4. Nameless' BY <1>0, <1>1, <1>2, <1>3, <2>1 DEF Nameless
        <2>5. Unnamed(Filed) => Unnamed(Filed') BY <1>3
        <2>6. \A s \in Slots : DataFields \subseteq DOMAIN states'[s] /\ Sized(states'[s]) BY <1>0, <2>1 DEF Typed
        <2> QED BY <1>4, <1>5, <1>6, <1>9, <2>1, <2>2, <2>3, <2>4, <2>5, <2>6, Steering
    <1> QED BY <1>10, <1>11

-----------------------------------------------------------------------------
(* The end of the process, and the next mount.                             *)

LEMMA EndKept ==
    ASSUME PathInv, DataInv, Close \/ Crash
    PROVE  DataInv'
    <1>0. Typed /\ Recovered /\ Unmade /\ DOMAIN states = Slots BY Facts DEF Shapes
    <1>1. /\ current' = 0 /\ UNCHANGED <<ns, stored, mode>> /\ dir' = NoDir /\ app' = Landed
          /\ states' = [s \in Slots |-> Free] /\ handle' = [h \in Handles |-> Rest] /\ Spend("down")
        BY DEF Close, Crash, Ended, storeVars
    <1>2. left' \in Budget BY <1>0, <1>1, Spent DEF Typed
    <1>3. \A s \in Slots : DataFields \subseteq DOMAIN states'[s] /\ Sized(states'[s]) BY <1>1, Blank0
    <1>4. \A g \in Handles : Aloof(handle'[g], Filed) BY <1>1, RestAside
    <1>5. Recovered'
        <2>1. CASE Crash
            <3> SUFFICES ASSUME NEW e \in recovery', e \notin recovery PROVE Rebuilds(e) BY <1>0 DEF Recovered
            <3>1. PICK s \in Slots : s = current /\ e = [Saved(states[s], FALSE, -1) EXCEPT !.target = ""]
                BY <2>1 DEF Crash
            <3>2. current # 0 /\ e = [Saved(Cur, FALSE, -1) EXCEPT !.target = ""] BY <3>1, Mounts DEF Cur
            <3> QED BY <3>2, SavedSound
        <2>2. CASE Close
            <3>1. PICK p \in {q \in Slots : q = current} \cup {0} :
                     recovery' =
                        IF p = 0 \/ states[p].closed THEN recovery
                        ELSE LET w == states[p]
                             IN  IF w.held # "" THEN recovery \cup {[Saved(w, FALSE, -1) EXCEPT !.target = ""]}
                                 ELSE IF ~Uncommitted(w) THEN recovery
                                 ELSE recovery \cup {Saved(w, TRUE, Fingerprint(w.path))}
                BY <2>2 DEF Close
            <3>2. CASE recovery' = recovery BY <1>0, <3>2 DEF Recovered
            <3>3. CASE recovery' # recovery
                <4>1. p # 0 /\ p = current /\ current # 0 /\ states[p] = Cur BY <3>1, <3>3 DEF Cur
                <4>2. CASE Cur.held # ""
                    <5>1. recovery' = recovery \cup {[Saved(Cur, FALSE, -1) EXCEPT !.target = ""]}
                        BY <3>1, <3>3, <4>1, <4>2
                    <5>2. Rebuilds([Saved(Cur, FALSE, -1) EXCEPT !.target = ""]) BY <4>1, SavedSound
                    <5> QED BY <1>0, <5>1, <5>2 DEF Recovered
                <4>3. CASE Cur.held = ""
                    <5> DEFINE st == Fingerprint(Cur.path)
                    <5>1. recovery' = recovery \cup {Saved(Cur, TRUE, st)} /\ Uncommitted(Cur)
                        BY <3>1, <3>3, <4>1, <4>3
                    <5> HIDE DEF st
                    <5>2. Cur.made
                        <6>1. SUFFICES ASSUME ~Cur.made PROVE FALSE OBVIOUS
                        <6>2. Cur.dirty = {} /\ Cur.size = Cur.base /\ Cur.pending = 0
                            BY <1>0, <4>1, <6>1 DEF Unmade, Fresh
                        <6> QED BY <5>1, <6>2 DEF Uncommitted, HasPending
                    <5>3. ~Past
                        <6>1. \A g \in Handles \ {""} : handle[g].pc \notin Sync BY <4>1, <4>3, Only
                        <6> QED BY <6>1, Mounts DEF Past, Sync
                    <5>4. Rebuilds(Saved(Cur, TRUE, st)) BY <4>1, <5>2, <5>3, SavedSound
                    <5> QED BY <1>0, <5>1, <5>4 DEF Recovered
                <4> QED BY <4>2, <4>3
            <3> QED BY <3>2, <3>3
        <2> QED BY <2>1, <2>2
    <1> QED BY <1>1, <1>2, <1>3, <1>4, <1>5, Ceased

\* Nothing is open between two mounts.
LEMMA Ashore ==
    ASSUME PathInv, DataInv, ~mounted, UNCHANGED <<ns, states, current, handle, dir>>, recovery' \subseteq recovery,
           left' \in Budget, File' \in Seq(Int), app'.bytes \in Seq(Int),
           app' = [bytes |-> app'.bytes, mode |-> app'.mode], Filed # {} => app' = Landed'
    PROVE  DataInv'
    <1>0. /\ Typed /\ Placed /\ Recovered /\ Named /\ Slotted BY Facts
    <1>1. current = 0 /\ dir.pc = "idle" /\ \A h \in Handles : handle[h].pc = "closed" BY <1>0 DEF Named
    <1>2. Filed' = Filed /\ Cur' = Cur BY DEF Filed, Cur
    <1>3. Typed' BY <1>0 DEF Typed
    <1>4. Covered' /\ Unmade' /\ Cared' /\ Staged' BY <1>1 DEF Covered, Unmade, Cared, Staged
    <1>5. Grounded' BY <1>2 DEF Grounded
    <1>6. Nameless' BY <1>1 DEF Nameless
    <1>7. Placed' BY <1>0, <1>2 DEF Placed
    <1>8. Pending'
        <2>1. \A g \in Handles : handle'[g].pc \notin Sync BY <1>1 DEF Sync
        <2> QED BY <2>1, NoSync DEF Pending
    <1>9. Recovered' BY <1>0 DEF Recovered
    <1>10. Removing' BY <1>1 DEF Removing
    <1> QED BY <1>3, <1>4, <1>5, <1>6, <1>7, <1>8, <1>9, <1>10 DEF DataInv

LEMMA Redrives ==
    ASSUME NEW e, Rebuilds(e), File \in Seq(Int), Content(e.target) = stored["file"]
    PROVE  Redriven(e) \in Seq(Int)
    <1>0. e.image \in Seq(Int) /\ e.size \in Nat /\ Content(e.target) = File BY DEF Rebuilds, File
    <1>1. CASE e.full BY <1>0, <1>1 DEF Redriven
    <1>2. CASE ~e.full /\ e.dirty # {}
        <2> DEFINE f == [i \in 1..Len(File) |-> IF i - 1 \in e.dirty THEN At(e.image, i - 1) ELSE File[i]]
        <2>1. Redriven(e) = f BY <1>0, <1>2 DEF Redriven
        <2>2. Len(File) \in Nat /\ File \in [1..Len(File) -> Int] BY Images DEF Image
        <2>3. ASSUME NEW i \in 1..Len(File)
              PROVE  (IF i - 1 \in e.dirty THEN At(e.image, i - 1) ELSE File[i]) \in Int
            <3>1. i - 1 \in Nat BY <2>2
            <3>2. At(e.image, i - 1) \in Int BY <1>0, <3>1, Reading
            <3> QED BY <2>2, <3>2
        <2>4. f \in Image(Len(File)) BY <2>3 DEF Image
        <2> HIDE DEF f
        <2> QED BY <2>1, <2>2, <2>4, Images
    <1>3. CASE ~e.full /\ e.dirty = {}
        <2>1. Redriven(e) = Resize(File, e.size) BY <1>0, <1>3 DEF Redriven
        <2> QED BY <1>0, <2>1, Resizes, Images
    <1> QED BY <1>1, <1>2, <1>3

LEMMA BetweenKept ==
    ASSUME PathInv, DataInv, Rival \/ Mount \/ \E e \in recovery : Redrive(e)
    PROVE  DataInv'
    <1>0. Typed /\ Recovered /\ Grounded /\ Named /\ "file" \in DOMAIN stored /\ "file" \in DOMAIN mode
        BY Facts, Mounts DEF Shapes
    <1>1. current = 0 \/ mounted BY <1>0 DEF Named
    <1>2. CASE Mount
        <2>1. /\ ~mounted /\ UNCHANGED <<ns, states, current, handle, dir, stored, mode, recovery, app, left>>
            BY <1>2 DEF Mount, storeVars
        <2>2. File' = File /\ Landed' = Landed BY <2>1 DEF File, Landed
        <2>3. Filed # {} => app' = Landed' BY <1>0, <1>1, <2>1, <2>2 DEF Grounded
        <2>4. /\ left' \in Budget /\ File' \in Seq(Int) /\ app'.bytes \in Seq(Int)
              /\ app' = [bytes |-> app'.bytes, mode |-> app'.mode] /\ recovery' \subseteq recovery
            BY <1>0, <2>1, <2>2 DEF Typed
        <2> QED BY <2>1, <2>3, <2>4, Ashore
    <1>3. CASE Rival
        <2>1. /\ ~mounted /\ UNCHANGED <<ns, states, current, handle, dir, mode, recovery>> /\ Spend("rival")
              /\ stored' = [stored EXCEPT !["file"] = <<99>>] /\ app' = [app EXCEPT !.bytes = <<99>>] /\ Linked
            BY <1>3 DEF Rival
        <2>2. app = Landed BY <1>0, <1>1, <2>1 DEF Grounded, Linked, Filed
        <2>3. File' = <<99>> /\ <<99>> \in Seq(Int) BY <1>0, <2>1 DEF File
        <2>4. app' = [bytes |-> <<99>>, mode |-> mode["file"]] BY <2>1, <2>2 DEF Landed
        <2>5. app' = Landed' BY <2>1, <2>3, <2>4 DEF Landed, File
        <2>6. left' \in Budget BY <1>0, <2>1, Spent DEF Typed
        <2>7. app'.bytes \in Seq(Int) /\ app' = [bytes |-> app'.bytes, mode |-> app'.mode] BY <2>3, <2>4
        <2> QED BY <2>1, <2>3, <2>5, <2>6, <2>7, Ashore
    <1>4. ASSUME NEW e \in recovery, Redrive(e) PROVE DataInv'
        <2>0. Matches(e) /\ Reached(e.target) = "file" /\ Content(e.target) = stored["file"]
            BY <1>4, Matched DEF Redrive
        <2>1. /\ ~mounted /\ UNCHANGED <<ns, states, current, handle, dir>>
              /\ stored' = [stored EXCEPT !["file"] = Redriven(e)]
              /\ app' = [bytes |-> stored'["file"], mode |-> mode'["file"]]
              /\ recovery' \subseteq recovery
            BY <1>4, <2>0 DEF Redrive
        <2>2. left' \in Budget
            <3>1. left' = left \/ Spend("fault") BY <1>4 DEF Redrive
            <3> QED BY <1>0, <3>1, Spent DEF Typed
        <2>3. Redriven(e) \in Seq(Int) BY <1>0, <2>0, Redrives DEF Typed, Recovered
        <2>4. File' = Redriven(e) BY <1>0, <2>1 DEF File
        <2>5. app' = Landed' BY <2>1 DEF Landed
        <2>6. app'.bytes \in Seq(Int) /\ app' = [bytes |-> app'.bytes, mode |-> app'.mode]
            BY <2>1, <2>3, <2>4 DEF File
        <2> QED BY <2>1, <2>2, <2>3, <2>4, <2>5, <2>6, Ashore
    <1> QED BY <1>2, <1>3, <1>4

-----------------------------------------------------------------------------
(* The invariant.                                                          *)

LEMMA DataInit == FileInit => DataInv
    <1> SUFFICES ASSUME FileInit PROVE DataInv OBVIOUS
    <1>1. PICK i \in Scenarios : /\ stored = i.stored /\ app = [bytes |-> i.stored["file"], mode |-> 0]
                                 /\ left = i.left
        BY DEF FileInit
    <1>2. /\ mode = [f \in Files |-> 0] /\ states = [s \in Slots |-> Free] /\ current = 0
          /\ handle = [h \in Handles |-> Rest] /\ dir = NoDir /\ recovery = {}
        BY DEF FileInit
    <1>3. File \in Seq(Int) /\ app.bytes = File /\ left \in Budget
        BY <1>1, FuseAssumption DEF File, Budget
    <1>4. dir.pc = "idle" BY <1>2 DEF NoDir
    <1>5. mode["file"] = 0 BY <1>2, Mounts
    <1>6. Typed
        <2>1. \A s \in Slots : DataFields \subseteq DOMAIN states[s] /\ Sized(states[s]) BY <1>2, Blank0
        <2> QED BY <1>1, <1>3, <2>1 DEF Typed
    <1>7. Covered /\ Unmade /\ Cared /\ Staged BY <1>2 DEF Covered, Unmade, Cared, Staged
    <1>8. Grounded BY <1>1, <1>3, <1>5 DEF Grounded, Landed, File
    <1>9. Nameless BY <1>2, <1>4 DEF Nameless
    <1>10. Placed
        <2>1. \A g \in Handles : handle[g] = Rest BY <1>2
        <2> QED BY <2>1, RestAside DEF Placed
    <1>11. Pending
        <2>1. \A g \in Handles : handle[g].pc \notin Sync BY <1>2, Blank0 DEF Sync
        <2> QED BY <2>1, NoSync DEF Pending
    <1>12. Recovered BY <1>2 DEF Recovered
    <1>13. Removing BY <1>4 DEF Removing
    <1> QED BY <1>6, <1>7, <1>8, <1>9, <1>10, <1>11, <1>12, <1>13 DEF DataInv

LEMMA DataStep == Sealed /\ PathInv /\ DataInv /\ [Next]_vars => DataInv'
    <1> SUFFICES ASSUME Sealed, PathInv, DataInv, [Next]_vars PROVE DataInv' OBVIOUS
    <1>1. ASSUME NEW h \in Handles, NEW trunc \in BOOLEAN, Open(h, trunc) PROVE DataInv'
        BY <1>1, OpenKept
    <1>2. ASSUME NEW h \in Handles, Materialize(h) \/ TruncateOpen(h) PROVE DataInv'
        BY <1>2, MakeKept, TruncateKept
    <1>3. ASSUME NEW h \in Handles,
                 \/ \E w \in Writes : Write(h, w[1], w[2])
                 \/ \E n \in Sizes : SetSize(h, n) \/ Allocate(h, n)
                 \/ StageMode(h)
          PROVE  DataInv'
        BY <1>3, DataKept
    <1>4. ASSUME NEW h \in Handles, CommitStart(h, "flush") \/ (Answered(h) /\ CommitStart(h, "release"))
          PROVE  DataInv'
        BY <1>4, StartKept
    <1>5. ASSUME NEW h \in Handles, CommitPlan(h) \/ CommitVerb(h) \/ CommitTrim(h) \/ CommitFinish(h)
          PROVE  DataInv'
        BY <1>5, PlanKept, VerbKept, TrimKept, FinishKept
    <1>6. ASSUME NEW h \in Handles,
                 Unlock(h) \/ QuarantineStart(h) \/ QuarantineSave(h) \/ Delete(h) \/ LastClose(h) \/ Drop(h)
          PROVE  DataInv'
        BY <1>6, ReleaseKept, QuarantineKept, SaveKept, DropKept
    <1>7. CASE UNCHANGED fileVars
        <2>1. UNCHANGED <<ns, stored, stamp, mode, states, current, handle, dir, tracked, recovery, mounted, app, left>>
            BY <1>7 DEF fileVars
        <2>2. Filed' = Filed /\ File' = File /\ Cur' = Cur /\ Landed' = Landed /\ (Past' <=> Past)
            BY <2>1 DEF Filed, File, Cur, Landed, Past
        <2>3. Typed' /\ Grounded' /\ Cared' /\ Nameless' /\ Staged' /\ Placed' /\ Pending' /\ Recovered' /\ Removing'
            BY <2>1, <2>2, Facts
               DEF Typed, Grounded, Cared, Nameless, Staged, Placed, Pending, Recovered, Removing
        <2>4. Covered' BY <2>1, <2>2, Facts DEF Covered, Cover, Based, Lost
        <2>5. Unmade' BY <2>1, <2>2, Facts DEF Unmade, Fresh, Reached, Lost
        <2> QED BY <2>3, <2>4, <2>5 DEF DataInv
    <1>8. ASSUME NEW h \in Handles, Locking(h) \/ Parked(h) \/ ReleaseLocks(h) PROVE DataInv'
        BY <1>7, <1>8 DEF Locking, Parked, ReleaseLocks
    <1>9. CASE \E src, dst \in Names, kind \in {"unlink", "rename"} : DirStart(kind, src, dst)
        BY <1>9, DirStartKept
    <1>10. CASE DirHub \/ DirHandles \/ DirStates BY <1>10, DirHubKept, DirHandlesKept, DirStatesKept
    <1>11. CASE \E n \in Names : Link(n) BY <1>11, LinkKept
    <1>12. CASE Close \/ Crash BY <1>12, EndKept
    <1>13. CASE Rival \/ Mount \/ \E e \in recovery : Redrive(e) BY <1>13, BetweenKept
    <1>14. CASE UNCHANGED vars BY <1>7, <1>14 DEF vars
    <1> QED BY <1>1, <1>2, <1>3, <1>4, <1>5, <1>6, <1>8, <1>9, <1>10, <1>11, <1>12, <1>13, <1>14 DEF Next

-----------------------------------------------------------------------------
(* What the invariant says.                                                *)

LEMMA Typing ==
    ASSUME PathInv, DataInv
    PROVE  FileTypeOK
    <1>1. Shapes /\ Slotted /\ Typed BY Facts
    <1>2. \A s \in Slots : states[s].dirty \subseteq Span(0, states[s].size) BY <1>1 DEF Typed, Sized
    <1>3. ASSUME NEW s \in Slots
          PROVE  states[s].refs = Cardinality({h \in Handles : handle[h].slot = s}) \/ s # current
        <2>1. CASE s = current
            <3>1. current # 0 BY <2>1, Mounts
            <3> QED BY <1>1, <2>1, <3>1 DEF Slotted
        <2> QED BY <2>1
    <1> QED BY <1>1, <1>2, <1>3 DEF FileTypeOK, Shapes

LEMMA ReadsBack ==
    ASSUME PathInv, DataInv
    PROVE  ReadBack
    <1> SUFFICES ASSUME current # 0, Opened(current), dir.pc \notin {"handles", "states"}
                 PROVE  Readable(Cur, Content(Cur.path)) /\ View(Cur, Content(Cur.path)) = app.bytes
        BY DEF ReadBack, Cur
    <1>1. Cur.made /\ ~Renaming BY DEF Opened, Cur, Renaming
    <1>2. Backed(Cur, Content(Cur.path), app.bytes) BY <1>1, Reads
    <1>3. Good(Cur, File, app.bytes) BY <1>1, Facts DEF Covered, Cover
    <1>4. Filled(Cur, app.bytes) BY <1>3 DEF Good, Filled, Sound
    <1> QED BY <1>2, <1>4, Viewed

LEMMA Lasts ==
    ASSUME PathInv, DataInv
    PROVE  Durable
    <1> SUFFICES ASSUME Filed # {},
                        current = 0 \/ (Cur.made /\ Cur.held = "" /\ ~Uncommitted(Cur))
                 PROVE  Landed = app
        BY DEF Durable, Linked, Filed, Cur
    <1>1. CASE current = 0 BY <1>1, Facts DEF Grounded
    <1>2. CASE current # 0
        <2>1. ~Past
            <3>1. \A g \in Handles \ {""} : handle[g].pc \notin Sync BY <1>2, Only
            <3> QED BY <3>1, Mounts DEF Past, Sync
        <2>2. /\ Good(Cur, File, app.bytes) /\ FitsIn(Cur, File) /\ File \in Seq(Int)
              /\ app.mode = IF Cur.pending = 0 THEN mode["file"] ELSE Cur.pending
              /\ app = [bytes |-> app.bytes, mode |-> app.mode]
            BY <1>2, <2>1, Facts DEF Covered, Cover, Typed
        <2>3. Cur.dirty = {} /\ Cur.size = Cur.base /\ Cur.pending = 0 BY <1>2 DEF Uncommitted, HasPending
        <2>4. File = app.bytes BY <2>2, <2>3, CleanExact
        <2> QED BY <2>2, <2>3, <2>4 DEF Landed, File
    <1> QED BY <1>1, <1>2

LEMMA Recovers ==
    ASSUME PathInv, DataInv, ~Racing("shrink")
    PROVE  QuarantineExact
    <1> SUFFICES ASSUME NEW e \in recovery, Matches(e), Redrivable(e), ~Trims(e)
                 PROVE  Redriven(e) = e.want
        BY DEF QuarantineExact
    <1>0. e.target # "" /\ e.stamp # -1 /\ e.stamp = stamp["file"] /\ Content(e.target) = stored["file"] BY Matched
    <1>1. Rebuilds(e) /\ e.over = Content(e.target) BY <1>0, Facts DEF Recovered, Stamped
    <1>2. CASE e.full BY <1>0, <1>1, <1>2 DEF Rebuilds, Redriven
    <1>3. CASE ~e.full /\ e.dirty # {}
        <2>1. e.size = e.base /\ \A b \in e.dirty : b < Len(e.over) BY <1>1, <1>3 DEF Trims, Redrivable
        <2> QED BY <1>0, <1>1, <1>3, <2>1 DEF Rebuilds, Redriven
    <1>4. CASE ~e.full /\ e.dirty = {}
        <2>1. e.size # e.base BY <1>4 DEF Redrivable
        <2> QED BY <1>0, <1>1, <1>4, <2>1 DEF Rebuilds, Redriven
    <1> QED BY <1>2, <1>3, <1>4

-----------------------------------------------------------------------------
(* The theorems.                                                           *)

LEMMA DataAlways == ASSUME Sealed PROVE Spec => [](PathInv /\ DataInv)
    <1>0. Loosed BY DEF Sealed, Loosed
    <1>1. FileInit => PathInv /\ DataInv BY PathInit, DataInit
    <1>2. PathInv /\ DataInv /\ [Next]_vars => (PathInv /\ DataInv)' BY <1>0, PathStep, DataStep
    <1> QED BY <1>1, <1>2, PTL DEF Spec

\* Whatever was written, truncated, committed, failed, renamed, unlinked and quarantined before, in any
\* order, the overlay is well formed and a read through it returns what the applications wrote
\* (fuse_write_ranges.go).
THEOREM OverlayAlwaysExact ==
    ASSUME Sealed PROVE Spec => []OverlayExact
    <1>1. PathInv /\ DataInv => OverlayExact BY Typing, ReadsBack DEF OverlayExact
    <1> QED BY <1>1, DataAlways, PTL

\* What was written is in the project once nothing is left to commit, and what is quarantined of a
\* failed commit rebuilds it at the next mount (commit, quarantineTempsReason,
\* redriveRecoveryEntry).
THEOREM NothingEverLost ==
    ASSUME Sealed, ~Racing("shrink") PROVE Spec => []NothingLost
    <1>1. PathInv /\ DataInv => NothingLost BY Lasts, Recovers DEF NothingLost
    <1> QED BY <1>1, DataAlways, PTL

-----------------------------------------------------------------------------
(* Calm: no call failed, no name moved, nothing ended.                     *)

CalmSealed == Sealed /\ ~Racing("hardlink")

\* A handle that was told of no failure, on the current state under its name.
Calmly(x, slot, path) ==
    /\ ~x.failed
    /\ x.slot # 0 => x.slot = slot /\ x.path = path
    /\ x.pc \in Sync => x.cpath = x.path
\* The file is as long as the overlay takes it to be, but while a commit writes it.
Level(w, file, past) == ~w.half /\ (~past => Len(file) = w.base)
Calm ==
    /\ mounted /\ dir.pc = "idle"
    /\ \A h \in Handles : Calmly(handle[h], current, Cur.path)
    /\ current # 0 => Cur.path \in tracked
    /\ current # 0 /\ Cur.made => Level(Cur, File, Past)
    /\ \A h \in Handles : handle[h].pc = "verb" => Accepted(File, handle[h].verb)
CalmInv == left.calm => Calm

\* A step of h that leaves the name of the current state alone.
LEMMA Becalmed ==
    ASSUME Calm, NEW h \in Handles, UNCHANGED <<current, dir, tracked, mounted>>,
           \A g \in Handles \ {h} : handle'[g] = handle[g],
           Calmly(handle'[h], current, Cur.path), current # 0 => Cur'.path = Cur.path,
           current # 0 /\ Cur'.made => Level(Cur', File', Past'),
           handle'[h].pc = "verb" => Accepted(File', handle'[h].verb),
           \A g \in Handles \ {h} : handle[g].pc = "verb" => File' = File
    PROVE  Calm'
    <1>1. ASSUME NEW g \in Handles PROVE Calmly(handle'[g], current, Cur'.path)
        <2>1. Calmly(handle'[g], current, Cur.path) BY DEF Calm
        <2> QED BY <2>1 DEF Calmly
    <1>2. \A g \in Handles : Calmly(handle[g], current, Cur.path)' BY <1>1 DEF Calmly
    <1>3. ASSUME NEW g \in Handles, handle'[g].pc = "verb" PROVE Accepted(File', handle'[g].verb)
        <2>1. CASE g = h BY <1>3, <2>1
        <2>2. CASE g # h
            <3>1. handle'[g] = handle[g] /\ File' = File BY <1>3, <2>2
            <3>2. Accepted(File, handle[g].verb) BY <1>3, <3>1 DEF Calm
            <3> QED BY <3>1, <3>2
        <2> QED BY <2>1, <2>2
    <1>4. \A g \in Handles : handle'[g].pc = "verb" => Accepted(File, handle[g].verb)' BY <1>3 DEF Accepted
    <1>5. current' # 0 /\ Cur'.made => Level(Cur, File, Past)' BY DEF Level
    <1>6. mounted' /\ dir'.pc = "idle" /\ (current' # 0 => Cur'.path \in tracked') BY DEF Calm
    <1> QED BY <1>2, <1>4, <1>5, <1>6 DEF Calm

\* A step that moves h and not the file; the overlay is based where it was.
LEMMA Stillwater ==
    ASSUME Calm, NEW h \in Handles, UNCHANGED <<stored, current, dir, tracked, mounted>>,
           \A g \in Handles \ {h} : handle'[g] = handle[g],
           Calmly(handle'[h], current, Cur.path),
           current # 0 => /\ Cur'.path = Cur.path /\ Cur'.made = Cur.made /\ Cur'.base = Cur.base
                          /\ Cur'.half = Cur.half,
           Passed(handle[h]) => Passed(handle'[h]),
           handle'[h].pc = "verb" => Accepted(File, handle'[h].verb)
    PROVE  Calm'
    <1>1. File' = File BY DEF File
    <1>2. Past => Past'
        <2> SUFFICES ASSUME NEW g \in Handles, Passed(handle[g]) PROVE Passed(handle'[g])
            BY DEF Past, Passed
        <2> QED OBVIOUS
    <1>3. current # 0 /\ Cur'.made => Level(Cur', File', Past')
        <2> SUFFICES ASSUME current # 0, Cur.made PROVE Level(Cur', File', Past') OBVIOUS
        <2>1. Level(Cur, File, Past) BY DEF Calm
        <2> QED BY <1>1, <1>2, <2>1 DEF Level
    <1>4. Accepted(File, handle'[h].verb) => Accepted(File', handle'[h].verb) BY <1>1
    <1> QED BY <1>1, <1>3, <1>4, Becalmed

\* What a calm state gives a handle that is open.
LEMMA Afloat ==
    ASSUME PathInv, DataInv, Calm, NEW h \in Handles, handle[h].pc # "closed"
    PROVE  /\ handle[h].slot = current /\ current # 0 /\ current \in Slots /\ State(h) = Cur
           /\ handle[h].path = Cur.path /\ ~handle[h].failed
           /\ Cur.path \in tracked /\ Cur.path \in Names /\ Cur.path # "" /\ ns[Cur.path] = "file"
           /\ Reached(Cur.path) = "file" /\ Content(Cur.path) = File /\ Filed # {}
           /\ ~Cur.poisoned /\ ~Cur.deleted
           /\ HandleFields \subseteq DOMAIN handle[h] /\ DOMAIN handle = Handles /\ DOMAIN states = Slots
           /\ DataFields \subseteq DOMAIN Cur /\ Sized(Cur)
    <1>1. DOMAIN states = Slots /\ DOMAIN handle = Handles /\ handle[h].slot \in Slots BY Roles
    <1>2. handle[h].slot # 0 BY <1>1, Mounts
    <1>3. handle[h].slot = current /\ handle[h].path = Cur.path /\ ~handle[h].failed
        BY <1>2 DEF Calm, Calmly
    <1>4. current # 0 /\ current \in Slots /\ State(h) = Cur BY <1>1, <1>2, <1>3 DEF State, Cur
    <1>5. /\ Cur.path \in tracked /\ mounted /\ dir.pc = "idle" BY <1>4 DEF Calm
    <1>6. Filed = tracked /\ tracked \subseteq Names BY <1>5, Facts DEF Named, Shapes
    <1>7. Cur.path \in Names /\ ns[Cur.path] = "file" BY <1>5, <1>6 DEF Filed
    <1>8. Cur.path # "" BY <1>7, Mounts
    <1>9. Reached(Cur.path) = "file" BY <1>7, <1>8 DEF Reached
    <1>10. Content(Cur.path) = File BY <1>9 DEF Content, File
    <1>11. Filed # {} BY <1>5, <1>6
    <1>12. ~Cur.poisoned /\ ~Cur.deleted BY <1>4, <1>11, Facts DEF Staged, Nameless
    <1>13. HandleFields \subseteq DOMAIN handle[h] BY Facts DEF Placed, Place
    <1>14. DataFields \subseteq DOMAIN Cur /\ Sized(Cur) BY <1>4, Sourced
    <1> QED BY <1>1, <1>3, <1>4, <1>5, <1>7, <1>8, <1>9, <1>10, <1>11, <1>12, <1>13, <1>14

LEMMA OpenCalm ==
    ASSUME PathInv, DataInv, Calm, CalmSealed, NEW h \in Handles, NEW trunc \in BOOLEAN, Open(h, trunc)
    PROVE  Calm'
    <1> DEFINE goal == IF trunc THEN "trunc" ELSE "open"
    <1>0. handle[h].pc = "closed" /\ UNCHANGED <<stored, dir, tracked, mounted>> BY DEF Open, storeVars
    <1>1. DOMAIN states = Slots /\ DOMAIN handle = Handles BY Roles
    <1>g. goal \in {"open", "trunc"} OBVIOUS
    <1>2. PICK path \in tracked :
             IF current # 0
             THEN /\ Cur.path = path /\ states' = [states EXCEPT ![current].refs = @ + 1]
                  /\ handle' = [handle EXCEPT ![h] = [Rest EXCEPT !.pc = goal, !.path = path, !.slot = current]]
                  /\ UNCHANGED current
             ELSE \E s \in Slots :
                  /\ states' = [states EXCEPT ![s] = Overlay(path, 0)] /\ current' = s
                  /\ handle' = [handle EXCEPT ![h] = [Rest EXCEPT !.pc = "making", !.path = path, !.slot = s,
                                                                  !.why = goal]]
        BY DEF Open, CalmSealed, Racing, Cur
    <1> HIDE DEF goal
    <1>3. CASE current # 0
        <2> DEFINE p == [Rest EXCEPT !.pc = goal, !.path = path, !.slot = current]
                   w == [Cur EXCEPT !.refs = @ + 1]
        <2>1. /\ Cur.path = path /\ handle' = [handle EXCEPT ![h] = p] /\ UNCHANGED current
              /\ current \in Slots /\ states' = [states EXCEPT ![current] = w]
            BY <1>2, <1>3, Sourced DEF Cur
        <2>2. p.slot = current /\ p.path = path /\ p.pc = goal /\ ~p.failed BY DEF Rest
        <2> HIDE DEF p
        <2>3. w.path = Cur.path /\ w.made = Cur.made /\ w.base = Cur.base /\ w.half = Cur.half
            BY <1>3, Sourced DEF DataFields
        <2> HIDE DEF w
        <2>4. Cur' = w BY <1>1, <2>1 DEF Cur
        <2>5. handle'[h] = p /\ \A g \in Handles \ {h} : handle'[g] = handle[g] BY <1>1, <2>1
        <2>6. p.pc \notin Sync BY <1>g, <2>2 DEF Sync
        <2>7. Calmly(handle'[h], current, Cur.path) BY <2>1, <2>2, <2>5, <2>6 DEF Calmly
        <2>8. ~Passed(handle[h]) /\ handle'[h].pc # "verb" BY <1>0, <2>5, <2>6 DEF Passed, Sync
        <2> QED BY <1>0, <2>1, <2>3, <2>4, <2>5, <2>7, <2>8, Stillwater
    <1>4. CASE current = 0
        <2>1. PICK s \in Slots :
                 /\ states' = [states EXCEPT ![s] = Overlay(path, 0)] /\ current' = s
                 /\ handle' = [handle EXCEPT ![h] = [Rest EXCEPT !.pc = "making", !.path = path, !.slot = s,
                                                                 !.why = goal]]
            BY <1>2, <1>4
        <2> DEFINE p == [Rest EXCEPT !.pc = "making", !.path = path, !.slot = s, !.why = goal]
        <2>2. p.slot = s /\ p.path = path /\ p.pc = "making" /\ ~p.failed BY DEF Rest
        <2>3. handle'[h] = p /\ \A g \in Handles \ {h} : handle'[g] = handle[g] BY <1>1, <2>1
        <2> HIDE DEF p
        <2>4. Cur' = Overlay(path, 0) BY <1>1, <2>1 DEF Cur
        <2>5. Cur'.path = path /\ ~Cur'.made BY <2>4, Blank0
        <2>6. \A g \in Handles : handle[g].pc = "closed" /\ handle[g].slot = 0 /\ ~handle[g].failed
            BY <1>4, Facts DEF Slotted, Calm, Calmly
        <2>7. ASSUME NEW g \in Handles PROVE Calmly(handle'[g], s, path) /\ handle'[g].pc # "verb"
            <3>1. CASE g = h BY <2>2, <2>3, <3>1 DEF Calmly, Sync
            <3>2. CASE g # h BY <2>3, <2>6, <3>2 DEF Calmly, Sync
            <3> QED BY <3>1, <3>2
        <2>8. \A g \in Handles : Calmly(handle[g], current, Cur.path)' BY <2>1, <2>5, <2>7 DEF Calmly
        <2>9. mounted' /\ dir'.pc = "idle" /\ Cur'.path \in tracked' BY <1>0, <2>5 DEF Calm
        <2> QED BY <2>5, <2>7, <2>8, <2>9 DEF Calm
    <1> QED BY <1>3, <1>4

LEMMA MakeCalm ==
    ASSUME PathInv, DataInv, Calm, NEW h \in Handles, Materialize(h), left.calm, left'.calm
    PROVE  Calm'
    <1>0. handle[h].pc = "making" /\ UNCHANGED <<stored, dir, tracked, mounted>> BY DEF Materialize, storeVars
    <1>1. /\ handle[h].slot = current /\ current # 0 /\ current \in Slots /\ State(h) = Cur
          /\ handle[h].path = Cur.path /\ ~handle[h].failed /\ Reached(Cur.path) = "file" /\ Content(Cur.path) = File
          /\ HandleFields \subseteq DOMAIN handle[h] /\ DOMAIN handle = Handles /\ DOMAIN states = Slots
          /\ DataFields \subseteq DOMAIN Cur
        BY <1>0, Afloat
    <1>2. ~Cur.made /\ handle[h].why \in {"open", "trunc"} /\ \A g \in Handles \ {h} : handle[g].slot # current
        BY <1>0, <1>1, Facts DEF Slotted, State
    <1>3. ~Spend("fault") BY Spent, Facts DEF Typed
    <1> DEFINE u == [WithSize(Cur, Len(File)) EXCEPT !.made = TRUE, !.base = Len(File)]
               p == [handle[h] EXCEPT !.pc = handle[h].why]
    <1>4. /\ states' = [states EXCEPT ![current] = u] /\ handle' = [handle EXCEPT ![h] = p] /\ UNCHANGED current
        <2>1. states[handle[h].slot] = Cur BY <1>1 DEF Cur
        <2>2. /\ states' = [states EXCEPT ![handle[h].slot] = u]
              /\ handle' = [handle EXCEPT ![h].pc = handle[h].why] /\ UNCHANGED current
            BY <1>1, <1>3, <2>1 DEF Materialize
        <2> QED BY <1>1, <2>2
    <1>5. u.path = Cur.path /\ u.base = Len(File) /\ u.half = Cur.half BY <1>1 DEF WithSize, DataFields
    <1>6. p.slot = current /\ p.path = Cur.path /\ ~p.failed /\ p.pc = handle[h].why BY <1>1 DEF HandleFields
    <1> HIDE DEF u, p
    <1>7. handle'[h] = p /\ (\A g \in Handles \ {h} : handle'[g] = handle[g]) /\ Cur' = u BY <1>1, <1>4 DEF Cur
    <1>8. ~Cur.half BY <1>1, <1>2, Facts DEF Unmade, Fresh
    <1>9. File' = File BY <1>0 DEF File
    <1>10. Level(Cur', File', Past') BY <1>5, <1>7, <1>8, <1>9 DEF Level
    <1>11. p.pc \notin Sync /\ p.pc # "verb" BY <1>2, <1>6 DEF Sync
    <1>12. Calmly(p, current, Cur.path) BY <1>6, <1>11 DEF Calmly
    <1> QED BY <1>0, <1>4, <1>5, <1>7, <1>9, <1>10, <1>11, <1>12, Becalmed

-----------------------------------------------------------------------------
(* Calm: data calls and commits.                                           *)

LEMMA CallCalm ==
    ASSUME PathInv, DataInv, Calm, NEW h \in Handles, handle[h].pc \in {"open", "trunc"}, State(h).held = "",
           NEW w2, NEW bytes2, Turned(Cur, app.bytes, w2, bytes2),
           states' = [states EXCEPT ![handle[h].slot] = w2],
           handle' = handle \/ handle' = [handle EXCEPT ![h].pc = "open"],
           UNCHANGED <<stored, current, dir, tracked, mounted>>
    PROVE  Calm'
    <1>0. handle[h].pc # "closed" OBVIOUS
    <1>1. /\ handle[h].slot = current /\ current # 0 /\ current \in Slots /\ handle[h].path = Cur.path
          /\ ~handle[h].failed
          /\ HandleFields \subseteq DOMAIN handle[h] /\ DOMAIN handle = Handles /\ DOMAIN states = Slots
        BY <1>0, Afloat
    <1>2. Cur' = w2 BY <1>1 DEF Cur
    <1>3. w2.path = Cur.path /\ w2.made = Cur.made /\ w2.base = Cur.base /\ w2.half = Cur.half
        BY DEF Turned, Still
    <1>4. /\ \A g \in Handles \ {h} : handle'[g] = handle[g]
          /\ handle'[h].pc \in {"open", "trunc"} /\ handle'[h].slot = current /\ handle'[h].path = Cur.path
          /\ ~handle'[h].failed
        BY <1>1 DEF HandleFields
    <1>5. Calmly(handle'[h], current, Cur.path) BY <1>4 DEF Calmly, Sync
    <1>6. ~Passed(handle[h]) /\ handle'[h].pc # "verb" BY <1>4 DEF Passed
    <1> QED BY <1>2, <1>3, <1>4, <1>5, <1>6, Stillwater

LEMMA DataCalm ==
    ASSUME PathInv, DataInv, Calm, Sealed, NEW h \in Handles,
           \/ \E x \in Writes : Write(h, x[1], x[2])
           \/ \E n \in Sizes : SetSize(h, n) \/ Allocate(h, n)
           \/ StageMode(h)
    PROVE  Calm'
    <1>0. Serving(h) BY DEF Write, SetSize, Allocate, StageMode
    <1>1. handle[h].pc \in {"open", "trunc"} /\ State(h).held = "" BY <1>0 DEF Serving
    <1>2. State(h) = Cur /\ Cover(Cur, File, app, mode["file"], FALSE) /\ current # 0 /\ Cur.made
        BY <1>0, Called DEF Serving
    <1>3. Good(Cur, File, app.bytes) /\ app.bytes \in Seq(Int) /\ left \in Budget BY <1>2, Facts DEF Cover, Typed
    <1>4. ASSUME NEW w2, NEW wish, Change(h, w2, wish), NEW bytes2, Turned(Cur, app.bytes, w2, bytes2)
          PROVE  Calm'
        <2>1. /\ states' = [states EXCEPT ![handle[h].slot] = w2] /\ handle' = handle
              /\ UNCHANGED <<stored, current, dir, tracked, mounted>>
            BY <1>4 DEF Change, storeVars
        <2> QED BY <1>1, <1>4, <2>1, CallCalm
    <1>5. ASSUME NEW x \in Writes, Write(h, x[1], x[2]) PROVE Calm'
        <2> DEFINE data == [i \in 1..x[2] |-> left.data]
                   w2 == Written(Cur, Content(Cur.path), x[1], data)
                   wish == [app EXCEPT !.bytes = WriteAt(@, x[1], data)]
        <2>1. x[1] \in Nat /\ x[2] \in Nat BY FuseAssumption
        <2>2. data \in Seq(Int)
            <3>1. left.data \in Int BY <1>3 DEF Budget
            <3> QED BY <2>1, <3>1, IsASeq
        <2>3. Backed(Cur, Content(Cur.path), app.bytes)
            <3>1. ~Renaming BY DEF Calm, Renaming
            <3> QED BY <1>2, <3>1, Reads
        <2>4. Change(h, w2, wish) BY <1>2, <1>5 DEF Write
        <2> HIDE DEF data
        <2>5. Turned(Cur, app.bytes, w2, WriteAt(app.bytes, x[1], data)) BY <1>3, <2>1, <2>2, <2>3, Wrote
        <2> HIDE DEF w2, wish
        <2> QED BY <1>4, <2>4, <2>5
    <1>6. ASSUME NEW n \in Sizes, SetSize(h, n) PROVE Calm'
        <2>1. n \in Nat BY FuseAssumption
        <2>2. ~Regrows(Cur, n) BY <1>2, <1>6 DEF SetSize, Sealed, Racing
        <2>3. Change(h, Resized(Cur, n), [app EXCEPT !.bytes = Resize(@, n)]) BY <1>2, <1>6 DEF SetSize
        <2>4. Turned(Cur, app.bytes, Resized(Cur, n), Resize(app.bytes, n)) BY <1>3, <2>1, <2>2, Truncated
        <2> QED BY <1>4, <2>3, <2>4
    <1>7. ASSUME NEW n \in Sizes, Allocate(h, n) PROVE Calm'
        <2>1. n \in Nat BY FuseAssumption
        <2>2. n > Cur.size BY <1>2, <1>7 DEF Allocate
        <2>3. Change(h, Allocated(Cur, n), [app EXCEPT !.bytes = Resize(@, n)]) BY <1>2, <1>7 DEF Allocate
        <2>4. Turned(Cur, app.bytes, Allocated(Cur, n), Resize(app.bytes, n)) BY <1>3, <2>1, <2>2, Extended
        <2> QED BY <1>4, <2>3, <2>4
    <1>8. ASSUME StageMode(h) PROVE Calm'
        <2> DEFINE w2 == [Cur EXCEPT !.pending = left.data]
        <2>1. Change(h, w2, [app EXCEPT !.mode = left.data]) BY <1>2, <1>8 DEF StageMode
        <2>2. w2.path = Cur.path /\ w2.made = Cur.made /\ w2.base = Cur.base /\ w2.half = Cur.half
            BY <1>3 DEF Good, DataFields
        <2> HIDE DEF w2
        <2>3. /\ states' = [states EXCEPT ![handle[h].slot] = w2] /\ handle' = handle
              /\ UNCHANGED <<stored, current, dir, tracked, mounted>>
            BY <2>1 DEF Change, storeVars
        <2>4. handle[h].slot = current /\ current \in Slots /\ DOMAIN states = Slots BY <1>1, Afloat
        <2>5. Cur' = w2 BY <2>3, <2>4 DEF Cur
        <2>6. Calmly(handle'[h], current, Cur.path) BY <2>3 DEF Calm
        <2>7. handle'[h].pc # "verb" /\ (Passed(handle[h]) => Passed(handle'[h])) BY <1>1, <2>3
        <2> QED BY <2>2, <2>3, <2>5, <2>6, <2>7, Stillwater
    <1> QED BY <1>5, <1>6, <1>7, <1>8

LEMMA TruncateCalm ==
    ASSUME PathInv, DataInv, Calm, NEW h \in Handles, TruncateOpen(h)
    PROVE  Calm'
    <1>1. /\ handle[h].pc = "trunc" /\ State(h).held = "" /\ handle' = [handle EXCEPT ![h].pc = "open"]
          /\ UNCHANGED <<stored, current, dir, tracked, mounted>>
        BY DEF TruncateOpen, storeVars
    <1>2. ~State(h).poisoned /\ DOMAIN states = Slots /\ handle[h].slot = current /\ current \in Slots
        BY <1>1, Afloat
    <1>3. State(h) = Cur /\ Cover(Cur, File, app, mode["file"], FALSE) BY <1>1, <1>2, Called
    <1>4. Turned(Cur, app.bytes, Resized(Cur, 0), Resize(app.bytes, 0)) BY <1>3, Truncated DEF Cover
    <1>5. states' = [states EXCEPT ![handle[h].slot] = Resized(Cur, 0)]
        BY <1>2, <1>3 DEF TruncateOpen, State, Cur
    <1> QED BY <1>1, <1>4, <1>5, CallCalm

\* h moves on; the overlay changes in what the handles have of it.
LEMMA MovesCalm ==
    ASSUME PathInv, DataInv, Calm, NEW h \in Handles, handle[h].pc # "closed",
           NEW p, handle' = [handle EXCEPT ![h] = p], p.slot = handle[h].slot, p.path = handle[h].path, ~p.failed,
           p.pc \in Sync => p.cpath = handle[h].path,
           Passed(handle[h]) => Passed(p), p.pc = "verb" => Accepted(File, p.verb),
           UNCHANGED <<stored, current, dir, tracked, mounted>>,
           states' = states \/ \E u : /\ states' = [states EXCEPT ![handle[h].slot] = u]
                                      /\ \A x \in {"path", "made", "base", "half"} : u[x] = Cur[x]
    PROVE  Calm'
    <1>1. /\ handle[h].slot = current /\ current # 0 /\ current \in Slots /\ handle[h].path = Cur.path
          /\ DOMAIN handle = Handles /\ DOMAIN states = Slots
        BY Afloat
    <1>2. handle'[h] = p /\ \A g \in Handles \ {h} : handle'[g] = handle[g] BY <1>1
    <1>3. Cur'.path = Cur.path /\ Cur'.made = Cur.made /\ Cur'.base = Cur.base /\ Cur'.half = Cur.half
        <2>1. CASE states' = states BY <2>1 DEF Cur
        <2>2. CASE states' # states
            <3>1. PICK u : /\ states' = [states EXCEPT ![handle[h].slot] = u]
                           /\ \A x \in {"path", "made", "base", "half"} : u[x] = Cur[x]
                BY <2>2
            <3>2. Cur' = u BY <1>1, <3>1 DEF Cur
            <3> QED BY <3>1, <3>2
        <2> QED BY <2>1, <2>2
    <1>4. Calmly(p, current, Cur.path) BY <1>1 DEF Calmly
    <1> QED BY <1>2, <1>3, <1>4, Stillwater

\* A commit that ends well before its verb.
LEMMA GivesBackCalm ==
    ASSUME PathInv, DataInv, Calm, NEW h \in Handles, handle[h].pc \in Sync, handle' = Return(h, FALSE)
    PROVE  /\ \A g \in Handles \ {h} : handle'[g] = handle[g]
           /\ Calmly(handle'[h], current, Cur.path) /\ handle'[h].pc \notin Sync
    <1>1. Keeps(h) /\ handle'[h].failed = FALSE /\ handle'[h].pc \notin Sync BY GaveBack
    <1>2. handle[h].slot = current /\ handle[h].path = Cur.path
        <2>1. handle[h].pc # "closed" BY DEF Sync
        <2> QED BY <2>1, Afloat
    <1> QED BY <1>1, <1>2 DEF Keeps, Calmly

LEMMA StartCalm ==
    ASSUME PathInv, DataInv, Calm, NEW h \in Handles, NEW why, CommitStart(h, why)
    PROVE  Calm'
    <1> DEFINE w == State(h)
               p == [handle[h] EXCEPT !.pc = "unlock", !.failed = w.poisoned]
               q == [handle[h] EXCEPT !.pc = "check", !.why = why, !.failed = FALSE, !.cpath = handle[h].path]
               u == [Cur EXCEPT !.held = h]
    <1>0. /\ handle[h].pc = "open" /\ UNCHANGED <<stored, current, dir, tracked, mounted>>
        BY DEF CommitStart, storeVars
    <1>1. /\ HandleFields \subseteq DOMAIN handle[h] /\ DOMAIN handle = Handles /\ DOMAIN states = Slots
          /\ w = Cur /\ handle[h].slot = current /\ ~Cur.poisoned /\ DataFields \subseteq DOMAIN Cur
        BY <1>0, Afloat
    <1>2. \/ handle' = [handle EXCEPT ![h] = p] /\ states' = states
          \/ handle' = [handle EXCEPT ![h] = q] /\ states' = [states EXCEPT ![handle[h].slot] = u]
        BY <1>1 DEF CommitStart, State
    <1>3. /\ p.pc = "unlock" /\ p.slot = handle[h].slot /\ p.path = handle[h].path /\ ~p.failed
          /\ q.pc = "check" /\ q.slot = handle[h].slot /\ q.path = handle[h].path /\ ~q.failed
          /\ q.cpath = handle[h].path
        BY <1>1 DEF HandleFields
    <1>4. \A x \in {"path", "made", "base", "half"} : u[x] = Cur[x] BY <1>1 DEF DataFields
    <1> HIDE DEF p, q, u, w
    <1>5. ~Passed(handle[h]) /\ p.pc \notin Sync /\ p.pc # "verb" /\ q.pc # "verb" BY <1>0, <1>3 DEF Passed, Sync
    <1>6. CASE handle' = [handle EXCEPT ![h] = p] /\ states' = states BY <1>0, <1>3, <1>5, <1>6, MovesCalm
    <1>7. CASE handle' = [handle EXCEPT ![h] = q] /\ states' = [states EXCEPT ![handle[h].slot] = u]
        BY <1>0, <1>3, <1>4, <1>5, <1>7, MovesCalm
    <1> QED BY <1>2, <1>6, <1>7

\* Every edit of a patch lies in a file that is as long as the overlay takes it to be.
LEMMA Apposite ==
    ASSUME NEW w, NEW file, NEW bytes, Good(w, file, bytes), Tidy(w), Len(file) = w.base,
           NEW from, Backed(w, from, bytes)
    PROVE  Accepted(file, Plan(w, from))
    <1>1. SUFFICES ASSUME Plan(w, from).kind = "patch", NEW e \in Plan(w, from).edits
                   PROVE  e.start + e.del <= Len(file)
        BY DEF Accepted
    <1>2. Mends(w) /\ Plan(w, from).edits = Edits(w, View(w, from))
        BY <1>1 DEF Mends, Plan, NoVerb
    <1>3. View(w, from) = bytes
        <2>1. Filled(w, bytes) BY DEF Good, Sound, Filled
        <2> QED BY <2>1, Viewed
    <1>4. e \in Edits(w, bytes) /\ Near(w) BY <1>1, <1>2, <1>3 DEF Tidy
    <1>5. PICK r \in Ranges(w.dirty) : \E p \in Pages(r) :
              /\ e = EditAt(w, bytes, p, r[2]) /\ e.start = p /\ p \in Nat /\ p <= w.base
        BY <1>4, Edited
    <1>6. PICK p \in Pages(r) : e = EditAt(w, bytes, p, r[2]) /\ e.start = p /\ p \in Nat /\ p <= w.base
        BY <1>5
    <1>7. r[2] \in Int
        <2>1. w.dirty \subseteq Int BY DEF Good, Sized, Span
        <2> QED BY <2>1, Run
    <1>8. e.del = Larger(0, Smaller(Smaller(p + Page, r[2]), w.base) - p) BY <1>6 DEF EditAt
    <1>9. Page \in Nat /\ w.base \in Nat BY Page0 DEF Good, Sized
    <1> QED BY <1>6, <1>7, <1>8, <1>9 DEF Larger, Smaller

LEMMA PlanCalm ==
    ASSUME PathInv, DataInv, Calm, NEW h \in Handles, CommitPlan(h)
    PROVE  Calm'
    <1> DEFINE v == Plan(Cur, Content(Cur.path))
               q == IF v.kind = "none" THEN "finish" ELSE "verb"
               p == [handle[h] EXCEPT !.pc = q, !.verb = v, !.cpend = Cur.pending]
    <1>0. /\ handle[h].pc = "check" /\ UNCHANGED <<stored, current, dir, tracked, mounted>>
        BY DEF CommitPlan, storeVars
    <1>1. handle[h].pc \in Sync /\ ~Passed(handle[h]) BY <1>0 DEF Sync, Passed
    <1>2. /\ State(h) = Cur /\ Cur.made /\ current # 0
          /\ Cover(Cur, File, app, mode["file"], Passed(handle[h]))
          /\ Bound(handle[h], Cur, File, app.bytes) /\ \A g \in Handles \ {h} : handle[g].pc \notin Sync
        BY <1>1, Holder
    <1>3. /\ handle[h].slot = current /\ handle[h].path = Cur.path /\ ~handle[h].failed
          /\ ~Cur.poisoned /\ ~Cur.deleted /\ Cur.path # "" /\ Content(Cur.path) = File
          /\ HandleFields \subseteq DOMAIN handle[h] /\ DOMAIN handle = Handles
        BY <1>0, Afloat
    <1>4. handle[h].cpath = Cur.path BY <1>1, <1>3 DEF Calm, Calmly
    <1>5. Backed(Cur, Content(Cur.path), app.bytes)
        <2>1. ~Renaming BY DEF Calm, Renaming
        <2> QED BY <1>2, <2>1, Reads
    <1>6. Good(Cur, File, app.bytes) /\ Tidy(Cur) BY <1>0, <1>2 DEF Cover, Bound
    <1>7. Readable(Cur, Content(Cur.path))
        <2>1. Filled(Cur, app.bytes) BY <1>6 DEF Good, Sound, Filled
        <2> QED BY <1>5, <2>1, Viewed
    <1>8. handle' = [handle EXCEPT ![h] = p] /\ states' = states
        BY <1>2, <1>3, <1>4, <1>7 DEF CommitPlan, Sent
    <1>9. /\ p.slot = handle[h].slot /\ p.path = handle[h].path /\ ~p.failed /\ p.cpath = handle[h].path
          /\ p.verb = v
        BY <1>3, <1>4 DEF HandleFields
    <1>10. Len(File) = Cur.base
        <2>1. ~Past BY <1>1, <1>2 DEF Past, Passed, Sync
        <2> QED BY <1>2, <2>1 DEF Calm, Level
    <1>11. Accepted(File, v) BY <1>5, <1>6, <1>10, Apposite
    <1> HIDE DEF p, q, v
    <1> QED BY <1>0, <1>1, <1>8, <1>9, <1>11, MovesCalm

LEMMA VerbCalm ==
    ASSUME PathInv, DataInv, Calm, NEW h \in Handles, CommitVerb(h) \/ CommitTrim(h), left.calm, left'.calm
    PROVE  Calm'
    <1> DEFINE q == IF handle[h].pc = "verb" /\ handle[h].verb.trim THEN "trim" ELSE "finish"
               p == [handle[h] EXCEPT !.pc = q]
    <1>0. handle[h].pc \in {"verb", "trim"} /\ UNCHANGED <<current, dir, tracked, mounted>>
        BY DEF CommitVerb, CommitTrim
    <1>1. handle[h].pc \in Sync BY <1>0 DEF Sync
    <1>2. \A g \in Handles \ {h} : handle[g].pc \notin Sync BY <1>1, Holder
    <1>3. /\ handle[h].slot = current /\ handle[h].path = Cur.path /\ ~handle[h].failed
          /\ Reached(Cur.path) = "file" /\ HandleFields \subseteq DOMAIN handle[h] /\ DOMAIN handle = Handles
          /\ current # 0
        BY <1>0, Afloat
    <1>4. handle[h].cpath = Cur.path BY <1>1, <1>3 DEF Calm, Calmly
    <1>5. ~Spend("fault") BY Spent, Facts DEF Typed
    <1>6. handle' = [handle EXCEPT ![h] = p] /\ states' = states
        <2>1. CASE CommitVerb(h)
            <3>1. handle[h].pc = "verb" BY <2>1 DEF CommitVerb
            <3>2. Accepted(stored["file"], handle[h].verb) BY <3>1 DEF Calm, File
            <3> QED BY <1>3, <1>4, <1>5, <2>1, <3>1, <3>2 DEF CommitVerb
        <2>2. CASE CommitTrim(h)
            <3>1. handle[h].pc = "trim" BY <2>2 DEF CommitTrim
            <3> QED BY <1>3, <1>4, <1>5, <2>2, <3>1 DEF CommitTrim
        <2> QED BY <2>1, <2>2
    <1>7. p.slot = current /\ p.path = Cur.path /\ ~p.failed /\ p.cpath = Cur.path /\ p.pc = q
        BY <1>3, <1>4 DEF HandleFields
    <1>8. q \in {"trim", "finish"} OBVIOUS
    <1> HIDE DEF p, q
    <1>9. handle'[h] = p /\ (\A g \in Handles \ {h} : handle'[g] = handle[g]) /\ Cur' = Cur
        BY <1>0, <1>3, <1>6 DEF Cur
    <1>10. Past' BY <1>7, <1>8, <1>9 DEF Past
    <1>11. current # 0 /\ Cur'.made => Level(Cur', File', Past') BY <1>9, <1>10 DEF Calm, Level
    <1>12. Calmly(handle'[h], current, Cur.path) /\ handle'[h].pc # "verb" BY <1>7, <1>8, <1>9 DEF Calmly
    <1>13. \A g \in Handles \ {h} : handle[g].pc # "verb" BY <1>2 DEF Sync
    <1> QED BY <1>0, <1>9, <1>11, <1>12, <1>13, Becalmed

LEMMA FinishCalm ==
    ASSUME PathInv, DataInv, Calm, NEW h \in Handles, CommitFinish(h), left.calm, left'.calm
    PROVE  Calm'
    <1>l. PICK landed \in BOOLEAN : landed OBVIOUS
    <1> DEFINE v == handle[h].verb
               u == Settled(Cur, v, landed)
    <1>0. handle[h].pc = "finish" /\ UNCHANGED <<stored, current, dir, tracked, mounted>> BY DEF CommitFinish
    <1>1. handle[h].pc \in Sync /\ Passed(handle[h]) BY <1>0 DEF Sync, Passed
    <1>2. /\ handle[h].slot = current /\ current # 0 /\ current \in Slots /\ State(h) = Cur
          /\ \A g \in Handles \ {h} : handle[g].pc \notin Sync
          /\ Cover(Cur, File, app, mode["file"], Passed(handle[h]))
          /\ Bound(handle[h], Cur, File, app.bytes) /\ DOMAIN states = Slots /\ ~Cur.poisoned
        BY <1>1, Holder
    <1>3. Reached(Cur.path) = "file" /\ handle[h].path = Cur.path BY <1>0, Afloat
    <1>4. handle[h].cpath = Cur.path BY <1>1, <1>2, <1>3 DEF Calm, Calmly
    <1>5. ~Spend("fault") BY Spent, Facts DEF Typed
    <1>6. states' = [states EXCEPT ![handle[h].slot] = u] /\ handle' = Return(h, FALSE)
        <2>1. PICK done \in BOOLEAN :
                 /\ states' = [states EXCEPT ![handle[h].slot] = Settled(Cur, v, done)]
                 /\ handle' = Return(h, ~done)
                 /\ done \/ (handle[h].cpend # 0 /\ Spend("fault"))
            BY <1>2, <1>3, <1>4 DEF CommitFinish
        <2>2. done = landed /\ ~done = FALSE BY <1>l, <1>5, <2>1
        <2> QED BY <2>1, <2>2
    <1>7. File = app.bytes /\ Sendable(v, Cur) /\ Good(Cur, File, app.bytes)
        BY <1>0, <1>2 DEF Bound, Cover
    <1> HIDE DEF u
    <1>8. /\ Good(u, File, app.bytes) /\ u.path = Cur.path /\ u.made = Cur.made /\ u.size = Cur.size
          /\ u.dirty = {} /\ u.base = u.size
        <2>1. /\ Good(u, File, app.bytes) /\ FitsIn(u, File)
              /\ u.path = Cur.path /\ u.deleted = Cur.deleted /\ u.poisoned = Cur.poisoned /\ u.closed = Cur.closed
              /\ u.made = Cur.made /\ u.size = Cur.size /\ u.hasSnap = Cur.hasSnap
              /\ u.pending = IF landed THEN 0 ELSE Cur.pending
              /\ landed => u.dirty = {} /\ u.base = u.size
            BY <1>7, Settles DEF u
        <2> QED BY <1>l, <2>1
    <1>9. ~u.half BY <1>8 DEF Good, Odd
    <1>10. Len(File) = u.base BY <1>7, <1>8, Wrought
    <1>11. Cur' = u BY <1>0, <1>2, <1>6 DEF Cur
    <1>12. File' = File BY <1>0 DEF File
    <1>13. Level(Cur', File', Past') BY <1>9, <1>10, <1>11, <1>12 DEF Level
    <1>14. /\ \A g \in Handles \ {h} : handle'[g] = handle[g]
           /\ Calmly(handle'[h], current, Cur.path) /\ handle'[h].pc \notin Sync
        BY <1>1, <1>6, GivesBackCalm
    <1>15. handle'[h].pc # "verb" BY <1>14 DEF Sync
    <1> QED BY <1>0, <1>8, <1>11, <1>12, <1>13, <1>14, <1>15, Becalmed

-----------------------------------------------------------------------------
(* Calm: releases, and the theorem.                                        *)

LEMMA ReleaseCalm ==
    ASSUME PathInv, DataInv, Calm, NEW h \in Handles,
           Unlock(h) \/ QuarantineStart(h) \/ QuarantineSave(h) \/ Delete(h) \/ LastClose(h)
    PROVE  Calm'
    <1>1. handle[h].pc \in {"unlock", "failed", "saving", "drop", "locks"}
        BY DEF Unlock, QuarantineStart, QuarantineSave, Delete, LastClose
    <1>2. handle[h].pc # "closed" BY <1>1
    <1>3. ~handle[h].failed /\ HandleFields \subseteq DOMAIN handle[h] /\ DOMAIN handle = Handles BY <1>2, Afloat
    <1>4. handle[h].pc \notin {"failed", "saving"} BY <1>3, Facts DEF Placed, Place
    <1>5. Unlock(h) \/ Delete(h) \/ LastClose(h) BY <1>4 DEF QuarantineStart, QuarantineSave
    <1>6. PICK q \in {"failed", "drop", "locks", "ref"} : handle' = [handle EXCEPT ![h].pc = q]
        BY <1>5 DEF Unlock, Delete, LastClose
    <1>7. UNCHANGED <<stored, current, dir, tracked, mounted>> /\ states' = states
        BY <1>5 DEF Unlock, Delete, LastClose, storeVars
    <1> DEFINE p == [handle[h] EXCEPT !.pc = q]
    <1>8. handle' = [handle EXCEPT ![h] = p] BY <1>3, <1>6
    <1>9. p.slot = handle[h].slot /\ p.path = handle[h].path /\ ~p.failed /\ p.pc = q BY <1>3 DEF HandleFields
    <1> HIDE DEF p
    <1>10. p.pc \notin Sync /\ p.pc # "verb" /\ ~Passed(handle[h]) BY <1>1, <1>9 DEF Sync, Passed
    <1> QED BY <1>2, <1>7, <1>8, <1>9, <1>10, MovesCalm

LEMMA DropCalm ==
    ASSUME PathInv, DataInv, Calm, NEW h \in Handles, Drop(h)
    PROVE  Calm'
    <1> DEFINE last == LastRef(Cur)
               used == \E g \in Handles \ {h} : handle[g].slot = current
    <1>0. /\ handle[h].pc = "ref" /\ handle' = [handle EXCEPT ![h] = Rest]
          /\ UNCHANGED <<stored, dir, tracked, mounted>>
        BY DEF Drop, storeVars
    <1>1. /\ handle[h].slot = current /\ current # 0 /\ current \in Slots /\ State(h) = Cur
          /\ DOMAIN handle = Handles /\ DOMAIN states = Slots /\ DataFields \subseteq DOMAIN Cur
        BY <1>0, Afloat
    <1>2. handle'[h] = Rest /\ \A g \in Handles \ {h} : handle'[g] = handle[g] BY <1>0, <1>1
    <1>3. \A slot, path : Calmly(Rest, slot, path) BY Blank0 DEF Calmly, Sync
    <1>4. CASE last
        <2>1. current' = 0 BY <1>1, <1>4 DEF Drop, Cur
        <2>2. \A g \in Handles \ {h} : handle[g].slot # current BY <1>0, <1>1, <1>4, Alone DEF LastRef
        <2>3. \A g \in Handles \ {h} : handle[g].slot = 0 /\ ~handle[g].failed BY <2>2 DEF Calm, Calmly
        <2>4. \A g \in Handles \ {h} : handle[g].pc = "closed" BY <2>3, Facts DEF Slotted
        <2>5. ASSUME NEW g \in Handles PROVE (\A path : Calmly(handle'[g], 0, path)) /\ handle'[g].pc # "verb"
            <3>1. CASE g = h BY <1>2, <1>3, <3>1, Blank0
            <3>2. CASE g # h BY <1>2, <2>3, <2>4, <3>2 DEF Calmly, Sync
            <3> QED BY <3>1, <3>2
        <2>6. \A g \in Handles : Calmly(handle[g], current, Cur.path)' BY <2>1, <2>5 DEF Calmly
        <2>7. mounted' /\ dir'.pc = "idle" BY <1>0 DEF Calm
        <2> QED BY <2>1, <2>5, <2>6, <2>7 DEF Calm
    <1>5. CASE ~last
        <2>1. used
            <3> DEFINE S == {g \in Handles : handle[g].slot = current}
            <3>1. SUFFICES ASSUME ~used PROVE FALSE OBVIOUS
            <3>2. S = {h} BY <1>1, <3>1
            <3>3. Cardinality(S) = 1 BY <3>2, FS_Singleton
            <3>4. Cur.refs = Cardinality(S) BY <1>1, Facts DEF Slotted, Cur
            <3> QED BY <1>5, <3>3, <3>4 DEF LastRef
        <2>2. current' = current /\ states' = [states EXCEPT ![current] = [states[current] EXCEPT !.refs = @ - 1]]
            <3>1. ~LastRef(states[current]) BY <1>5 DEF Cur
            <3> HIDE DEF last
            <3> QED BY <1>1, <2>1, <3>1 DEF Drop
        <2>3. Cur' = [Cur EXCEPT !.refs = @ - 1] BY <1>1, <2>2 DEF Cur
        <2>4. Cur'.path = Cur.path /\ Cur'.made = Cur.made /\ Cur'.base = Cur.base /\ Cur'.half = Cur.half
            BY <1>1, <2>3 DEF DataFields
        <2>5. ~Passed(handle[h]) /\ handle'[h].pc # "verb" BY <1>0, <1>2, Blank0 DEF Passed
        <2> HIDE DEF last, used
        <2> QED BY <1>0, <1>2, <1>3, <2>2, <2>4, <2>5, Stillwater
    <1> QED BY <1>4, <1>5

\* What fails, moves a name or ends the mount is not calm.
LEMMA Troubles ==
    ASSUME PathInv, DataInv, Calm, left.calm, left'.calm,
           \/ \E src, dst \in Names, kind \in {"unlink", "rename"} : DirStart(kind, src, dst)
           \/ DirHub \/ DirHandles \/ DirStates \/ \E n \in Names : Link(n)
           \/ Close \/ Crash \/ Rival \/ Mount \/ \E e \in recovery : Redrive(e)
    PROVE  FALSE
    <1>1. ~Spend("dir") /\ ~Spend("down") /\ ~Spend("rival") BY Spent, Facts DEF Typed
    <1>2. mounted /\ dir.pc = "idle" BY DEF Calm
    <1> QED BY <1>1, <1>2
            DEF DirStart, DirHub, DirHandles, DirStates, Link, Close, Crash, Rival, Mount, Redrive

LEMMA CalmInit == FileInit => CalmInv
    <1> SUFFICES ASSUME FileInit PROVE Calm BY DEF CalmInv
    <1>1. current = 0 /\ handle = [h \in Handles |-> Rest] /\ dir = NoDir /\ mounted BY DEF FileInit
    <1>2. \A h \in Handles : handle[h] = Rest BY <1>1
    <1>3. dir.pc = "idle" BY <1>1 DEF NoDir
    <1>4. \A h \in Handles : Calmly(handle[h], current, Cur.path) /\ handle[h].pc # "verb"
        BY <1>2, Blank0 DEF Calmly, Sync
    <1> QED BY <1>1, <1>3, <1>4 DEF Calm

LEMMA CalmStep == CalmSealed /\ PathInv /\ DataInv /\ CalmInv /\ [Next]_vars => CalmInv'
    <1>0. SUFFICES ASSUME CalmSealed, PathInv, DataInv, CalmInv, [Next]_vars, left'.calm PROVE Calm'
        BY DEF CalmInv
    <1>a. left.calm
        <2>1. left' = left \/ \E k \in {"data", "open", "dir", "fault", "down", "rival"} : Spend(k)
            <3>1. ASSUME NEW h \in Handles, NEW trunc \in BOOLEAN, Open(h, trunc) PROVE Spend("open")
                BY <3>1 DEF Open
            <3>2. ASSUME NEW h \in Handles,
                         \/ \E w \in Writes : Write(h, w[1], w[2])
                         \/ \E n \in Sizes : SetSize(h, n) \/ Allocate(h, n)
                         \/ StageMode(h)
                  PROVE  Spend("data")
                BY <3>2 DEF Write, SetSize, Allocate, StageMode, Change
            <3>3. ASSUME NEW h \in Handles,
                         \/ Materialize(h) \/ TruncateOpen(h)
                         \/ CommitStart(h, "flush") \/ (Answered(h) /\ CommitStart(h, "release"))
                         \/ CommitPlan(h)
                  PROVE  left' = left \/ Spend("fault")
                BY <3>3 DEF Materialize, TruncateOpen, CommitStart, CommitPlan
            <3>4. ASSUME NEW h \in Handles, CommitVerb(h) PROVE left' = left \/ Spend("fault")
                BY <3>4 DEF CommitVerb
            <3>5. ASSUME NEW h \in Handles, CommitTrim(h) PROVE left' = left \/ Spend("fault")
                BY <3>5 DEF CommitTrim
            <3>6. ASSUME NEW h \in Handles, CommitFinish(h) PROVE left' = left \/ Spend("fault")
                BY <3>6 DEF CommitFinish
            <3>7. ASSUME NEW h \in Handles,
                         \/ Unlock(h) \/ QuarantineStart(h) \/ QuarantineSave(h) \/ Delete(h) \/ LastClose(h) \/ Drop(h)
                  PROVE  left' = left
                BY <3>7 DEF Unlock, QuarantineStart, QuarantineSave, Delete, LastClose, Drop
            <3>8. ASSUME NEW h \in Handles, Locking(h) \/ Parked(h) \/ ReleaseLocks(h) PROVE left' = left
                BY <3>8 DEF Locking, Parked, ReleaseLocks, fileVars
            <3>9. CASE \/ \E src, dst \in Names, kind \in {"unlink", "rename"} : DirStart(kind, src, dst)
                       \/ DirHub \/ DirHandles \/ DirStates \/ \E n \in Names : Link(n)
                BY <3>9 DEF DirStart, DirHub, DirHandles, DirStates, Link
            <3>10. CASE Close \/ Crash \/ Rival \/ Mount \/ \E e \in recovery : Redrive(e)
                BY <3>10 DEF Close, Crash, Rival, Mount, Redrive
            <3>11. CASE UNCHANGED vars BY <3>11 DEF vars, fileVars
            <3> QED BY <1>0, <3>1, <3>2, <3>3, <3>4, <3>5, <3>6, <3>7, <3>8, <3>9, <3>10, <3>11 DEF Next
        <2>2. left \in Budget BY <1>0, Facts DEF Typed
        <2> QED BY <1>0, <2>1, <2>2, Spent
    <1>b. Calm /\ Sealed BY <1>0, <1>a DEF CalmInv, CalmSealed
    <1>1. ASSUME NEW h \in Handles, NEW trunc \in BOOLEAN, Open(h, trunc) PROVE Calm'
        BY <1>0, <1>1, <1>b, OpenCalm
    <1>2. ASSUME NEW h \in Handles, Materialize(h) \/ TruncateOpen(h) PROVE Calm'
        BY <1>0, <1>2, <1>a, <1>b, MakeCalm, TruncateCalm
    <1>3. ASSUME NEW h \in Handles,
                 \/ \E w \in Writes : Write(h, w[1], w[2])
                 \/ \E n \in Sizes : SetSize(h, n) \/ Allocate(h, n)
                 \/ StageMode(h)
          PROVE  Calm'
        BY <1>0, <1>3, <1>b, DataCalm
    <1>4. ASSUME NEW h \in Handles, CommitStart(h, "flush") \/ (Answered(h) /\ CommitStart(h, "release"))
          PROVE  Calm'
        BY <1>0, <1>4, <1>b, StartCalm
    <1>5. ASSUME NEW h \in Handles, CommitPlan(h) \/ CommitVerb(h) \/ CommitTrim(h) \/ CommitFinish(h)
          PROVE  Calm'
        BY <1>0, <1>5, <1>a, <1>b, PlanCalm, VerbCalm, FinishCalm
    <1>6. ASSUME NEW h \in Handles,
                 Unlock(h) \/ QuarantineStart(h) \/ QuarantineSave(h) \/ Delete(h) \/ LastClose(h) \/ Drop(h)
          PROVE  Calm'
        BY <1>0, <1>6, <1>b, ReleaseCalm, DropCalm
    <1>7. CASE UNCHANGED fileVars
        <2>1. UNCHANGED <<stored, states, current, handle, dir, tracked, mounted>> BY <1>7 DEF fileVars
        <2>2. File' = File /\ Cur' = Cur /\ (Past' <=> Past) BY <2>1 DEF File, Cur, Past
        <2> QED BY <1>b, <2>1, <2>2 DEF Calm, Calmly, Level, Accepted
    <1>8. ASSUME NEW h \in Handles, Locking(h) \/ Parked(h) \/ ReleaseLocks(h) PROVE Calm'
        BY <1>7, <1>8 DEF Locking, Parked, ReleaseLocks
    <1>9. CASE \/ \E src, dst \in Names, kind \in {"unlink", "rename"} : DirStart(kind, src, dst)
               \/ DirHub \/ DirHandles \/ DirStates \/ \E n \in Names : Link(n)
               \/ Close \/ Crash \/ Rival \/ Mount \/ \E e \in recovery : Redrive(e)
        BY <1>0, <1>9, <1>a, <1>b, Troubles
    <1>10. CASE UNCHANGED vars BY <1>7, <1>10 DEF vars
    <1> QED BY <1>0, <1>1, <1>2, <1>3, <1>4, <1>5, <1>6, <1>8, <1>9, <1>10 DEF Next

\* Where no call of the store failed and no name moved, no commit is refused: every edit of a patch
\* lies in the file it was planned over, and nothing written is answered with an error
\* (commitTemp).
THEOREM CalmAlwaysCommits ==
    ASSUME CalmSealed PROVE Spec => []CalmCommits
    <1>0. Loosed /\ Sealed BY DEF CalmSealed, Sealed, Loosed
    <1>1. FileInit => PathInv /\ DataInv /\ CalmInv BY PathInit, DataInit, CalmInit
    <1>2. PathInv /\ DataInv /\ CalmInv /\ [Next]_vars => (PathInv /\ DataInv /\ CalmInv)'
        BY <1>0, PathStep, DataStep, CalmStep
    <1>3. CalmInv => CalmCommits BY DEF CalmInv, Calm, Calmly, CalmCommits
    <1> QED BY <1>1, <1>2, <1>3, PTL DEF Spec

=============================================================================
