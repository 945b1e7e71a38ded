--------------------- MODULE WorkspaceProjection_proofs ---------------------
(***************************************************************************)
(* Proofs about the workspace projection, for any number of processes,     *)
(* jobs, workspaces and files, any events and any disturbances.            *)
(***************************************************************************)
EXTENDS WorkspaceProjection, FiniteSetTheorems, SequenceTheorems, WellFoundedInduction,
        TLAPS

-----------------------------------------------------------------------------
(***************************************************************************)
(* The inductive invariant.                                                *)
(***************************************************************************)
LogEvent == Event \cup {Genesis(w) : w \in Workspaces}

FileEntry == [id : Files, at : 1 .. MaxLog]

Kinds == {"run", "rebuild"}

\* What a job is in each of its phases, in a log of length n.
JobOK(job, n) ==
    \/ job = Idle
    \/ job \in [phase : {"starting"}, kind : {"run"}, process : Processes]
    \/ job \in [phase : {"truncating", "resetting"}, kind : {"rebuild"}, process : Processes]
    \/ job \in [phase : {"ranging"}, kind : Kinds, process : Processes, from : Nat]
    \/ /\ job \in [phase : {"event", "applied"}, kind : Kinds, process : Processes,
                   next : Nat, upTo : Nat]
       /\ 1 <= job.next /\ job.next <= job.upTo /\ job.upTo <= n
    \/ /\ job \in [phase : {"writing"}, kind : Kinds, process : Processes,
                   next : Nat, upTo : Nat, row : Row]
       /\ 1 <= job.next /\ job.next <= job.upTo /\ job.upTo <= n

\* The identifiers of the log: what Possible lets in.
Sane(es) ==
    /\ es \in Seq(LogEvent) /\ Len(es) \in 1 .. MaxLog
    /\ es[1].type = "Other"
    /\ \A i, k \in DOMAIN es :
          es[i].type = "WorkspaceCreated" /\ es[k].type = "WorkspaceCreated"
              /\ es[i].ws = es[k].ws => i = k
    /\ \A i, k \in DOMAIN es :
          es[i].type = "FileUploaded" /\ es[k].type = "FileUploaded"
              /\ es[i].file = es[k].file => i = k
    /\ \A k \in DOMAIN es : es[k].type \in {"FileModified", "FileDeleted"} =>
          \E i \in DOMAIN es : /\ i < k /\ es[i].type = "FileUploaded"
                               /\ es[i].file = es[k].file /\ es[i].ws = es[k].ws

Typed ==
    /\ Sane(log)
    /\ DOMAIN rows \subseteq Workspaces /\ \A w \in DOMAIN rows : rows[w] \in Row
    /\ checkpoint \in 0 .. Len(log)
    /\ status \in [Processes -> {"running", "rebuilding", "error"}]
    /\ jobs = [j \in Jobs |-> jobs[j]]
    /\ \A j \in Jobs : JobOK(jobs[j], Len(log))
    /\ trust \in {"exact", "as a set", "none"}

\* The place in the log a checkpoint stands for.
Here(c) == IF c = 0 THEN 1 ELSE c

\* Where a job is that has the table to itself.
Placed(job, es, rs, c) ==
    /\ job.phase = "resetting" => DOMAIN rs = {}
    /\ job.phase = "ranging" =>
          \/ job.kind = "run" /\ job.from = c
          \/ job.kind = "rebuild" /\ job.from = 0 /\ c <= 1
    /\ job.phase = "event" =>
          \/ c >= 1 /\ job.next = c + 1
          \/ c <= 1 /\ job.next = 1
    /\ job.phase \in {"writing", "applied"} => c >= 1 /\ job.next = c + 1
    /\ job.phase = "writing" =>
          /\ es[job.next].ws \in DOMAIN rs /\ es[job.next].type \in Reading
          /\ job.row = rs[es[job.next].ws]

Distinct(files) ==
    \A i, k \in DOMAIN files : files[i].id = files[k].id => i = k

\* The rows rs are, as sets of files and exactly, those of the first n events.
SetIs(es, rs, n) ==
    /\ DOMAIN rs = {w \in Workspaces : Created(es, w, n)}
    /\ \A w \in DOMAIN rs : ToSet(rs[w].files) = FilesAt(es, w, n)

ExactIs(es, rs, n) ==
    /\ SetIs(es, rs, n)
    /\ \A w \in DOMAIN rs :
          /\ Distinct(rs[w].files)
          /\ rs[w].version = Ones[1 + Cardinality(Changes(es, w, n))]
          /\ rs[w].activity = Max({k \in About(es, w, n) : es[k].type # "Other"})

Alone == \A i, j \in Jobs : Busy(i) /\ Busy(j) => i = j

Tabled ==
    /\ trust # "none" => /\ Alone
                         /\ \A j \in Jobs : Placed(jobs[j], log, rows, checkpoint)
    /\ trust = "exact" /\ ~Emptied => ExactIs(log, rows, Shown)
    /\ trust = "as a set" /\ ~Emptied =>
          \/ SetIs(log, rows, Shown)
          \/ Behind = {} /\ Shown + 1 <= Len(log) /\ SetIs(log, rows, Shown + 1)

IInv == Typed /\ Tabled

-----------------------------------------------------------------------------
(***************************************************************************)
(* Numbers, loops, and the largest of a set.                               *)
(***************************************************************************)
\* A set of natural numbers that is not empty has a least one.
LEMMA LeastNumber ==
    ASSUME NEW T \in SUBSET Nat, T # {}
    PROVE  \E n \in T : \A m \in T : n <= m
<1> DEFINE R == OpToRel(<, Nat)
<1>1. \A m, n \in Nat : <<m, n>> \in R <=> m < n
  BY DEF OpToRel
<1>2. IsWellFoundedOn(R, Nat)
  BY NatLessThanWellFounded
<1> HIDE DEF R
<1>3. PICK n \in T : \A m \in T : ~ (<<m, n>> \in R)
  BY <1>2, WFMin
<1>4. ASSUME NEW m \in T PROVE n <= m
  <2>1. ~ (<<m, n>> \in R) /\ m \in Nat /\ n \in Nat
    BY <1>3
  <2>2. ~ (m < n)
    BY <1>1, <2>1
  <2>3. QED BY <2>1, <2>2
<1>5. QED BY <1>4

\* Induction over the numbers up to n, for a set of numbers instead of a
\* predicate.
LEMMA UpTo ==
    ASSUME NEW n \in Nat, NEW T, 0 \in T,
           \A k \in 1 .. n : k - 1 \in T => k \in T
    PROVE  0 .. n \subseteq T
<1> DEFINE bad == {k \in 0 .. n : k \notin T}
<1>1. ASSUME bad # {} PROVE FALSE
  <2>1. bad \in SUBSET Nat
    OBVIOUS
  <2>2. PICK k \in bad : \A j \in bad : k <= j
    BY <1>1, <2>1, LeastNumber
  <2>3. k \in 1 .. n /\ k \notin T
    BY <2>2
  <2>4. k - 1 \in 0 .. n /\ ~ (k <= k - 1)
    BY <2>3
  <2>5. k - 1 \notin bad
    BY <2>2, <2>4
  <2>6. QED BY <2>3, <2>4, <2>5
<1>2. QED BY <1>1

IsResult(f, S, a, N, step) ==
    f \in [0 .. N -> S] /\ f[0] = a /\ \A n \in 1 .. N : f[n] = step[n][f[n - 1]]

\* A loop over numbered steps has a result.
LEMMA FoldExists ==
    ASSUME NEW S, NEW a \in S, NEW N \in Nat, NEW step \in [1 .. N -> [S -> S]]
    PROVE  \E f : IsResult(f, S, a, N, step)
<1>. DEFINE Upto(k, f) == /\ f \in [0 .. k -> S] /\ f[0] = a
                          /\ \A n \in 1 .. k : f[n] = step[n][f[n - 1]]
            T == {k \in 0 .. N : \E f : Upto(k, f)}
<1>1. 0 \in T
  <2>1. Upto(0, [n \in 0 .. 0 |-> a]) OBVIOUS
  <2>. HIDE DEF Upto
  <2>. QED BY <2>1
<1>2. ASSUME NEW k \in 1 .. N, k - 1 \in T PROVE k \in T
  <2>1. PICK f : Upto(k - 1, f) BY <1>2
  <2>. DEFINE g == [n \in 0 .. k |-> IF n = k THEN step[k][f[k - 1]] ELSE f[n]]
  <2>2. k - 1 \in 0 .. (k - 1) /\ f[k - 1] \in S BY <2>1
  <2>3. step[k] \in [S -> S] OBVIOUS
  <2>4. step[k][f[k - 1]] \in S BY <2>2, <2>3
  <2>5. g \in [0 .. k -> S]
    <3>. SUFFICES ASSUME NEW n \in 0 .. k PROVE g[n] \in S
      OBVIOUS
    <3>1. CASE n = k BY <2>4, <3>1
    <3>2. CASE n # k
      <4>1. n \in 0 .. (k - 1) BY <3>2
      <4>. QED BY <2>1, <3>2, <4>1
    <3>. QED BY <3>1, <3>2
  <2>6. g[0] = a BY <2>1
  <2>7. ASSUME NEW n \in 1 .. k PROVE g[n] = step[n][g[n - 1]]
    <3>1. g[n - 1] = f[n - 1] OBVIOUS
    <3>2. CASE n = k BY <3>1, <3>2
    <3>3. CASE n # k
      <4>1. n \in 1 .. (k - 1) /\ g[n] = f[n] BY <3>3
      <4>. QED BY <2>1, <3>1, <4>1
    <3>. QED BY <3>2, <3>3
  <2>8. Upto(k, g) BY <2>5, <2>6, <2>7
  <2>. HIDE DEF Upto, g
  <2>. QED BY <2>8
<1>. HIDE DEF T
<1>3. 0 .. N \subseteq T BY <1>1, <1>2, UpTo
<1>4. N \in T BY <1>3
<1>. QED BY <1>4 DEF T, IsResult

LEMMA MaxIs ==
    ASSUME NEW S \in SUBSET Nat, NEW n \in S, \A m \in S : m <= n
    PROVE  Max(S) = n
<1>1. \A y \in S : n >= y OBVIOUS
<1>2. \E x \in S : \A y \in S : x >= y BY <1>1
<1>. DEFINE m == Max(S)
<1>3. m \in S /\ \A y \in S : m >= y BY <1>2, Zenon DEF Max
<1>. HIDE DEF m
<1>4. m \in Nat /\ n \in Nat /\ m >= n /\ m <= n BY <1>3
<1>5. m = n BY <1>4
<1>. QED BY <1>5 DEF m

LEMMA HereIs == ASSUME NEW c \in Nat PROVE Max({c, 1}) = Here(c) /\ Here(c) \in Nat \ {0}
<1>1. {c, 1} \in SUBSET Nat OBVIOUS
<1>2. CASE c = 0 BY <1>1, <1>2, MaxIs DEF Here
<1>3. CASE c # 0 BY <1>1, <1>3, MaxIs DEF Here
<1>. QED BY <1>2, <1>3

LEMMA MinPair ==
    ASSUME NEW a \in Nat, NEW b \in Nat, a <= b
    PROVE  Min({a, b}) = a
<1>1. \E x \in {a, b} : \A y \in {a, b} : x =< y OBVIOUS
<1>2. Min({a, b}) \in {a, b} /\ \A y \in {a, b} : Min({a, b}) =< y
  BY <1>1, Zenon DEF Min
<1>. QED BY <1>2

\* A digit more: the version of a row after one change more.
LEMMA OnesStep ==
    /\ Ones[0] = 0
    /\ \A n \in Nat : /\ Ones[n] \in Nat
                      /\ Ones[n + 1] = 10 * Ones[n] + 1
<1>. DEFINE next == [x \in Nat |-> 10 * x + 1]
            IsUp(f, N) == IsResult(f, Nat, 0, N, [n \in 1 .. N |-> next])
            g == [n \in Nat |-> (CHOOSE f : IsUp(f, n))[n]]
            Fcn(h) == [n \in Nat |-> IF n = 0 THEN 0 ELSE 10 * h[n - 1] + 1]
<1>1. next \in [Nat -> Nat] OBVIOUS
<1>2. ASSUME NEW N \in Nat PROVE \E f : IsUp(f, N)
  <2>. HIDE DEF next
  <2>1. [n \in 1 .. N |-> next] \in [1 .. N -> [Nat -> Nat]] BY <1>1
  <2>. QED BY <2>1, FoldExists
<1>3. ASSUME NEW N \in Nat, NEW f, IsUp(f, N)
      PROVE  /\ f \in [0 .. N -> Nat] /\ f[0] = 0
             /\ \A n \in 1 .. N : f[n] = 10 * f[n - 1] + 1
  <2>1. f \in [0 .. N -> Nat] /\ f[0] = 0 /\ \A n \in 1 .. N : f[n] = next[f[n - 1]]
    BY <1>3 DEF IsResult
  <2>2. \A n \in 1 .. N : f[n - 1] \in Nat BY <2>1
  <2>. QED BY <2>1, <2>2
<1>. HIDE DEF next, IsUp
<1>4. ASSUME NEW M \in Nat, NEW N \in Nat, M <= N, NEW f, IsUp(f, M), NEW h, IsUp(h, N)
      PROVE  f[M] = h[M]
  <2>1. /\ f[0] = 0 /\ \A n \in 1 .. M : f[n] = 10 * f[n - 1] + 1
        /\ h[0] = 0 /\ \A n \in 1 .. N : h[n] = 10 * h[n - 1] + 1
    BY <1>3, <1>4
  <2>. DEFINE T == {n \in 0 .. M : f[n] = h[n]}
  <2>2. 0 \in T BY <2>1
  <2>3. ASSUME NEW n \in 1 .. M, n - 1 \in T PROVE n \in T
    <3>1. n \in 1 .. N BY <1>4
    <3>. QED BY <2>1, <2>3, <3>1
  <2>. HIDE DEF T
  <2>4. 0 .. M \subseteq T BY <2>2, <2>3, UpTo
  <2>. QED BY <2>4 DEF T
<1>5. \A n \in Nat : IsUp(CHOOSE f : IsUp(f, n), n) BY <1>2
<1>6. ASSUME NEW n \in Nat
      PROVE  g[n] \in Nat /\ g[n] = IF n = 0 THEN 0 ELSE 10 * g[n - 1] + 1
  <2>. DEFINE f == CHOOSE h : IsUp(h, n)
  <2>1. IsUp(f, n) BY <1>5
  <2>. HIDE DEF f
  <2>2. /\ f \in [0 .. n -> Nat] /\ f[0] = 0
        /\ \A m \in 1 .. n : f[m] = 10 * f[m - 1] + 1
    BY <1>3, <2>1
  <2>3. g[n] = f[n] BY DEF f
  <2>4. CASE n = 0 BY <2>2, <2>3, <2>4
  <2>5. CASE n # 0
    <3>. DEFINE m == n - 1
                h == CHOOSE x : IsUp(x, m)
    <3>1. m \in Nat /\ m <= n BY <2>5
    <3>2. IsUp(h, m) BY <1>5, <3>1
    <3>3. g[m] = h[m] BY <3>1
    <3>. HIDE DEF m, h
    <3>4. h[m] = f[m] BY <1>4, <2>1, <3>1, <3>2
    <3>5. n \in 1 .. n /\ n \in 0 .. n BY <2>5
    <3>6. f[n] = 10 * f[n - 1] + 1 /\ f[n] \in Nat BY <2>2, <3>5
    <3>. QED BY <2>3, <2>5, <3>3, <3>4, <3>6 DEF m
  <2>. QED BY <2>4, <2>5
<1>. HIDE DEF g
<1>7. g = [n \in Nat |-> g[n]] BY DEF g
<1>8. g = Fcn(g) BY <1>6, <1>7
<1>9. Ones = CHOOSE h : h = Fcn(h) BY DEF Ones
<1>10. Ones = Fcn(Ones)
  <2>. HIDE DEF Fcn
  <2>1. \E h : h = Fcn(h) BY <1>8
  <2>. QED BY <1>9, <2>1
<1>11. \A n \in Nat : Ones[n] = IF n = 0 THEN 0 ELSE 10 * Ones[n - 1] + 1
  <2>. SUFFICES ASSUME NEW n \in Nat
                PROVE  Ones[n] = IF n = 0 THEN 0 ELSE 10 * Ones[n - 1] + 1
    OBVIOUS
  <2>1. Ones[n] = Fcn(Ones)[n] BY <1>10
  <2>. QED BY <2>1
<1>12. ASSUME NEW N \in Nat PROVE Ones[N] \in Nat
  <2>. DEFINE T == {n \in 0 .. N : Ones[n] \in Nat}
  <2>1. 0 \in T BY <1>11
  <2>2. ASSUME NEW n \in 1 .. N, n - 1 \in T PROVE n \in T
    <3>1. n \in Nat /\ n # 0 OBVIOUS
    <3>2. Ones[n] = 10 * Ones[n - 1] + 1 BY <1>11, <3>1
    <3>. QED BY <2>2, <3>2
  <2>. HIDE DEF T
  <2>3. 0 .. N \subseteq T BY <2>1, <2>2, UpTo
  <2>. QED BY <2>3 DEF T
<1>13. ASSUME NEW n \in Nat PROVE Ones[n + 1] = 10 * Ones[n] + 1
  <2>1. n + 1 \in Nat /\ n + 1 # 0 /\ (n + 1) - 1 = n OBVIOUS
  <2>2. Ones[n + 1] = 10 * Ones[(n + 1) - 1] + 1 BY <1>11, <2>1
  <2>. QED BY <2>1, <2>2
<1>. QED BY <1>11, <1>12, <1>13

-----------------------------------------------------------------------------
(***************************************************************************)
(* The files of a row.                                                     *)
(***************************************************************************)
LEMMA ToSetAppend ==
    ASSUME NEW S, NEW s \in Seq(S), NEW x \in S
    PROVE  ToSet(Append(s, x)) = ToSet(s) \cup {x}
<1>1. /\ DOMAIN Append(s, x) = 1 .. (Len(s) + 1) /\ DOMAIN s = 1 .. Len(s)
      /\ \A i \in 1 .. Len(s) : Append(s, x)[i] = s[i]
      /\ Append(s, x)[Len(s) + 1] = x /\ Len(s) \in Nat
  BY AppendProperties
<1>. DEFINE t == Append(s, x)
<1>2. ToSet(t) = {t[i] : i \in 1 .. (Len(s) + 1)} BY <1>1 DEF ToSet
<1>3. ToSet(s) = {s[i] : i \in 1 .. Len(s)} BY <1>1 DEF ToSet
<1>. HIDE DEF t
<1>4. \A i \in 1 .. Len(s) : t[i] = s[i] BY <1>1 DEF t
<1>5. t[Len(s) + 1] = x BY <1>1 DEF t
<1>6. 1 .. (Len(s) + 1) = 1 .. Len(s) \cup {Len(s) + 1} BY <1>1
<1>. QED BY <1>2, <1>3, <1>4, <1>5, <1>6 DEF t

LEMMA DistinctAppend ==
    ASSUME NEW S, NEW s \in Seq(S), NEW x \in S, Distinct(s),
           \A y \in ToSet(s) : y.id # x.id
    PROVE  Distinct(Append(s, x))
<1>. DEFINE t == Append(s, x)
<1>1. /\ DOMAIN t = 1 .. (Len(s) + 1) /\ DOMAIN s = 1 .. Len(s)
      /\ \A i \in 1 .. Len(s) : t[i] = s[i]
      /\ t[Len(s) + 1] = x /\ Len(s) \in Nat
  BY AppendProperties
<1>2. \A i \in 1 .. Len(s) : s[i].id # x.id BY <1>1 DEF ToSet
<1>. HIDE DEF t
<1>. SUFFICES ASSUME NEW i \in DOMAIN t, NEW k \in DOMAIN t, t[i].id = t[k].id
              PROVE  i = k
  BY DEF Distinct, t
<1>3. CASE i \in 1 .. Len(s) /\ k \in 1 .. Len(s)
  BY <1>1, <1>3 DEF Distinct
<1>4. CASE i \notin 1 .. Len(s) \/ k \notin 1 .. Len(s)
  <2>1. i = Len(s) + 1 \/ i \in 1 .. Len(s) BY <1>1
  <2>2. k = Len(s) + 1 \/ k \in 1 .. Len(s) BY <1>1
  <2>. QED BY <1>1, <1>2, <1>4, <2>1, <2>2
<1>. QED BY <1>3, <1>4

LEMMA DistinctCount ==
    ASSUME NEW S, NEW s \in Seq(S), Distinct(s)
    PROVE  Len(s) = Cardinality(ToSet(s))
<1>. DEFINE f == [i \in 1 .. Len(s) |-> s[i]]
<1>1. Len(s) \in Nat /\ DOMAIN s = 1 .. Len(s) OBVIOUS
<1>2. ToSet(s) = {s[i] : i \in 1 .. Len(s)} BY <1>1 DEF ToSet
<1>3. f \in Bijection(1 .. Len(s), ToSet(s))
  <2>1. \A i, k \in 1 .. Len(s) : s[i] = s[k] => i = k BY <1>1 DEF Distinct
  <2>2. f \in Injection(1 .. Len(s), ToSet(s)) BY <1>2, <2>1 DEF Injection, IsInjective
  <2>3. f \in Surjection(1 .. Len(s), ToSet(s)) BY <1>2 DEF Surjection
  <2>. QED BY <2>2, <2>3 DEF Bijection
<1>. HIDE DEF f
<1>4. ExistsBijection(1 .. Len(s), ToSet(s)) BY <1>3 DEF ExistsBijection
<1>. QED BY <1>1, <1>4, FS_CountingElements

IsWithout(g, files, f) ==
    /\ g \in [0 .. Len(files) -> Seq(FileEntry)]
    /\ g[0] = << >>
    /\ \A n \in 1 .. Len(files) :
          g[n] = IF files[n].id = f THEN g[n - 1] ELSE Append(g[n - 1], files[n])

LEMMA WithoutByLoop ==
    ASSUME NEW files \in Seq(FileEntry), NEW f
    PROVE  \E g : IsWithout(g, files, f) /\ Without(files, f) = g[Len(files)]
<1>. DEFINE N == Len(files)
            S == Seq(FileEntry)
            Next1(s, n) == IF files[n].id = f THEN s ELSE Append(s, files[n])
            step == [n \in 1 .. N |-> [s \in S |-> Next1(s, n)]]
            Fcn(g) == [n \in 0 .. N |->
                          IF n = 0 THEN << >>
                          ELSE IF files[n].id = f THEN g[n - 1]
                          ELSE Append(g[n - 1], files[n])]
<1>1. N \in Nat /\ \A n \in 1 .. N : files[n] \in FileEntry OBVIOUS
<1>2. << >> \in S OBVIOUS
<1>3. ASSUME NEW n \in 1 .. N, NEW s \in S PROVE Next1(s, n) \in S
  BY <1>1, AppendProperties
<1>. HIDE DEF N, S
<1>4. step \in [1 .. N -> [S -> S]] BY <1>3
<1>5. \A n \in 1 .. N : \A s \in S : step[n][s] = Next1(s, n) OBVIOUS
<1>. HIDE DEF step, Fcn, Next1
<1>6. PICK g : IsResult(g, S, << >>, N, step) BY <1>1, <1>2, <1>4, FoldExists
<1>7. /\ g \in [0 .. N -> S] /\ g[0] = << >>
      /\ \A n \in 1 .. N : g[n] = step[n][g[n - 1]]
  BY <1>6 DEF IsResult
<1>8. ASSUME NEW n \in 1 .. N PROVE g[n] = Next1(g[n - 1], n)
  <2>1. n - 1 \in 0 .. N BY <1>1
  <2>. QED BY <1>5, <1>7, <2>1
<1>9. g = Fcn(g)
  <2>1. ASSUME NEW n \in 0 .. N PROVE g[n] = Fcn(g)[n]
    <3>1. CASE n = 0 BY <1>1, <1>7, <3>1 DEF Fcn
    <3>2. CASE n # 0
      <4>1. n \in 1 .. N BY <1>1, <3>2
      <4>. QED BY <1>8, <3>2, <4>1 DEF Fcn, Next1
    <3>. QED BY <3>1, <3>2
  <2>2. g = [n \in 0 .. N |-> g[n]] BY <1>7
  <2>3. Fcn(g) = [n \in 0 .. N |-> Fcn(g)[n]] BY DEF Fcn
  <2>. QED BY <2>1, <2>2, <2>3
<1>. DEFINE h == CHOOSE x : x = Fcn(x)
<1>10. h = Fcn(h)
  <2>1. \E x : x = Fcn(x) BY <1>9
  <2>. QED BY <2>1
<1>11. Without(files, f) = h[N] BY DEF Without, N, Fcn
<1>. HIDE DEF h
<1>12. h = [n \in 0 .. N |-> h[n]] BY <1>10 DEF Fcn
<1>13. h[0] = << >>
  <2>1. h[0] = Fcn(h)[0] BY <1>10
  <2>. QED BY <1>1, <2>1 DEF Fcn
<1>14. ASSUME NEW n \in 1 .. N PROVE h[n] = Next1(h[n - 1], n)
  <2>1. h[n] = Fcn(h)[n] BY <1>10
  <2>2. n \in 0 .. N /\ n # 0 BY <1>1
  <2>. QED BY <2>1, <2>2 DEF Fcn, Next1
<1>15. \A n \in 0 .. N : h[n] \in S
  <2>. DEFINE T == {n \in 0 .. N : h[n] \in S}
  <2>1. 0 \in T BY <1>1, <1>2, <1>13
  <2>2. ASSUME NEW n \in 1 .. N, n - 1 \in T PROVE n \in T
    <3>1. n \in 0 .. N /\ h[n - 1] \in S BY <1>1, <2>2
    <3>2. h[n] = Next1(h[n - 1], n) BY <1>14
    <3>3. h[n] \in S BY <1>3, <3>1, <3>2
    <3>. QED BY <3>1, <3>3
  <2>. HIDE DEF T
  <2>3. 0 .. N \subseteq T BY <1>1, <2>1, <2>2, UpTo
  <2>. QED BY <2>3 DEF T
<1>16. IsWithout(h, files, f)
  <2>1. h \in [0 .. N -> S] BY <1>12, <1>15
  <2>. QED BY <1>13, <1>14, <2>1 DEF IsWithout, Next1, N, S
<1>. QED BY <1>11, <1>16 DEF N

\* files.filter keeps the other files, each as often as it was there.
LEMMA WithoutFacts ==
    ASSUME NEW files \in Seq(FileEntry), NEW f
    PROVE  /\ Without(files, f) \in Seq(FileEntry)
           /\ ToSet(Without(files, f)) = {x \in ToSet(files) : x.id # f}
           /\ Distinct(files) => Distinct(Without(files, f))
<1>. DEFINE N == Len(files)
            left(n) == {files[i] : i \in {k \in 1 .. n : files[k].id # f}}
<1>1. PICK g : IsWithout(g, files, f) /\ Without(files, f) = g[N] BY WithoutByLoop
<1>2. /\ g \in [0 .. N -> Seq(FileEntry)] /\ g[0] = << >>
      /\ \A n \in 1 .. N :
            g[n] = IF files[n].id = f THEN g[n - 1] ELSE Append(g[n - 1], files[n])
  BY <1>1 DEF IsWithout
<1>3. N \in Nat /\ DOMAIN files = 1 .. N /\ \A n \in 1 .. N : files[n] \in FileEntry
  OBVIOUS
<1>. HIDE DEF N
<1>. DEFINE T == {n \in 0 .. N : /\ ToSet(g[n]) = left(n)
                                 /\ Distinct(files) => Distinct(g[n])}
<1>4. 0 \in T
  <2>1. ToSet(g[0]) = {} /\ Distinct(g[0]) BY <1>2 DEF ToSet, Distinct
  <2>2. left(0) = {} OBVIOUS
  <2>. QED BY <1>3, <2>1, <2>2
<1>5. ASSUME NEW n \in 1 .. N, n - 1 \in T PROVE n \in T
  <2>1. /\ n - 1 \in 0 .. N /\ n \in 0 .. N /\ g[n - 1] \in Seq(FileEntry)
        /\ files[n] \in FileEntry
    BY <1>2, <1>3
  <2>2. ToSet(g[n - 1]) = left(n - 1) /\ (Distinct(files) => Distinct(g[n - 1]))
    BY <1>5
  <2>3. CASE files[n].id = f
    <3>1. g[n] = g[n - 1] BY <1>2, <2>3
    <3>2. left(n) = left(n - 1) BY <1>3, <2>3
    <3>. QED BY <2>1, <2>2, <3>1, <3>2
  <2>4. CASE files[n].id # f
    <3>1. g[n] = Append(g[n - 1], files[n]) BY <1>2, <2>4
    <3>2. left(n) = left(n - 1) \cup {files[n]}
      <4>1. {k \in 1 .. n : files[k].id # f} = {k \in 1 .. (n - 1) : files[k].id # f} \cup {n}
        BY <1>3, <2>4
      <4>. QED BY <4>1
    <3>3. ToSet(g[n]) = left(n) BY <2>1, <2>2, <3>1, <3>2, ToSetAppend
    <3>4. ASSUME Distinct(files) PROVE Distinct(g[n])
      <4>1. ASSUME NEW y \in ToSet(g[n - 1]) PROVE y.id # files[n].id
        <5>1. PICK k \in 1 .. (n - 1) : y = files[k] BY <2>2
        <5>2. k \in DOMAIN files /\ n \in DOMAIN files /\ k # n BY <1>3, <5>1
        <5>. QED BY <3>4, <5>1, <5>2 DEF Distinct
      <4>. QED BY <2>1, <2>2, <3>1, <3>4, <4>1, DistinctAppend
    <3>. QED BY <2>1, <3>3, <3>4
  <2>. QED BY <2>3, <2>4
<1>. HIDE DEF T
<1>6. 0 .. N \subseteq T BY <1>3, <1>4, <1>5, UpTo
<1>7. ToSet(g[N]) = left(N) /\ (Distinct(files) => Distinct(g[N]))
  <2>. HIDE DEF left
  <2>1. N \in T BY <1>3, <1>6
  <2>. QED BY <2>1 DEF T
<1>8. left(N) = {x \in ToSet(files) : x.id # f} BY <1>3 DEF ToSet
<1>9. g[N] \in Seq(FileEntry) BY <1>2, <1>3
<1>. QED BY <1>1, <1>7, <1>8, <1>9

LEMMA EventFacts ==
    ASSUME NEW e \in LogEvent
    PROVE  /\ e.ws \in Workspaces
           /\ e.type \in FileEvents => e.file \in Files
           /\ e.type \notin FileEvents => e.file = None
<1>1. CASE \E w \in Workspaces : e = Genesis(w) BY <1>1 DEF Genesis, FileEvents
<1>2. CASE e \in [type : EventTypes \cap FileEvents, ws : Workspaces, file : Files]
  BY <1>2
<1>3. CASE e \in [type : EventTypes \ FileEvents, ws : Workspaces, file : {None}]
  BY <1>3
<1>. QED BY <1>1, <1>2, <1>3 DEF LogEvent, Event

\* What a file event does to the files as a set.
SetAfter(F, e, n) ==
    CASE e.type = "FileUploaded" -> F \cup {Entry(e.file, n)}
      [] e.type = "FileModified" -> {IF x.id = e.file THEN Entry(e.file, n) ELSE x : x \in F}
      [] e.type = "FileDeleted" -> {x \in F : x.id # e.file}
      [] OTHER -> F

LEMMA UpdatedFacts ==
    ASSUME NEW files \in Seq(FileEntry), NEW e \in LogEvent, NEW n \in 1 .. MaxLog
    PROVE  /\ UpdatedFiles(files, e, n) \in Seq(FileEntry)
           /\ ToSet(UpdatedFiles(files, e, n)) = SetAfter(ToSet(files), e, n)
           /\ Distinct(files)
                  /\ (e.type = "FileUploaded" => \A x \in ToSet(files) : x.id # e.file)
              => Distinct(UpdatedFiles(files, e, n))
<1>. DEFINE x == Entry(e.file, n)
            u == UpdatedFiles(files, e, n)
<1>1. e.type \in FileEvents => x \in FileEntry
  BY EventFacts DEF Entry, FileEntry
<1>2. x.id = e.file BY DEF Entry
<1>3. CASE e.type = "FileUploaded"
  <2>1. u = Append(files, x) /\ SetAfter(ToSet(files), e, n) = ToSet(files) \cup {x}
    BY <1>3 DEF UpdatedFiles, SetAfter
  <2>2. x \in FileEntry BY <1>1, <1>3 DEF FileEvents
  <2>. HIDE DEF x, u
  <2>3. u \in Seq(FileEntry) BY <2>1, <2>2, AppendProperties
  <2>4. ToSet(u) = ToSet(files) \cup {x} BY <2>1, <2>2, ToSetAppend
  <2>5. ASSUME Distinct(files), \A y \in ToSet(files) : y.id # e.file PROVE Distinct(u)
    <3>1. \A y \in ToSet(files) : y.id # x.id BY <1>2, <2>5
    <3>. QED BY <2>1, <2>2, <2>5, <3>1, DistinctAppend
  <2>. QED BY <1>3, <2>1, <2>3, <2>4, <2>5 DEF u
<1>4. CASE e.type = "FileModified"
  <2>1. u = [i \in DOMAIN files |-> IF files[i].id = e.file THEN x ELSE files[i]]
    BY <1>4 DEF UpdatedFiles
  <2>2. SetAfter(ToSet(files), e, n) = {IF y.id = e.file THEN x ELSE y : y \in ToSet(files)}
    BY <1>4 DEF SetAfter
  <2>3. x \in FileEntry BY <1>1, <1>4 DEF FileEvents
  <2>. HIDE DEF x, u
  <2>4. /\ DOMAIN files = 1 .. Len(files) /\ Len(files) \in Nat
        /\ \A i \in 1 .. Len(files) : files[i] \in FileEntry
    OBVIOUS
  <2>5. u \in [1 .. Len(files) -> FileEntry] BY <2>1, <2>3, <2>4
  <2>6. u \in Seq(FileEntry) BY <2>4, <2>5
  <2>7. DOMAIN u = DOMAIN files /\ \A i \in DOMAIN files :
                  u[i] = IF files[i].id = e.file THEN x ELSE files[i]
    BY <2>1
  <2>8. ToSet(u) = {IF y.id = e.file THEN x ELSE y : y \in ToSet(files)}
    BY <2>7 DEF ToSet
  <2>9. \A i \in DOMAIN files : u[i].id = files[i].id BY <1>2, <2>7
  <2>10. Distinct(files) => Distinct(u) BY <2>7, <2>9 DEF Distinct
  <2>. QED BY <2>2, <2>6, <2>8, <2>10 DEF u
<1>5. CASE e.type = "FileDeleted"
  <2>1. u = Without(files, e.file)
        /\ SetAfter(ToSet(files), e, n) = {y \in ToSet(files) : y.id # e.file}
    BY <1>5 DEF UpdatedFiles, SetAfter
  <2>. QED BY <2>1, WithoutFacts
<1>6. CASE e.type \notin FileEvents
  BY <1>6 DEF UpdatedFiles, SetAfter, FileEvents
<1>. QED BY <1>3, <1>4, <1>5, <1>6 DEF FileEvents

-----------------------------------------------------------------------------
(***************************************************************************)
(* What the log says, event by event.                                      *)
(***************************************************************************)
LEMMA LogFacts ==
    ASSUME NEW es, Sane(es)
    PROVE  /\ es \in Seq(LogEvent) /\ Len(es) \in Nat /\ Len(es) \in 1 .. MaxLog
           /\ DOMAIN es = 1 .. Len(es)
           /\ \A k \in 1 .. Len(es) :
                 /\ es[k] \in LogEvent /\ es[k].ws \in Workspaces
                 /\ es[k].type \in FileEvents => es[k].file \in Files
                 /\ es[k].type \notin FileEvents => es[k].file = None
<1>1. es \in Seq(LogEvent) /\ Len(es) \in 1 .. MaxLog BY DEF Sane
<1>2. MaxLog \in Nat BY ProjectionAssumption
<1>3. \A k \in 1 .. Len(es) : es[k] \in LogEvent BY <1>1
<1>. QED BY <1>1, <1>2, <1>3, EventFacts

LEMMA NumberFacts ==
    ASSUME NEW es, Sane(es), NEW n \in 1 .. Len(es)
    PROVE  /\ Len(es) \in Nat /\ n \in Nat \ {0} /\ n \in 1 .. MaxLog
           /\ n \in 0 .. Len(es) /\ n - 1 \in 0 .. Len(es) /\ n \in DOMAIN es
           /\ es[n] \in LogEvent /\ es[n].ws \in Workspaces
<1>1. Len(es) \in Nat /\ Len(es) \in 1 .. MaxLog /\ DOMAIN es = 1 .. Len(es)
  BY LogFacts
<1>2. MaxLog \in Nat BY ProjectionAssumption
<1>3. n \in Nat \ {0} /\ n \in 1 .. MaxLog /\ n \in 0 .. Len(es) /\ n - 1 \in 0 .. Len(es)
  BY <1>1, <1>2
<1>4. es[n] \in LogEvent /\ es[n].ws \in Workspaces BY LogFacts
<1>. QED BY <1>1, <1>3, <1>4

LEMMA CreatedStep ==
    ASSUME NEW es, NEW w, NEW n \in Nat \ {0}
    PROVE  Created(es, w, n) <=>
               Created(es, w, n - 1) \/ (es[n].type = "WorkspaceCreated" /\ es[n].ws = w)
BY DEF Created

LEMMA AboutStep ==
    ASSUME NEW es, NEW w, NEW n \in Nat \ {0}
    PROVE  /\ About(es, w, n) \subseteq 1 .. n
           /\ ~Created(es, w, n) => About(es, w, n) = {}
           /\ n \in About(es, w, n) <=> es[n].ws = w /\ Created(es, w, n)
           /\ About(es, w, n) =
                 About(es, w, n - 1) \cup
                     (IF es[n].ws = w /\ Created(es, w, n) THEN {n} ELSE {})
<1>1. \A k \in 1 .. n : Created(es, w, k) => Created(es, w, n) BY DEF Created
<1>. HIDE DEF Created
<1>2. 1 .. n = 1 .. (n - 1) \cup {n} /\ n \notin 1 .. (n - 1) OBVIOUS
<1>. QED BY <1>1, <1>2 DEF About

LEMMA LastStep ==
    ASSUME NEW es, NEW w, NEW n \in Nat \ {0}, NEW f
    PROVE  LastAbout(es, w, n, f) =
               IF n \in About(es, w, n) /\ es[n].file = f THEN n
               ELSE LastAbout(es, w, n - 1, f)
<1>. DEFINE S == {i \in About(es, w, n) : es[i].file = f}
<1>1. /\ About(es, w, n) \subseteq 1 .. n
      /\ About(es, w, n) =
            About(es, w, n - 1) \cup (IF n \in About(es, w, n) THEN {n} ELSE {})
  BY AboutStep
<1>2. CASE n \in About(es, w, n) /\ es[n].file = f
  <2>1. S \in SUBSET Nat /\ n \in S /\ \A m \in S : m <= n BY <1>1, <1>2
  <2>. HIDE DEF S
  <2>2. Max(S) = n BY <2>1, MaxIs
  <2>. QED BY <1>2, <2>2 DEF S, LastAbout
<1>3. CASE ~(n \in About(es, w, n) /\ es[n].file = f)
  <2>1. S = {i \in About(es, w, n - 1) : es[i].file = f} BY <1>1, <1>3
  <2>. QED BY <1>3, <2>1 DEF LastAbout
<1>. QED BY <1>2, <1>3

LEMMA KeptStep ==
    ASSUME NEW es, NEW w, NEW n \in Nat \ {0}
    PROVE  Kept(es, w, n) =
               {k \in Kept(es, w, n - 1) :
                   ~(es[n].type = "FileDeleted" /\ es[n].file = es[k].file)}
               \cup (IF n \in About(es, w, n) /\ es[n].type = "FileUploaded" THEN {n} ELSE {})
<1>1. /\ About(es, w, n) \subseteq 1 .. n
      /\ About(es, w, n - 1) \subseteq 1 .. (n - 1)
      /\ About(es, w, n) =
            About(es, w, n - 1) \cup (IF n \in About(es, w, n) THEN {n} ELSE {})
  BY AboutStep DEF About
<1>. DEFINE gone(k, m) ==
                \E d \in k .. m : es[d].type = "FileDeleted" /\ es[d].file = es[k].file
<1>2. ASSUME NEW k \in 1 .. (n - 1)
      PROVE  gone(k, n) <=>
                gone(k, n - 1) \/ (es[n].type = "FileDeleted" /\ es[n].file = es[k].file)
  <2>1. k .. n = k .. (n - 1) \cup {n} OBVIOUS
  <2>. QED BY <2>1
<1>3. es[n].type = "FileUploaded" => ~gone(n, n) OBVIOUS
<1>4. \A m : Kept(es, w, m) =
                {k \in About(es, w, m) : es[k].type = "FileUploaded" /\ ~gone(k, m)}
  BY DEF Kept
<1>. HIDE DEF gone
<1>5. n \notin 1 .. (n - 1) OBVIOUS
<1>6. ASSUME NEW k
      PROVE  k \in Kept(es, w, n) <=>
                 \/ /\ k \in Kept(es, w, n - 1)
                    /\ ~(es[n].type = "FileDeleted" /\ es[n].file = es[k].file)
                 \/ k = n /\ n \in About(es, w, n) /\ es[n].type = "FileUploaded"
  <2>1. CASE k \in 1 .. (n - 1) BY <1>1, <1>2, <1>4, <1>5, <2>1
  <2>2. CASE k = n BY <1>1, <1>3, <1>4, <1>5, <2>2
  <2>3. CASE k \notin 1 .. (n - 1) /\ k # n BY <1>1, <1>4, <2>3
  <2>. QED BY <2>1, <2>2, <2>3
<1>. QED BY <1>6

LEMMA KeptFacts ==
    ASSUME NEW es, Sane(es), NEW w, NEW n \in 0 .. Len(es), NEW k \in Kept(es, w, n)
    PROVE  /\ k \in 1 .. n /\ k \in 1 .. Len(es) /\ k \in About(es, w, n)
           /\ es[k].type = "FileUploaded" /\ es[k].ws = w /\ es[k].file \in Files
<1>1. Len(es) \in Nat BY LogFacts
<1>2. /\ k \in 1 .. n /\ es[k].type = "FileUploaded" /\ es[k].ws = w
      /\ k \in About(es, w, n)
  BY DEF Kept, About
<1>3. k \in 1 .. Len(es) BY <1>1, <1>2
<1>. QED BY <1>2, <1>3, LogFacts DEF FileEvents

\* An event of another workspace, or of one that is not created, changes
\* nothing.
LEMMA FilesSame ==
    ASSUME NEW es, Sane(es), NEW w, NEW n \in 1 .. Len(es), n \notin About(es, w, n)
    PROVE  FilesAt(es, w, n) = FilesAt(es, w, n - 1)
<1>1. Len(es) \in Nat /\ n \in Nat \ {0} /\ n - 1 \in 0 .. Len(es) BY LogFacts
<1>2. Kept(es, w, n) = Kept(es, w, n - 1)
  <2>1. CASE ~Created(es, w, n)
    <3>1. ~Created(es, w, n - 1) BY <1>1, <2>1, CreatedStep
    <3>2. About(es, w, n) = {} /\ About(es, w, n - 1) = {}
      BY <1>1, <2>1, AboutStep
    <3>. QED BY <3>2 DEF Kept
  <2>2. CASE Created(es, w, n)
    <3>1. es[n].ws # w BY <1>1, <2>2, AboutStep
    <3>2. ASSUME NEW k \in Kept(es, w, n - 1), es[n].type = "FileDeleted",
                 es[n].file = es[k].file
          PROVE  FALSE
      <4>1. k \in DOMAIN es /\ es[k].type = "FileUploaded" /\ es[k].ws = w
        BY <1>1, LogFacts, KeptFacts
      <4>2. n \in DOMAIN es BY <1>1, LogFacts
      <4>3. PICK i \in DOMAIN es : /\ es[i].type = "FileUploaded"
                                   /\ es[i].file = es[n].file /\ es[i].ws = es[n].ws
        BY <3>2, <4>2 DEF Sane
      <4>4. i = k BY <3>2, <4>1, <4>3 DEF Sane
      <4>. QED BY <3>1, <4>1, <4>3, <4>4
    <3>3. Kept(es, w, n) =
             {k \in Kept(es, w, n - 1) :
                 ~(es[n].type = "FileDeleted" /\ es[n].file = es[k].file)}
      BY <1>1, KeptStep
    <3>. QED BY <3>2, <3>3
  <2>. QED BY <2>1, <2>2
<1>3. \A f : LastAbout(es, w, n, f) = LastAbout(es, w, n - 1, f) BY <1>1, LastStep
<1>. QED BY <1>2, <1>3 DEF FilesAt

\* An event of a workspace that is created does to its files what its handler
\* does to the row.
LEMMA FilesStep ==
    ASSUME NEW es, Sane(es), NEW w, NEW n \in 1 .. Len(es), n \in About(es, w, n)
    PROVE  FilesAt(es, w, n) = SetAfter(FilesAt(es, w, n - 1), es[n], n)
<1>. DEFINE e == es[n]
            old(k) == Entry(es[k].file, LastAbout(es, w, n - 1, es[k].file))
            new(k) == Entry(es[k].file, LastAbout(es, w, n, es[k].file))
            K == Kept(es, w, n - 1)
            F == FilesAt(es, w, n - 1)
            G == FilesAt(es, w, n)
            x == Entry(e.file, n)
<1>1. Len(es) \in Nat /\ n \in Nat \ {0} /\ n - 1 \in 0 .. Len(es) /\ n \in DOMAIN es
  BY LogFacts
<1>2. \A k \in K : /\ k \in 1 .. (n - 1) /\ k \in DOMAIN es
                   /\ es[k].type = "FileUploaded" /\ es[k].file \in Files
  BY <1>1, LogFacts, KeptFacts
<1>3. F = {old(k) : k \in K} BY DEF FilesAt
<1>4. G = {new(k) : k \in Kept(es, w, n)} BY DEF FilesAt
<1>5. \A k : new(k) = IF es[k].file = e.file THEN x ELSE old(k)
  BY <1>1, LastStep
<1>6. \A k : old(k).id = es[k].file BY DEF Entry
<1>7. Kept(es, w, n) = {k \in K : ~(e.type = "FileDeleted" /\ e.file = es[k].file)}
                       \cup (IF e.type = "FileUploaded" THEN {n} ELSE {})
  BY <1>1, KeptStep
<1>. HIDE DEF old, new, K, F, G, x
<1>8. CASE e.type = "FileUploaded"
  <2>1. \A k \in K : es[k].file # e.file
    <3>. SUFFICES ASSUME NEW k \in K, es[k].file = e.file PROVE FALSE
      OBVIOUS
    <3>1. k = n BY <1>1, <1>2, <1>8 DEF Sane
    <3>. QED BY <1>1, <1>2, <3>1
  <2>2. Kept(es, w, n) = K \cup {n} BY <1>7, <1>8
  <2>3. new(n) = x /\ \A k \in K : new(k) = old(k) BY <1>5, <2>1
  <2>4. G = F \cup {x} BY <1>3, <1>4, <2>2, <2>3
  <2>. QED BY <1>8, <2>4 DEF SetAfter, x, F, G
<1>9. CASE e.type = "FileModified"
  <2>1. Kept(es, w, n) = K BY <1>7, <1>9
  <2>2. \A k \in K : new(k) = IF old(k).id = e.file THEN x ELSE old(k) BY <1>5, <1>6
  <2>3. G = {IF y.id = e.file THEN x ELSE y : y \in F} BY <1>3, <1>4, <2>1, <2>2
  <2>. QED BY <1>9, <2>3 DEF SetAfter, x, F, G
<1>10. CASE e.type = "FileDeleted"
  <2>1. Kept(es, w, n) = {k \in K : es[k].file # e.file} BY <1>7, <1>10
  <2>2. \A k \in K : es[k].file # e.file => new(k) = old(k) BY <1>5
  <2>3. G = {y \in F : y.id # e.file} BY <1>3, <1>4, <1>6, <2>1, <2>2
  <2>. QED BY <1>10, <2>3 DEF SetAfter, F, G
<1>11. CASE e.type \notin FileEvents
  <2>1. Kept(es, w, n) = K BY <1>7, <1>11 DEF FileEvents
  <2>2. e.file = None BY <1>1, <1>11, LogFacts
  <2>3. \A k \in K : new(k) = old(k) BY <1>2, <1>5, <2>2, ProjectionAssumption
  <2>4. G = F BY <1>3, <1>4, <2>1, <2>3
  <2>. QED BY <1>11, <2>4 DEF SetAfter, F, G, FileEvents
<1>. QED BY <1>8, <1>9, <1>10, <1>11 DEF FileEvents

\* Applied a second time, it changes no file.
LEMMA FilesAgain ==
    ASSUME NEW es, Sane(es), NEW w, NEW n \in 1 .. Len(es), n \in About(es, w, n)
    PROVE  SetAfter(FilesAt(es, w, n), es[n], n) = FilesAt(es, w, n)
<1>. DEFINE e == es[n]
            new(k) == Entry(es[k].file, LastAbout(es, w, n, es[k].file))
            K == Kept(es, w, n)
            G == FilesAt(es, w, n)
            x == Entry(e.file, n)
<1>1. Len(es) \in Nat /\ n \in Nat \ {0} /\ n \in 0 .. Len(es) BY LogFacts
<1>2. G = {new(k) : k \in K} BY DEF FilesAt
<1>3. \A k : es[k].file = e.file => new(k) = x BY <1>1, LastStep
<1>4. \A k : new(k).id = es[k].file BY DEF Entry
<1>5. /\ e.type = "FileDeleted" => \A k \in K : es[k].file # e.file
      /\ e.type = "FileUploaded" => n \in K
  BY <1>1, KeptStep
<1>. HIDE DEF new, K, G, x
<1>6. CASE e.type = "FileUploaded"
  <2>1. x \in G BY <1>2, <1>3, <1>5, <1>6
  <2>2. SetAfter(G, e, n) = G \cup {x} BY <1>6 DEF SetAfter, x
  <2>. QED BY <2>1, <2>2 DEF G
<1>7. CASE e.type = "FileModified"
  <2>1. \A y \in G : y.id = e.file => y = x BY <1>2, <1>3, <1>4
  <2>2. SetAfter(G, e, n) = {IF y.id = e.file THEN x ELSE y : y \in G}
    BY <1>7 DEF SetAfter, x
  <2>3. {IF y.id = e.file THEN x ELSE y : y \in G} = G BY <2>1
  <2>. QED BY <2>2, <2>3 DEF G
<1>8. CASE e.type = "FileDeleted"
  <2>1. \A y \in G : y.id # e.file BY <1>2, <1>4, <1>5, <1>8
  <2>2. SetAfter(G, e, n) = {y \in G : y.id # e.file} BY <1>8 DEF SetAfter
  <2>. QED BY <2>1, <2>2 DEF G
<1>9. CASE e.type \notin FileEvents BY <1>9 DEF SetAfter, FileEvents
<1>. QED BY <1>6, <1>7, <1>8, <1>9 DEF FileEvents

\* What was said of the first n events stays said as the log grows.
LEMMA Prefix ==
    ASSUME NEW es \in Seq(LogEvent), NEW e \in LogEvent, NEW n \in 0 .. Len(es), NEW w
    PROVE  /\ Created(Append(es, e), w, n) <=> Created(es, w, n)
           /\ About(Append(es, e), w, n) = About(es, w, n)
           /\ Changes(Append(es, e), w, n) = Changes(es, w, n)
           /\ FilesAt(Append(es, e), w, n) = FilesAt(es, w, n)
           /\ \A k \in About(es, w, n) : Append(es, e)[k] = es[k]
<1>. DEFINE fs == Append(es, e)
<1>1. Len(es) \in Nat /\ \A k \in 1 .. n : fs[k] = es[k]
  BY AppendProperties
<1>. HIDE DEF fs
<1>2. \A k \in 0 .. n : Created(fs, w, k) <=> Created(es, w, k)
  BY <1>1 DEF Created
<1>3. \A k \in 1 .. n : Created(fs, w, k) <=> Created(es, w, k) BY <1>1, <1>2
<1>4. About(fs, w, n) = About(es, w, n) BY <1>1, <1>3 DEF About
<1>5. About(es, w, n) \subseteq 1 .. n BY DEF About
<1>6. \A k \in About(es, w, n) : fs[k] = es[k] BY <1>1, <1>5
<1>7. Changes(fs, w, n) = Changes(es, w, n) BY <1>4, <1>6 DEF Changes
<1>8. \A f : LastAbout(fs, w, n, f) = LastAbout(es, w, n, f)
  <2>. SUFFICES ASSUME NEW f PROVE LastAbout(fs, w, n, f) = LastAbout(es, w, n, f)
    OBVIOUS
  <2>1. {i \in About(fs, w, n) : fs[i].file = f} = {i \in About(es, w, n) : es[i].file = f}
    BY <1>4, <1>6
  <2>. QED BY <2>1 DEF LastAbout
<1>9. Kept(fs, w, n) = Kept(es, w, n)
  <2>1. \A k \in 1 .. n : \A d \in k .. n : fs[d] = es[d] /\ fs[k] = es[k] BY <1>1
  <2>. QED BY <1>4, <1>5, <1>6, <2>1 DEF Kept
<1>10. Kept(es, w, n) \subseteq About(es, w, n) BY DEF Kept
<1>11. FilesAt(fs, w, n) = FilesAt(es, w, n)
  BY <1>6, <1>8, <1>9, <1>10 DEF FilesAt
<1>12. n \in 0 .. n OBVIOUS
<1>. QED BY <1>2, <1>4, <1>6, <1>7, <1>11, <1>12 DEF fs

-----------------------------------------------------------------------------
(***************************************************************************)
(* What the handler of event n makes of the rows.                          *)
(***************************************************************************)
NewRow(n) == [version |-> 1, files |-> << >>, activity |-> n]

RowAfter(row, e, n) ==
    CASE e.type \in FileEvents ->
            [version |-> NextVersion(row.version),
             files |-> UpdatedFiles(row.files, e, n), activity |-> n]
      [] e.type = "WorkspaceCreated" -> [row EXCEPT !.version = 1]
      [] e.type = "FunctionExecuted" -> [row EXCEPT !.activity = n]
      [] OTHER -> row

Effect(rs, rs2, e, n) ==
    /\ DOMAIN rs2 = DOMAIN rs \cup (IF e.type = "WorkspaceCreated" THEN {e.ws} ELSE {})
    /\ \A w \in DOMAIN rs2 :
          rs2[w] = IF w # e.ws THEN rs[w]
                   ELSE IF w \notin DOMAIN rs THEN NewRow(n)
                   ELSE RowAfter(rs[w], e, n)

RowsTyped(rs) == DOMAIN rs \subseteq Workspaces /\ \A w \in DOMAIN rs : rs[w] \in Row

LEMMA RowIs == Row = [version : Nat, files : Seq(FileEntry), activity : 1 .. MaxLog]
BY DEF Row, FileEntry

LEMMA RowAfterFacts ==
    ASSUME NEW row \in Row, NEW e \in LogEvent, NEW n \in 1 .. MaxLog
    PROVE  /\ RowAfter(row, e, n) \in Row
           /\ ToSet(RowAfter(row, e, n).files) = SetAfter(ToSet(row.files), e, n)
           /\ RowAfter(row, e, n).files =
                 IF e.type \in FileEvents THEN UpdatedFiles(row.files, e, n) ELSE row.files
           /\ RowAfter(row, e, n).version =
                 (CASE e.type \in FileEvents -> NextVersion(row.version)
                    [] e.type = "WorkspaceCreated" -> 1
                    [] OTHER -> row.version)
           /\ RowAfter(row, e, n).activity =
                 IF e.type \in FileEvents \cup {"FunctionExecuted"} THEN n ELSE row.activity
<1>. DEFINE u == UpdatedFiles(row.files, e, n)
            v == NextVersion(row.version)
<1>1. /\ row.version \in Nat /\ row.files \in Seq(FileEntry) /\ row.activity \in 1 .. MaxLog
      /\ row = [version |-> row.version, files |-> row.files, activity |-> row.activity]
  BY RowIs
<1>2. u \in Seq(FileEntry) /\ ToSet(u) = SetAfter(ToSet(row.files), e, n)
  BY <1>1, UpdatedFacts
<1>3. v \in Nat BY <1>1 DEF NextVersion
<1>4. e.type \notin FileEvents => SetAfter(ToSet(row.files), e, n) = ToSet(row.files)
  BY DEF SetAfter, FileEvents
<1>. DEFINE r == RowAfter(row, e, n)
<1>5. CASE e.type \in FileEvents
  <2>1. r = [version |-> v, files |-> u, activity |-> n]
    BY <1>5 DEF RowAfter, FileEvents
  <2>. HIDE DEF u, v, r
  <2>2. r \in Row BY <1>2, <1>3, <2>1, RowIs
  <2>3. r.version = v /\ r.files = u /\ r.activity = n BY <2>1
  <2>4. e.type # "WorkspaceCreated" BY <1>5 DEF FileEvents
  <2>5. ToSet(r.files) = SetAfter(ToSet(row.files), e, n) BY <1>2, <2>3
  <2>6. r.version = CASE e.type \in FileEvents -> v
                      [] e.type = "WorkspaceCreated" -> 1
                      [] OTHER -> row.version
    BY <1>5, <2>3, <2>4
  <2>. QED BY <1>5, <2>2, <2>3, <2>5, <2>6 DEF u, v, r
<1>6. CASE e.type = "WorkspaceCreated"
  <2>1. r = [row EXCEPT !.version = 1] BY <1>6 DEF RowAfter, FileEvents
  <2>. HIDE DEF r
  <2>2. r \in Row /\ r.version = 1 /\ r.files = row.files /\ r.activity = row.activity
    BY <1>1, <2>1, RowIs
  <2>. QED BY <1>4, <1>6, <2>2 DEF r, FileEvents
<1>7. CASE e.type = "FunctionExecuted"
  <2>1. r = [row EXCEPT !.activity = n] BY <1>7 DEF RowAfter, FileEvents
  <2>. HIDE DEF r
  <2>2. r \in Row /\ r.version = row.version /\ r.files = row.files /\ r.activity = n
    BY <1>1, <2>1, RowIs
  <2>. QED BY <1>4, <1>7, <2>2 DEF r, FileEvents
<1>8. CASE e.type \notin FileEvents \cup {"WorkspaceCreated", "FunctionExecuted"}
  <2>1. r = row BY <1>8 DEF RowAfter
  <2>. HIDE DEF r
  <2>. QED BY <1>4, <1>8, <2>1 DEF r
<1>. QED BY <1>5, <1>6, <1>7, <1>8

\* The first application of an event, and any further one, leaves the rows
\* where the log is after it.
LEMMA SetStep ==
    ASSUME NEW es, Sane(es), NEW n \in 1 .. Len(es), NEW m \in {n - 1, n},
           NEW rs, RowsTyped(rs), SetIs(es, rs, m), NEW rs2, Effect(rs, rs2, es[n], n)
    PROVE  SetIs(es, rs2, n)
<1>. DEFINE e == es[n]
<1>1. /\ Len(es) \in Nat /\ n \in Nat \ {0} /\ n \in 1 .. MaxLog /\ n \in 0 .. Len(es)
      /\ n - 1 \in 0 .. Len(es) /\ e \in LogEvent /\ e.ws \in Workspaces
      /\ n \in DOMAIN es
  BY NumberFacts
<1>2. \A w : Created(es, w, n) <=>
               Created(es, w, n - 1) \/ (e.type = "WorkspaceCreated" /\ e.ws = w)
  BY <1>1, CreatedStep
<1>3. DOMAIN rs2 = {w \in Workspaces : Created(es, w, n)}
  <2>1. DOMAIN rs = {w \in Workspaces : Created(es, w, m)} BY DEF SetIs
  <2>2. DOMAIN rs2 = DOMAIN rs \cup (IF e.type = "WorkspaceCreated" THEN {e.ws} ELSE {})
    BY DEF Effect
  <2>. QED BY <1>1, <1>2, <2>1, <2>2
<1>4. ASSUME NEW w \in DOMAIN rs2 PROVE ToSet(rs2[w].files) = FilesAt(es, w, n)
  <2>1. w \in Workspaces /\ Created(es, w, n) BY <1>3
  <2>2. n \in About(es, w, n) <=> e.ws = w BY <1>1, <2>1, AboutStep
  <2>3. DOMAIN rs = {v \in Workspaces : Created(es, v, m)} BY DEF SetIs
  <2>4. CASE w # e.ws
    <3>1. w \in DOMAIN rs /\ rs2[w] = rs[w] BY <2>4 DEF Effect
    <3>2. ToSet(rs[w].files) = FilesAt(es, w, m) BY <3>1 DEF SetIs
    <3>3. FilesAt(es, w, n) = FilesAt(es, w, n - 1) BY <2>2, <2>4, FilesSame
    <3>. QED BY <3>1, <3>2, <3>3
  <2>5. CASE w = e.ws /\ w \notin DOMAIN rs
    <3>1. m = n - 1 /\ ~Created(es, w, n - 1) BY <2>1, <2>3, <2>5
    <3>2. e.type = "WorkspaceCreated" BY <1>2, <2>1, <3>1
    <3>3. rs2[w] = NewRow(n) BY <2>5 DEF Effect
    <3>4. ToSet(rs2[w].files) = {} BY <3>3 DEF NewRow, ToSet
    <3>5. Kept(es, w, n) = {}
      <4>1. About(es, w, n - 1) = {} BY <3>1 DEF About, Created
      <4>2. Kept(es, w, n - 1) = {} BY <4>1 DEF Kept
      <4>. QED BY <1>1, <3>2, <4>2, KeptStep
    <3>. QED BY <3>4, <3>5 DEF FilesAt
  <2>6. CASE w = e.ws /\ w \in DOMAIN rs
    <3>1. rs2[w] = RowAfter(rs[w], e, n) /\ rs[w] \in Row BY <2>6 DEF Effect, RowsTyped
    <3>2. ToSet(rs2[w].files) = SetAfter(ToSet(rs[w].files), e, n)
      BY <1>1, <3>1, RowAfterFacts
    <3>3. ToSet(rs[w].files) = FilesAt(es, w, m) BY <2>6 DEF SetIs
    <3>4. n \in About(es, w, n) BY <2>2, <2>6
    <3>5. CASE m = n - 1 BY <3>2, <3>3, <3>4, <3>5, FilesStep
    <3>6. CASE m = n BY <3>2, <3>3, <3>4, <3>6, FilesAgain
    <3>. QED BY <3>5, <3>6
  <2>. QED BY <2>4, <2>5, <2>6
<1>. QED BY <1>3, <1>4 DEF SetIs

LEMMA ChangesStep ==
    ASSUME NEW es, NEW w, NEW n \in Nat \ {0}
    PROVE  /\ IsFiniteSet(Changes(es, w, n - 1)) /\ Cardinality(Changes(es, w, n - 1)) \in Nat
           /\ n \in About(es, w, n) /\ es[n].type \in FileEvents =>
                 Cardinality(Changes(es, w, n)) = Cardinality(Changes(es, w, n - 1)) + 1
           /\ ~(n \in About(es, w, n) /\ es[n].type \in FileEvents) =>
                 Changes(es, w, n) = Changes(es, w, n - 1)
<1>1. /\ About(es, w, n - 1) \subseteq 1 .. (n - 1)
      /\ About(es, w, n) =
            About(es, w, n - 1) \cup (IF n \in About(es, w, n) THEN {n} ELSE {})
  BY AboutStep DEF About
<1>2. Changes(es, w, n - 1) \subseteq 1 .. (n - 1) BY <1>1 DEF Changes
<1>3. IsFiniteSet(1 .. (n - 1)) BY FS_Interval
<1>4. IsFiniteSet(Changes(es, w, n - 1)) BY <1>2, <1>3, FS_Subset
<1>5. Cardinality(Changes(es, w, n - 1)) \in Nat BY <1>4, FS_CardinalityType
<1>6. Changes(es, w, n) =
         Changes(es, w, n - 1) \cup
            (IF n \in About(es, w, n) /\ es[n].type \in FileEvents THEN {n} ELSE {})
  BY <1>1 DEF Changes
<1>7. n \notin Changes(es, w, n - 1) BY <1>2
<1>8. ASSUME n \in About(es, w, n), es[n].type \in FileEvents
      PROVE  Cardinality(Changes(es, w, n)) = Cardinality(Changes(es, w, n - 1)) + 1
  <2>1. Changes(es, w, n) = Changes(es, w, n - 1) \cup {n} BY <1>6, <1>8
  <2>. QED BY <1>4, <1>7, <2>1, FS_AddElement
<1>. QED BY <1>4, <1>5, <1>6, <1>8

LEMMA ActivityStep ==
    ASSUME NEW es, NEW w, NEW n \in Nat \ {0}
    PROVE  Max({k \in About(es, w, n) : es[k].type # "Other"}) =
               IF n \in About(es, w, n) /\ es[n].type # "Other" THEN n
               ELSE Max({k \in About(es, w, n - 1) : es[k].type # "Other"})
<1>. DEFINE S == {k \in About(es, w, n) : es[k].type # "Other"}
<1>1. /\ About(es, w, n) \subseteq 1 .. n
      /\ About(es, w, n) =
            About(es, w, n - 1) \cup (IF n \in About(es, w, n) THEN {n} ELSE {})
  BY AboutStep
<1>2. CASE n \in About(es, w, n) /\ es[n].type # "Other"
  <2>1. S \in SUBSET Nat /\ n \in S /\ \A m \in S : m <= n BY <1>1, <1>2
  <2>. HIDE DEF S
  <2>2. Max(S) = n BY <2>1, MaxIs
  <2>. QED BY <1>2, <2>2 DEF S
<1>3. CASE ~(n \in About(es, w, n) /\ es[n].type # "Other")
  <2>1. S = {k \in About(es, w, n - 1) : es[k].type # "Other"} BY <1>1, <1>3
  <2>. QED BY <1>3, <2>1
<1>. QED BY <1>2, <1>3

\* A workspace is created once, and a file uploaded once.
LEMMA OnlyOnce ==
    ASSUME NEW es, Sane(es), NEW n \in 1 .. Len(es), NEW w
    PROVE  /\ es[n].type = "WorkspaceCreated" /\ es[n].ws = w => ~Created(es, w, n - 1)
           /\ es[n].type = "FileUploaded" =>
                 \A x \in FilesAt(es, w, n - 1) : x.id # es[n].file
<1>1. n \in Nat \ {0} /\ n - 1 \in 0 .. Len(es) /\ n \in DOMAIN es /\ Len(es) \in Nat
  BY NumberFacts
<1>2. DOMAIN es = 1 .. Len(es) BY LogFacts
<1>3. ASSUME es[n].type = "WorkspaceCreated", es[n].ws = w, Created(es, w, n - 1)
      PROVE  FALSE
  <2>1. PICK k \in 1 .. (n - 1) : es[k].type = "WorkspaceCreated" /\ es[k].ws = w
    BY <1>3 DEF Created
  <2>2. k \in DOMAIN es /\ k # n BY <1>1, <1>2
  <2>. QED BY <1>1, <1>3, <2>1, <2>2 DEF Sane
<1>4. ASSUME es[n].type = "FileUploaded", NEW x \in FilesAt(es, w, n - 1),
             x.id = es[n].file
      PROVE  FALSE
  <2>1. PICK k \in Kept(es, w, n - 1) :
             x = Entry(es[k].file, LastAbout(es, w, n - 1, es[k].file))
    BY <1>4 DEF FilesAt
  <2>2. es[k].file = es[n].file BY <1>4, <2>1 DEF Entry
  <2>3. k \in 1 .. (n - 1) /\ k \in 1 .. Len(es) /\ es[k].type = "FileUploaded"
    BY <1>1, KeptFacts
  <2>4. k \in DOMAIN es /\ k # n BY <1>1, <1>2, <2>3
  <2>. QED BY <1>1, <1>4, <2>2, <2>3, <2>4 DEF Sane
<1>. QED BY <1>3, <1>4

\* The handlers that do something to the rows that are there.
Handled == FileEvents \cup {"WorkspaceCreated", "FunctionExecuted", "Other"}

LEMMA ExactStep ==
    ASSUME NEW es, Sane(es), NEW n \in 1 .. Len(es),
           NEW rs, RowsTyped(rs), ExactIs(es, rs, n - 1),
           es[n].type \in Handled \/ es[n].ws \notin DOMAIN rs,
           NEW rs2, Effect(rs, rs2, es[n], n)
    PROVE  ExactIs(es, rs2, n)
<1>. DEFINE e == es[n]
            changes(w, m) == Cardinality(Changes(es, w, m))
            last(w, m) == Max({k \in About(es, w, m) : es[k].type # "Other"})
            Good(row, w, m) == /\ Distinct(row.files)
                               /\ row.version = Ones[1 + changes(w, m)]
                               /\ row.activity = last(w, m)
<1>1. /\ Len(es) \in Nat /\ n \in Nat \ {0} /\ n \in 1 .. MaxLog /\ n \in 0 .. Len(es)
      /\ n - 1 \in 0 .. Len(es) /\ e \in LogEvent /\ e.ws \in Workspaces
      /\ n \in DOMAIN es
  BY NumberFacts
<1>2. SetIs(es, rs, n - 1) /\ \A w \in DOMAIN rs : Good(rs[w], w, n - 1)
  BY DEF ExactIs
<1>3. SetIs(es, rs2, n) BY <1>2, SetStep
<1>4. DOMAIN rs2 = {w \in Workspaces : Created(es, w, n)} BY <1>3 DEF SetIs
<1>5. DOMAIN rs = {w \in Workspaces : Created(es, w, n - 1)} BY <1>2 DEF SetIs
<1>6. \A w : Created(es, w, n) <=>
               Created(es, w, n - 1) \/ (e.type = "WorkspaceCreated" /\ e.ws = w)
  BY <1>1, CreatedStep
<1>7. \A w : n \in About(es, w, n) <=> e.ws = w /\ Created(es, w, n)
  BY <1>1, AboutStep
<1>8. \A w : /\ changes(w, n - 1) \in Nat
             /\ changes(w, n) =
                   IF n \in About(es, w, n) /\ e.type \in FileEvents
                   THEN changes(w, n - 1) + 1 ELSE changes(w, n - 1)
  BY <1>1, ChangesStep
<1>9. \A w : last(w, n) =
                IF n \in About(es, w, n) /\ e.type # "Other" THEN n ELSE last(w, n - 1)
  BY <1>1, ActivityStep
<1>10. "WorkspaceCreated" \notin FileEvents /\ "FunctionExecuted" \notin FileEvents
       /\ "Other" \notin FileEvents
  BY DEF FileEvents
<1>11. \A w \in DOMAIN rs : rs[w] \in Row BY DEF RowsTyped
<1>12. \A w \in DOMAIN rs2 :
          rs2[w] = IF w # e.ws THEN rs[w]
                   ELSE IF w \notin DOMAIN rs THEN NewRow(n)
                   ELSE RowAfter(rs[w], e, n)
  BY DEF Effect
<1>13. e.type \in Handled \/ e.ws \notin DOMAIN rs OBVIOUS
<1>14. ASSUME NEW w, w \in DOMAIN rs, e.ws = w PROVE e.type # "WorkspaceCreated"
  BY <1>5, <1>14, OnlyOnce
<1>15. ASSUME NEW w \in DOMAIN rs, NEW x \in ToSet(rs[w].files), e.type = "FileUploaded"
       PROVE  x.id # e.file
  <2>1. ToSet(rs[w].files) = FilesAt(es, w, n - 1) BY <1>2 DEF SetIs
  <2>. QED BY <1>15, <2>1, OnlyOnce
<1>16. \A w : ~Created(es, w, n - 1) => changes(w, n - 1) = 0
  <2>. SUFFICES ASSUME NEW w, ~Created(es, w, n - 1) PROVE changes(w, n - 1) = 0
    OBVIOUS
  <2>1. About(es, w, n - 1) = {} BY DEF About, Created
  <2>2. Changes(es, w, n - 1) = {} BY <2>1 DEF Changes
  <2>. QED BY <2>2, FS_EmptySet
<1>. HIDE DEF changes, last
<1>17. ASSUME NEW w \in DOMAIN rs2 PROVE Good(rs2[w], w, n)
  <2>1. w \in Workspaces /\ Created(es, w, n) BY <1>4
  <2>2. CASE w # e.ws
    <3>1. w \in DOMAIN rs /\ rs2[w] = rs[w] BY <1>5, <1>6, <1>12, <2>1, <2>2
    <3>2. n \notin About(es, w, n) BY <1>7, <2>2
    <3>3. Good(rs[w], w, n - 1) BY <1>2, <3>1
    <3>. QED BY <1>8, <1>9, <3>1, <3>2, <3>3
  <2>3. CASE w = e.ws /\ w \notin DOMAIN rs
    <3>1. ~Created(es, w, n - 1) /\ e.type = "WorkspaceCreated" BY <1>5, <1>6, <2>1, <2>3
    <3>2. rs2[w] = NewRow(n) BY <1>12, <2>3
    <3>3. n \in About(es, w, n) BY <1>7, <2>1, <2>3
    <3>4. changes(w, n) = 0 BY <1>8, <1>10, <1>16, <3>1
    <3>5. last(w, n) = n BY <1>9, <3>1, <3>3
    <3>6. Ones[1] = 1
      <4>1. 0 \in Nat OBVIOUS
      <4>2. Ones[0 + 1] = 10 * Ones[0] + 1 /\ Ones[0] = 0 BY <4>1, OnesStep
      <4>. QED BY <4>2
    <3>7. rs2[w].version = 1 /\ rs2[w].activity = n /\ Distinct(rs2[w].files)
      BY <3>2 DEF NewRow, Distinct
    <3>. QED BY <3>4, <3>5, <3>6, <3>7
  <2>4. CASE w = e.ws /\ w \in DOMAIN rs
    <3>. DEFINE row == rs[w]
                r == RowAfter(row, e, n)
                c == changes(w, n - 1)
    <3>1. row \in Row /\ rs2[w] = r /\ Good(row, w, n - 1) BY <1>2, <1>11, <1>12, <2>4
    <3>2. n \in About(es, w, n) BY <1>7, <2>1, <2>4
    <3>3. e.type \in FileEvents \cup {"FunctionExecuted", "Other"}
      BY <1>13, <1>14, <2>4 DEF Handled
    <3>4. /\ r.files = IF e.type \in FileEvents THEN UpdatedFiles(row.files, e, n)
                       ELSE row.files
          /\ r.version = CASE e.type \in FileEvents -> NextVersion(row.version)
                           [] e.type = "WorkspaceCreated" -> 1
                           [] OTHER -> row.version
          /\ r.activity = IF e.type \in FileEvents \cup {"FunctionExecuted"} THEN n
                          ELSE row.activity
      BY <1>1, <3>1, RowAfterFacts
    <3>5. c \in Nat BY <1>8
    <3>6. row.files \in Seq(FileEntry) BY <3>1, RowIs
    <3>7. Distinct(row.files) /\ row.version = Ones[1 + c] /\ row.activity = last(w, n - 1)
      BY <3>1
    <3>8. Distinct(UpdatedFiles(row.files, e, n))
      BY <1>1, <1>15, <2>4, <3>6, <3>7, UpdatedFacts
    <3>. HIDE DEF row, r, c
    <3>9. CASE e.type \in FileEvents
      <4>. e.type # "WorkspaceCreated" BY <1>10, <3>9
      <4>1. r.version = 10 * Ones[1 + c] + 1 BY <3>4, <3>7, <3>9 DEF NextVersion
      <4>2. 1 + c \in Nat /\ Ones[(1 + c) + 1] = 10 * Ones[1 + c] + 1 BY <3>5, OnesStep
      <4>3. changes(w, n) = c + 1 BY <1>8, <3>2, <3>9 DEF c
      <4>4. 1 + changes(w, n) = (1 + c) + 1 BY <3>5, <4>3
      <4>5. last(w, n) = n BY <1>9, <1>10, <3>2, <3>9
      <4>. QED BY <3>1, <3>4, <3>8, <3>9, <4>1, <4>2, <4>4, <4>5
    <3>10. CASE e.type = "FunctionExecuted"
      <4>1. changes(w, n) = c BY <1>8, <1>10, <3>10 DEF c
      <4>2. last(w, n) = n BY <1>9, <3>2, <3>10
      <4>. QED BY <1>10, <3>1, <3>4, <3>7, <3>10, <4>1, <4>2
    <3>11. CASE e.type = "Other"
      <4>1. changes(w, n) = c BY <1>8, <1>10, <3>11 DEF c
      <4>2. last(w, n) = last(w, n - 1) BY <1>9, <3>11
      <4>. QED BY <1>10, <3>1, <3>4, <3>7, <3>11, <4>1, <4>2
    <3>. QED BY <3>3, <3>9, <3>10, <3>11
  <2>. QED BY <2>2, <2>3, <2>4
<1>. QED BY <1>3, <1>17 DEF ExactIs, changes, last

-----------------------------------------------------------------------------
(***************************************************************************)
(* What the invariant says of a job that has the table to itself, in terms *)
(* that can be used before and after a step.                               *)
(***************************************************************************)
JobPhases == {"idle", "starting", "truncating", "resetting", "ranging", "event",
              "applied", "writing"}

Taking == {"event", "applied", "writing"}

LEMMA JobFacts ==
    ASSUME NEW n \in Nat, NEW job, JobOK(job, n)
    PROVE  /\ job.phase \in JobPhases
           /\ job.phase = "idle" => job = Idle
           /\ job.phase # "idle" => job.kind \in Kinds /\ job.process \in Processes
           /\ job.phase = "starting" => job.kind = "run"
           /\ job.phase \in {"truncating", "resetting"} =>
                 /\ job.kind = "rebuild"
                 /\ job = [phase |-> job.phase, kind |-> job.kind, process |-> job.process]
           /\ job.phase = "ranging" => job.from \in Nat
           /\ job.phase \in Taking =>
                 /\ job.next \in Nat /\ job.upTo \in Nat /\ 1 <= job.next
                 /\ job.next <= job.upTo /\ job.upTo <= n /\ job.next \in 1 .. n
           /\ job.phase = "writing" => job.row \in Row
<1>1. CASE job = Idle BY <1>1 DEF Idle, JobPhases, Taking
<1>2. CASE job \in [phase : {"starting"}, kind : {"run"}, process : Processes]
  BY <1>2 DEF JobPhases, Taking, Kinds
<1>3. CASE job \in [phase : {"truncating", "resetting"}, kind : {"rebuild"},
                    process : Processes]
  BY <1>3 DEF JobPhases, Taking, Kinds
<1>4. CASE job \in [phase : {"ranging"}, kind : Kinds, process : Processes, from : Nat]
  BY <1>4 DEF JobPhases, Taking
<1>5. CASE /\ job \in [phase : {"event", "applied"}, kind : Kinds, process : Processes,
                       next : Nat, upTo : Nat]
           /\ 1 <= job.next /\ job.next <= job.upTo /\ job.upTo <= n
  BY <1>5 DEF JobPhases, Taking
<1>6. CASE /\ job \in [phase : {"writing"}, kind : Kinds, process : Processes,
                       next : Nat, upTo : Nat, row : Row]
           /\ 1 <= job.next /\ job.next <= job.upTo /\ job.upTo <= n
  BY <1>6 DEF JobPhases, Taking
<1>. QED BY <1>1, <1>2, <1>3, <1>4, <1>5, <1>6 DEF JobOK

\* Jobs that are built by the actions.
LEMMA JobBuilt ==
    ASSUME NEW n \in Nat, NEW kind \in Kinds, NEW process \in Processes
    PROVE  /\ JobOK(Idle, n)
           /\ JobOK([phase |-> "starting", kind |-> "run", process |-> process], n)
           /\ \A phase \in {"truncating", "resetting"} :
                 JobOK([phase |-> phase, kind |-> "rebuild", process |-> process], n)
           /\ \A from \in Nat :
                 JobOK([phase |-> "ranging", kind |-> kind, process |-> process,
                        from |-> from], n)
           /\ \A next \in Nat, upTo \in Nat : 1 <= next /\ next <= upTo /\ upTo <= n =>
                 /\ \A phase \in {"event", "applied"} :
                       JobOK([phase |-> phase, kind |-> kind, process |-> process,
                              next |-> next, upTo |-> upTo], n)
                 /\ \A row \in Row :
                       JobOK([phase |-> "writing", kind |-> kind, process |-> process,
                              next |-> next, upTo |-> upTo, row |-> row], n)
BY DEF JobOK

\* The events of which the table may show the effect, for one job.
ShownBy(job, c) == IF job.phase = "applied" THEN job.next ELSE Here(c)

OneIs(job, es, rs, c, t) ==
    /\ Placed(job, es, rs, c)
    /\ t = "exact" /\ job.phase # "resetting" => ExactIs(es, rs, ShownBy(job, c))
    /\ t = "as a set" /\ job.phase # "resetting" =>
          \/ SetIs(es, rs, ShownBy(job, c))
          \/ /\ job.phase # "applied" /\ ShownBy(job, c) + 1 <= Len(es)
             /\ SetIs(es, rs, ShownBy(job, c) + 1)

\* Behind, Shown, Emptied and Tabled, of any state.
BehindIn(js) == {j \in Jobs : js[j].phase = "applied"}

ShownIn(js, c) ==
    IF BehindIn(js) = {} THEN Max({c, 1}) ELSE Max({js[j].next : j \in BehindIn(js)})

EmptiedIn(js) == \E j \in Jobs : js[j].phase = "resetting"

TableIn(js, es, rs, c, t) ==
    /\ t # "none" => /\ \A i, j \in Jobs : js[i].phase # "idle" /\ js[j].phase # "idle" => i = j
                     /\ \A j \in Jobs : Placed(js[j], es, rs, c)
    /\ t = "exact" /\ ~EmptiedIn(js) => ExactIs(es, rs, ShownIn(js, c))
    /\ t = "as a set" /\ ~EmptiedIn(js) =>
          \/ SetIs(es, rs, ShownIn(js, c))
          \/ /\ BehindIn(js) = {} /\ ShownIn(js, c) + 1 <= Len(es)
             /\ SetIs(es, rs, ShownIn(js, c) + 1)

LEMMA TabledIs == Tabled <=> TableIn(jobs, log, rows, checkpoint, trust)
BY Zenon DEF Tabled, TableIn, BehindIn, ShownIn, EmptiedIn, Behind, Shown, Emptied, Alone, Busy

LEMMA ShownInIs ==
    ASSUME NEW js, NEW j \in Jobs, \A i \in Jobs \ {j} : js[i].phase = "idle",
           NEW c \in Nat, js[j].phase = "applied" => js[j].next \in Nat
    PROVE  /\ BehindIn(js) = IF js[j].phase = "applied" THEN {j} ELSE {}
           /\ EmptiedIn(js) <=> js[j].phase = "resetting"
           /\ ShownIn(js, c) = ShownBy(js[j], c)
<1>1. BehindIn(js) = IF js[j].phase = "applied" THEN {j} ELSE {} BY DEF BehindIn
<1>2. EmptiedIn(js) <=> js[j].phase = "resetting" BY DEF EmptiedIn
<1>3. CASE js[j].phase = "applied"
  <2>. DEFINE n == js[j].next
  <2>1. {js[i].next : i \in BehindIn(js)} = {n} BY <1>1, <1>3
  <2>. HIDE DEF n
  <2>2. {n} \in SUBSET Nat /\ n \in {n} /\ \A m \in {n} : m <= n BY <1>3 DEF n
  <2>3. Max({n}) = n BY <2>2, MaxIs
  <2>4. ShownIn(js, c) = n BY <1>1, <1>3, <2>1, <2>3 DEF ShownIn
  <2>. QED BY <1>1, <1>2, <1>3, <2>4 DEF ShownBy, n
<1>4. CASE js[j].phase # "applied"
  BY <1>1, <1>2, <1>4, HereIs DEF ShownIn, ShownBy
<1>. QED BY <1>3, <1>4

LEMMA OneTable ==
    ASSUME NEW js, NEW j \in Jobs, \A i \in Jobs \ {j} : js[i] = Idle,
           NEW c \in Nat, js[j].phase = "applied" => js[j].next \in Nat,
           NEW es, NEW rs, NEW t
    PROVE  TableIn(js, es, rs, c, t) <=> (t # "none" => OneIs(js[j], es, rs, c, t))
<1>1. \A i \in Jobs \ {j} : js[i].phase = "idle" BY DEF Idle
<1>2. /\ BehindIn(js) = IF js[j].phase = "applied" THEN {j} ELSE {}
      /\ EmptiedIn(js) <=> js[j].phase = "resetting"
      /\ ShownIn(js, c) = ShownBy(js[j], c)
  BY <1>1, ShownInIs
<1>3. \A i \in Jobs \ {j} : Placed(js[i], es, rs, c) BY <1>1 DEF Placed
<1>4. \A i, k \in Jobs : js[i].phase # "idle" /\ js[k].phase # "idle" => i = k BY <1>1
<1>5. (\A i \in Jobs : Placed(js[i], es, rs, c)) <=> Placed(js[j], es, rs, c) BY <1>3
<1>6. BehindIn(js) = {} <=> js[j].phase # "applied" BY <1>2
<1>. QED BY <1>2, <1>4, <1>5, <1>6 DEF TableIn, OneIs

-----------------------------------------------------------------------------
(***************************************************************************)
(* The steps of a job.                                                     *)
(***************************************************************************)
Trusts == {"exact", "as a set", "none"}

Statuses == {"running", "rebuilding", "error"}

Others(j) == \A i \in Jobs \ {j} : jobs[i] = Idle

\* A job that goes on, or starts, alone or in a table that is not trusted.
LEMMA Goes ==
    ASSUME Typed, NEW j \in Jobs, NEW job, Go(j, job), JobOK(job, Len(log)),
           log' = log, RowsTyped(rows'), checkpoint' \in 0 .. Len(log),
           status' \in [Processes -> Statuses], trust' \in Trusts,
           trust' # "none" => Others(j) /\ OneIs(job, log, rows', checkpoint', trust')
    PROVE  IInv'
<1>1. /\ Sane(log) /\ jobs = [i \in Jobs |-> jobs[i]] /\ Len(log) \in Nat
      /\ \A i \in Jobs : JobOK(jobs[i], Len(log))
  BY LogFacts DEF Typed
<1>2. jobs' = [jobs EXCEPT ![j] = job] BY DEF Go
<1>3. /\ jobs' = [i \in Jobs |-> jobs'[i]] /\ jobs'[j] = job
      /\ \A i \in Jobs \ {j} : jobs'[i] = jobs[i]
  BY <1>1, <1>2
<1>4. \A i \in Jobs : JobOK(jobs'[i], Len(log)) BY <1>1, <1>3
<1>5. Typed'
  BY <1>1, <1>3, <1>4 DEF Typed, RowsTyped, Statuses, Trusts
<1>6. checkpoint' \in Nat BY <1>1
<1>7. job.phase = "applied" => job.next \in Nat BY <1>1, JobFacts DEF Taking
<1>8. TableIn(jobs', log', rows', checkpoint', trust')
  <2>1. CASE trust' = "none" BY <2>1 DEF TableIn
  <2>2. CASE trust' # "none"
    <3>1. \A i \in Jobs \ {j} : jobs'[i] = Idle BY <1>3, <2>2 DEF Others
    <3>2. OneIs(jobs'[j], log', rows', checkpoint', trust') BY <1>3, <2>2
    <3>3. jobs'[j].phase = "applied" => jobs'[j].next \in Nat BY <1>3, <1>7
    <3>. QED BY <1>6, <3>1, <3>2, <3>3, OneTable
  <2>. QED BY <2>1, <2>2
<1>9. Tabled' <=> TableIn(jobs', log', rows', checkpoint', trust')
  BY Zenon DEF Tabled, TableIn, BehindIn, ShownIn, EmptiedIn, Behind, Shown, Emptied, Alone, Busy
<1>. QED BY <1>5, <1>8, <1>9 DEF IInv

\* What is known before the step.
LEMMA Before ==
    ASSUME IInv, NEW j \in Jobs
    PROVE  /\ Sane(log) /\ Len(log) \in Nat /\ RowsTyped(rows) /\ checkpoint \in 0 .. Len(log)
           /\ status \in [Processes -> Statuses] /\ trust \in Trusts
           /\ JobOK(jobs[j], Len(log)) /\ checkpoint \in Nat
           /\ \A i \in Jobs : ~Busy(i) <=> jobs[i] = Idle
           /\ trust # "none" /\ (Busy(j) \/ \A i \in Jobs : ~Busy(i)) =>
                 Others(j) /\ OneIs(jobs[j], log, rows, checkpoint, trust)
<1>1. /\ Sane(log) /\ RowsTyped(rows) /\ checkpoint \in 0 .. Len(log)
      /\ status \in [Processes -> Statuses] /\ trust \in Trusts
      /\ \A i \in Jobs : JobOK(jobs[i], Len(log))
  BY DEF IInv, Typed, RowsTyped, Statuses, Trusts
<1>2. Len(log) \in Nat /\ checkpoint \in Nat BY <1>1, LogFacts
<1>3. \A i \in Jobs : ~Busy(i) <=> jobs[i] = Idle
  <2>. SUFFICES ASSUME NEW i \in Jobs PROVE ~Busy(i) <=> jobs[i] = Idle
    OBVIOUS
  <2>1. jobs[i].phase = "idle" => jobs[i] = Idle BY <1>1, <1>2, JobFacts
  <2>. QED BY <2>1 DEF Busy, Idle
<1>4. ASSUME trust # "none", Busy(j) \/ \A i \in Jobs : ~Busy(i)
      PROVE  Others(j) /\ OneIs(jobs[j], log, rows, checkpoint, trust)
  <2>1. Alone BY <1>4 DEF IInv, Tabled
  <2>2. \A i \in Jobs \ {j} : jobs[i] = Idle BY <1>3, <1>4, <2>1 DEF Alone
  <2>3. jobs[j].phase = "applied" => jobs[j].next \in Nat
    BY <1>1, <1>2, JobFacts DEF Taking
  <2>4. TableIn(jobs, log, rows, checkpoint, trust) BY TabledIs DEF IInv
  <2>. QED BY <1>2, <1>4, <2>2, <2>3, <2>4, OneTable DEF Others
<1>. QED BY <1>1, <1>2, <1>3, <1>4

\* A job that ends where it is.
LEMMA InterruptedIs ==
    ASSUME IInv, NEW j \in Jobs, Busy(j)
    PROVE  /\ Interrupted(j) \in Trusts
           /\ Interrupted(j) # "none" =>
                 /\ trust # "none" /\ Others(j)
                 /\ OneIs(Idle, log, rows, checkpoint, Interrupted(j))
<1>1. /\ trust \in Trusts /\ JobOK(jobs[j], Len(log)) /\ Len(log) \in Nat /\ checkpoint \in Nat
      /\ trust # "none" => Others(j) /\ OneIs(jobs[j], log, rows, checkpoint, trust)
  BY Before
<1>. DEFINE job == jobs[j]
            t == Interrupted(j)
            c == checkpoint
<1>2. job.phase \in Taking => job.next \in 1 .. Len(log) BY <1>1, JobFacts
<1>3. t = CASE job.phase = "resetting" -> "none"
            [] job.phase = "applied" /\ trust = "exact" -> "as a set"
            [] OTHER -> trust
  BY DEF Interrupted
<1>4. t \in Trusts BY <1>1, <1>3 DEF Trusts
<1>. HIDE DEF t, job, c
<1>5. ASSUME t # "none"
      PROVE  trust # "none" /\ Others(j) /\ OneIs(Idle, log, rows, c, t)
  <2>1. job.phase # "resetting" BY <1>3, <1>5
  <2>2. t = IF job.phase = "applied" /\ trust = "exact" THEN "as a set" ELSE trust
    BY <1>3, <2>1
  <2>3. trust # "none" BY <1>5, <2>2
  <2>4. Others(j) /\ OneIs(job, log, rows, c, trust) BY <1>1, <2>3 DEF job, c
  <2>5. Placed(Idle, log, rows, c) /\ Idle.phase = "idle" BY DEF Placed, Idle
  <2>6. ShownBy(Idle, c) = Here(c) BY <2>5 DEF ShownBy
  <2>7. CASE job.phase = "applied"
    <3>1. c >= 1 /\ job.next = c + 1 /\ c \in Nat BY <1>1, <2>4, <2>7 DEF OneIs, Placed, c
    <3>2. t = "as a set"
      BY <1>1, <1>5, <2>2, <2>7 DEF Trusts
    <3>3. SetIs(log, rows, c + 1)
      <4>1. ShownBy(job, c) = c + 1 BY <2>7, <3>1 DEF ShownBy
      <4>2. CASE trust = "exact" BY <2>1, <2>4, <4>1, <4>2 DEF OneIs, ExactIs
      <4>3. CASE trust = "as a set" BY <2>1, <2>4, <2>7, <4>1, <4>3 DEF OneIs
      <4>. QED BY <1>1, <2>3, <4>2, <4>3 DEF Trusts
    <3>4. Here(c) = c /\ c + 1 <= Len(log)
      <4>1. job.next <= Len(log) BY <1>1, <1>2, <2>7 DEF Taking
      <4>. QED BY <3>1, <4>1 DEF Here
    <3>. QED BY <2>3, <2>4, <2>5, <2>6, <3>2, <3>3, <3>4 DEF OneIs
  <2>8. CASE job.phase # "applied"
    <3>1. t = trust /\ ShownBy(job, c) = Here(c) BY <2>2, <2>8 DEF ShownBy
    <3>. QED BY <2>1, <2>3, <2>4, <2>5, <2>6, <2>8, <3>1 DEF OneIs
  <2>. QED BY <2>7, <2>8
<1>. QED BY <1>4, <1>5 DEF t, c

LEMMA ThrowStep ==
    ASSUME IInv, NEW j \in Jobs, Busy(j), Throw(j)
    PROVE  IInv'
<1>1. /\ Typed /\ Sane(log) /\ Len(log) \in Nat /\ RowsTyped(rows) /\ checkpoint \in 0 .. Len(log)
      /\ status \in [Processes -> Statuses]
  BY Before DEF IInv
<1>2. /\ Go(j, Idle) /\ log' = log /\ rows' = rows /\ checkpoint' = checkpoint
      /\ trust' = Interrupted(j) /\ status' = [status EXCEPT ![jobs[j].process] = "error"]
  BY DEF Throw
<1>3. status' \in [Processes -> Statuses] BY <1>1, <1>2 DEF Statuses
<1>4. JobOK(Idle, Len(log)) BY DEF JobOK
<1>5. /\ trust' \in Trusts
      /\ trust' # "none" => Others(j) /\ OneIs(Idle, log, rows', checkpoint', trust')
  BY <1>2, InterruptedIs
<1>. QED BY <1>1, <1>2, <1>3, <1>4, <1>5, Goes

\* A step that leaves the table as it is and the job before the next event,
\* or at its end.
LEMMA StaysStep ==
    ASSUME IInv, NEW j \in Jobs, Busy(j), NEW job, Go(j, job), JobOK(job, Len(log)),
           jobs[j].phase \notin {"resetting", "applied"},
           job.phase \notin {"resetting", "applied"},
           trust # "none" => Placed(job, log, rows, checkpoint),
           status' \in [Processes -> Statuses],
           UNCHANGED <<log, rows, checkpoint, trust>>
    PROVE  IInv'
<1>1. /\ Typed /\ RowsTyped(rows) /\ checkpoint \in 0 .. Len(log) /\ trust \in Trusts
      /\ trust # "none" => Others(j) /\ OneIs(jobs[j], log, rows, checkpoint, trust)
  BY Before DEF IInv
<1>2. ShownBy(job, checkpoint) = ShownBy(jobs[j], checkpoint) BY DEF ShownBy
<1>3. trust # "none" => OneIs(job, log, rows, checkpoint, trust) BY <1>1, <1>2 DEF OneIs
<1>. QED BY <1>1, <1>3, Goes

\* An event takes effect, and what is left is the checkpoint.
LEMMA ApplyStep ==
    ASSUME NEW es, Sane(es), NEW rs, RowsTyped(rs), NEW c \in 0 .. Len(es), NEW t,
           NEW job, JobOK(job, Len(es)), job.phase \in {"event", "writing"},
           OneIs(job, es, rs, c, t), es[job.next].type # "Other",
           es[job.next].type \in Handled \/ es[job.next].ws \notin DOMAIN rs,
           NEW rs2, Effect(rs, rs2, es[job.next], job.next),
           NEW done, done.phase = "applied", done.next = job.next
    PROVE  OneIs(done, es, rs2, c, t)
<1>. DEFINE n == job.next
<1>1. Len(es) \in Nat /\ c \in Nat BY LogFacts
<1>2. n \in 1 .. Len(es) BY <1>1, JobFacts DEF Taking
<1>3. es[1].type = "Other" BY DEF Sane
<1>4. c >= 1 /\ n = c + 1
  <2>1. n # 1 BY <1>3
  <2>. QED BY <2>1 DEF OneIs, Placed
<1>5. ShownBy(job, c) = n - 1 /\ ShownBy(done, c) = n
  BY <1>1, <1>4 DEF ShownBy, Here
<1>6. Placed(done, es, rs2, c) BY <1>4 DEF Placed
<1>. HIDE DEF n
<1>7. ASSUME t = "exact" PROVE ExactIs(es, rs2, n)
  <2>1. ExactIs(es, rs, n - 1) BY <1>5, <1>7 DEF OneIs
  <2>. QED BY <1>2, <2>1, ExactStep DEF n
<1>8. ASSUME t = "as a set" PROVE SetIs(es, rs2, n)
  <2>1. SetIs(es, rs, n - 1) \/ SetIs(es, rs, n)
    <3>1. (n - 1) + 1 = n BY <1>1, <1>4
    <3>. QED BY <1>5, <1>8, <3>1 DEF OneIs
  <2>2. CASE SetIs(es, rs, n - 1)
    <3>1. n - 1 \in {n - 1, n} OBVIOUS
    <3>. QED BY <1>2, <2>2, <3>1, SetStep DEF n
  <2>3. CASE SetIs(es, rs, n)
    <3>1. n \in {n - 1, n} OBVIOUS
    <3>. QED BY <1>2, <2>3, <3>1, SetStep DEF n
  <2>. QED BY <2>1, <2>2, <2>3
<1>. QED BY <1>5, <1>6, <1>7, <1>8 DEF OneIs

\* The same, as a step.
LEMMA AppliedStep ==
    ASSUME IInv, NEW j \in Jobs, jobs[j].phase \in {"event", "writing"}, Go(j, Applied(j)),
           RowsTyped(rows'),
           trust # "none" =>
               /\ Current(j).type # "Other"
               /\ Current(j).type \in Handled \/ Current(j).ws \notin DOMAIN rows
               /\ Effect(rows, rows', Current(j), jobs[j].next),
           UNCHANGED <<log, checkpoint, status, trust>>
    PROVE  IInv'
<1>1. Busy(j) BY DEF Busy
<1>2. /\ Typed /\ Sane(log) /\ RowsTyped(rows) /\ checkpoint \in 0 .. Len(log) /\ trust \in Trusts
      /\ status \in [Processes -> Statuses] /\ JobOK(jobs[j], Len(log)) /\ Len(log) \in Nat
      /\ trust # "none" => Others(j) /\ OneIs(jobs[j], log, rows, checkpoint, trust)
  BY <1>1, Before DEF IInv
<1>. DEFINE done == Applied(j)
            job == jobs[j]
<1>3. /\ job.kind \in Kinds /\ job.process \in Processes /\ job.next \in Nat /\ job.upTo \in Nat
      /\ 1 <= job.next /\ job.next <= job.upTo /\ job.upTo <= Len(log)
  BY <1>2, JobFacts DEF Taking
<1>4. JobOK(done, Len(log)) BY <1>2, <1>3, JobBuilt DEF Applied, At
<1>5. done.phase = "applied" /\ done.next = job.next BY DEF Applied, At
<1>6. trust # "none" => OneIs(done, log, rows', checkpoint, trust)
  <2>. HIDE DEF done
  <2>1. Current(j) = log[job.next] BY DEF Current
  <2>. QED BY <1>2, <1>5, <2>1, ApplyStep
<1>. HIDE DEF done, job
<1>7. Go(j, done) BY DEF done
<1>. QED BY <1>2, <1>4, <1>6, <1>7, Goes

\* The event a job is at.
LEMMA CurrentFacts ==
    ASSUME IInv, NEW j \in Jobs, jobs[j].phase \in Taking
    PROVE  /\ Current(j) \in LogEvent /\ Current(j).ws \in Workspaces
           /\ jobs[j].next \in 1 .. Len(log) /\ jobs[j].next \in 1 .. MaxLog
           /\ RowsTyped(rows) /\ \A w \in DOMAIN rows : rows[w] \in Row
           /\ jobs[j].phase = "writing" => jobs[j].row \in Row
<1>1. /\ Sane(log) /\ RowsTyped(rows) /\ JobOK(jobs[j], Len(log)) /\ Len(log) \in Nat
  BY Before
<1>2. jobs[j].next \in 1 .. Len(log) /\ (jobs[j].phase = "writing" => jobs[j].row \in Row)
  BY <1>1, JobFacts
<1>. QED BY <1>1, <1>2, NumberFacts DEF Current, RowsTyped

LEMMA PutTyped ==
    ASSUME RowsTyped(rows), NEW w \in Workspaces, NEW row \in Row, Put(w, row)
    PROVE  RowsTyped(rows')
<1>1. rows' = [v \in DOMAIN rows \cup {w} |-> IF v = w THEN row ELSE rows[v]] BY DEF Put
<1>. QED BY <1>1 DEF RowsTyped

LEMMA CreatedHandled ==
    ASSUME IInv, NEW j \in Jobs, HandleWorkspaceCreated(j)
    PROVE  IInv'
<1>. DEFINE e == Current(j)
            n == jobs[j].next
            row == IF e.ws \in DOMAIN rows THEN [rows[e.ws] EXCEPT !.version = 1]
                   ELSE [version |-> 1, files |-> << >>, activity |-> n]
<1>1. jobs[j].phase = "event" /\ e.type = "WorkspaceCreated" BY DEF HandleWorkspaceCreated
<1>2. Busy(j) /\ jobs[j].phase \in Taking BY <1>1 DEF Busy, Taking
<1>3. /\ e \in LogEvent /\ e.ws \in Workspaces /\ n \in 1 .. MaxLog
      /\ RowsTyped(rows) /\ \A w \in DOMAIN rows : rows[w] \in Row
  BY <1>2, CurrentFacts
<1>4. CASE payload = "emitted"
  <2>1. Throw(j) BY <1>4 DEF HandleWorkspaceCreated
  <2>. QED BY <1>2, <2>1, ThrowStep
<1>5. CASE payload # "emitted"
  <2>1. Put(e.ws, row) /\ Go(j, Applied(j)) /\ UNCHANGED <<log, checkpoint, status, trust>>
    BY <1>5 DEF HandleWorkspaceCreated
  <2>2. row = IF e.ws \in DOMAIN rows THEN RowAfter(rows[e.ws], e, n) ELSE NewRow(n)
    BY <1>1 DEF RowAfter, FileEvents, NewRow
  <2>3. row \in Row
    <3>1. CASE e.ws \in DOMAIN rows
      <4>1. row = RowAfter(rows[e.ws], e, n) /\ rows[e.ws] \in Row BY <1>3, <2>2, <3>1
      <4>. QED BY <1>3, <4>1, RowAfterFacts
    <3>2. CASE e.ws \notin DOMAIN rows
      <4>1. << >> \in Seq(FileEntry) OBVIOUS
      <4>2. row = [version |-> 1, files |-> << >>, activity |-> n] BY <3>2
      <4>. QED BY <1>3, <4>1, <4>2, RowIs
    <3>. QED BY <3>1, <3>2
  <2>. HIDE DEF row
  <2>4. rows' = [w \in DOMAIN rows \cup {e.ws} |-> IF w = e.ws THEN row ELSE rows[w]]
    BY <2>1 DEF Put
  <2>5. Effect(rows, rows', e, n) BY <1>1, <2>2, <2>4 DEF Effect
  <2>6. RowsTyped(rows') BY <1>3, <2>1, <2>3, PutTyped
  <2>7. e.type \in Handled /\ e.type # "Other" BY <1>1 DEF Handled
  <2>. QED BY <1>1, <2>1, <2>5, <2>6, <2>7, AppliedStep
<1>. QED BY <1>4, <1>5

LEMMA ExecutedHandled ==
    ASSUME IInv, NEW j \in Jobs, HandleFunctionExecuted(j)
    PROVE  IInv'
<1>. DEFINE e == Current(j)
            n == jobs[j].next
            row == [rows[e.ws] EXCEPT !.activity = n]
<1>1. /\ jobs[j].phase = "event" /\ e.type = "FunctionExecuted" /\ Go(j, Applied(j))
      /\ UNCHANGED <<log, checkpoint, status, trust>>
      /\ IF e.ws \in DOMAIN rows THEN Put(e.ws, row) ELSE UNCHANGED rows
  BY DEF HandleFunctionExecuted
<1>2. jobs[j].phase \in Taking BY <1>1 DEF Taking
<1>3. /\ e \in LogEvent /\ e.ws \in Workspaces /\ n \in 1 .. MaxLog
      /\ RowsTyped(rows) /\ \A w \in DOMAIN rows : rows[w] \in Row
  BY <1>2, CurrentFacts
<1>4. e.type \in Handled /\ e.type # "Other" /\ e.type # "WorkspaceCreated"
  BY <1>1 DEF Handled
<1>5. RowsTyped(rows') /\ Effect(rows, rows', e, n)
  <2>1. CASE e.ws \in DOMAIN rows
    <3>1. row = RowAfter(rows[e.ws], e, n) BY <1>1 DEF RowAfter, FileEvents
    <3>2. row \in Row BY <1>3, <2>1, <3>1, RowAfterFacts
    <3>. HIDE DEF row
    <3>3. rows' = [w \in DOMAIN rows \cup {e.ws} |-> IF w = e.ws THEN row ELSE rows[w]]
      BY <1>1, <2>1 DEF Put
    <3>4. Effect(rows, rows', e, n) BY <1>4, <2>1, <3>1, <3>3 DEF Effect
    <3>5. RowsTyped(rows') BY <1>1, <1>3, <2>1, <3>2, PutTyped
    <3>. QED BY <3>4, <3>5
  <2>2. CASE e.ws \notin DOMAIN rows
    <3>1. rows' = rows BY <1>1, <2>2
    <3>. QED BY <1>3, <1>4, <2>2, <3>1 DEF Effect
  <2>. QED BY <2>1, <2>2
<1>. QED BY <1>1, <1>4, <1>5, AppliedStep

LEMMA RowRead ==
    ASSUME IInv, NEW j \in Jobs, ReadRow(j)
    PROVE  IInv'
<1>. DEFINE e == Current(j)
            n == jobs[j].next
            job == Writing(j, rows[e.ws])
<1>1. /\ jobs[j].phase = "event" /\ e.type \in Reading
      /\ Go(j, IF e.ws \in DOMAIN rows THEN job ELSE Applied(j))
      /\ UNCHANGED <<log, rows, checkpoint, status, trust>>
  BY DEF ReadRow
<1>2. Busy(j) /\ jobs[j].phase \in Taking BY <1>1 DEF Busy, Taking
<1>3. /\ RowsTyped(rows) /\ \A w \in DOMAIN rows : rows[w] \in Row
  BY <1>2, CurrentFacts
<1>4. e.type # "Other" /\ e.type # "WorkspaceCreated" BY <1>1 DEF Reading, FileEvents
<1>5. CASE e.ws \in DOMAIN rows
  <2>1. /\ Sane(log) /\ status \in [Processes -> Statuses] /\ Len(log) \in Nat
        /\ JobOK(jobs[j], Len(log)) /\ checkpoint \in Nat
        /\ trust # "none" => OneIs(jobs[j], log, rows, checkpoint, trust)
    BY <1>2, Before
  <2>2. /\ jobs[j].kind \in Kinds /\ jobs[j].process \in Processes
        /\ n \in Nat /\ jobs[j].upTo \in Nat
        /\ 1 <= n /\ n <= jobs[j].upTo /\ jobs[j].upTo <= Len(log)
    BY <1>1, <1>2, <2>1, JobFacts
  <2>3. JobOK(job, Len(log)) BY <1>3, <1>5, <2>1, <2>2, JobBuilt DEF Writing
  <2>4. job.phase = "writing" /\ job.next = n /\ job.row = rows[e.ws] BY DEF Writing
  <2>5. log[1].type = "Other" /\ e = log[n] BY <2>1 DEF Sane, Current
  <2>6. trust # "none" => Placed(job, log, rows, checkpoint)
    <3>1. trust # "none" => checkpoint >= 1 /\ n = checkpoint + 1
      BY <1>1, <1>4, <2>1, <2>5 DEF OneIs, Placed
    <3>. HIDE DEF job, e
    <3>. QED BY <1>1, <1>5, <2>4, <2>5, <3>1 DEF Placed
  <2>. HIDE DEF job
  <2>. QED BY <1>1, <1>2, <1>5, <2>1, <2>3, <2>4, <2>6, StaysStep
<1>6. CASE e.ws \notin DOMAIN rows
  <2>1. Go(j, Applied(j)) BY <1>1, <1>6
  <2>2. Effect(rows, rows', e, n) BY <1>1, <1>4, <1>6 DEF Effect
  <2>3. RowsTyped(rows') BY <1>1, <1>3
  <2>. QED BY <1>1, <1>4, <1>6, <2>1, <2>2, <2>3, AppliedStep
<1>. QED BY <1>5, <1>6

LEMMA RowWritten ==
    ASSUME IInv, NEW j \in Jobs, WriteRow(j)
    PROVE  IInv'
<1>. DEFINE e == Current(j)
            n == jobs[j].next
            read == jobs[j].row
            row == [version |-> NextVersion(read.version),
                    files |-> UpdatedFiles(read.files, e, n), activity |-> n]
<1>1. jobs[j].phase = "writing" BY DEF WriteRow
<1>2. Busy(j) /\ jobs[j].phase \in Taking BY <1>1 DEF Busy, Taking
<1>3. /\ e \in LogEvent /\ e.ws \in Workspaces /\ n \in 1 .. MaxLog
      /\ RowsTyped(rows) /\ \A w \in DOMAIN rows : rows[w] \in Row
      /\ read \in Row
  BY <1>1, <1>2, CurrentFacts
<1>4. CASE e.type = "FunctionRegistered" \/ NextVersion(read.version) > MaxVersion
  <2>1. Throw(j) BY <1>4 DEF WriteRow
  <2>. QED BY <1>2, <2>1, ThrowStep
<1>5. CASE ~(e.type = "FunctionRegistered" \/ NextVersion(read.version) > MaxVersion)
  <2>1. /\ IF e.ws \in DOMAIN rows THEN Put(e.ws, row) ELSE UNCHANGED rows
        /\ Go(j, Applied(j)) /\ UNCHANGED <<log, checkpoint, status, trust>>
    BY <1>5 DEF WriteRow
  <2>2. row \in Row
    <3>. DEFINE u == UpdatedFiles(read.files, e, n)
                v == NextVersion(read.version)
    <3>1. read.version \in Nat /\ read.files \in Seq(FileEntry) BY <1>3, RowIs
    <3>2. u \in Seq(FileEntry) BY <1>3, <3>1, UpdatedFacts
    <3>3. v \in Nat BY <3>1 DEF NextVersion
    <3>. HIDE DEF u, v
    <3>. QED BY <1>3, <3>2, <3>3, RowIs DEF u, v
  <2>3. RowsTyped(rows')
    <3>. HIDE DEF row
    <3>. QED BY <1>3, <2>1, <2>2, PutTyped
  <2>4. ASSUME trust # "none"
        PROVE  /\ e.type \in FileEvents /\ e.ws \in DOMAIN rows /\ read = rows[e.ws]
    <3>1. OneIs(jobs[j], log, rows, checkpoint, trust) BY <1>2, <2>4, Before
    <3>2. e.ws \in DOMAIN rows /\ e.type \in Reading /\ read = rows[e.ws]
      BY <1>1, <3>1 DEF OneIs, Placed, Current
    <3>. QED BY <1>5, <3>2 DEF Reading
  <2>5. ASSUME trust # "none" PROVE Effect(rows, rows', e, n)
    <3>1. e.type # "WorkspaceCreated" BY <2>4, <2>5 DEF FileEvents
    <3>2. row = RowAfter(rows[e.ws], e, n) BY <2>4, <2>5 DEF RowAfter, FileEvents
    <3>. HIDE DEF row
    <3>3. rows' = [w \in DOMAIN rows \cup {e.ws} |-> IF w = e.ws THEN row ELSE rows[w]]
      BY <2>1, <2>4, <2>5 DEF Put
    <3>. QED BY <2>4, <2>5, <3>1, <3>2, <3>3 DEF Effect
  <2>6. trust # "none" => e.type \in Handled /\ e.type # "Other"
    BY <2>4 DEF Handled, FileEvents
  <2>. HIDE DEF row
  <2>. QED BY <1>1, <2>1, <2>3, <2>5, <2>6, AppliedStep
<1>. QED BY <1>4, <1>5

LEMMA Truncated ==
    ASSUME IInv, NEW j \in Jobs, Truncate(j)
    PROVE  IInv'
<1>. DEFINE job == [jobs[j] EXCEPT !.phase = "resetting"]
<1>1. /\ jobs[j].phase = "truncating" /\ rows' = << >> /\ Go(j, job)
      /\ trust' = IF \E i \in Jobs \ {j} : Busy(i) THEN "none" ELSE "exact"
      /\ UNCHANGED <<log, checkpoint, status>>
  BY DEF Truncate
<1>2. Busy(j) BY <1>1 DEF Busy
<1>3. /\ Typed /\ Sane(log) /\ Len(log) \in Nat /\ checkpoint \in 0 .. Len(log)
      /\ status \in [Processes -> Statuses] /\ JobOK(jobs[j], Len(log))
      /\ \A i \in Jobs : ~Busy(i) <=> jobs[i] = Idle
  BY Before DEF IInv
<1>4. /\ jobs[j].kind = "rebuild" /\ jobs[j].process \in Processes
      /\ jobs[j] = [phase |-> jobs[j].phase, kind |-> jobs[j].kind,
                    process |-> jobs[j].process]
  BY <1>1, <1>3, JobFacts
<1>5. job = [phase |-> "resetting", kind |-> "rebuild", process |-> jobs[j].process]
  BY <1>4
<1>6. JobOK(job, Len(log))
  <2>. HIDE DEF job
  <2>1. "rebuild" \in Kinds BY DEF Kinds
  <2>. QED BY <1>3, <1>4, <1>5, <2>1, JobBuilt
<1>7. job.phase = "resetting" BY <1>5
<1>. HIDE DEF job
<1>8. rows' = [w \in {} |-> 0] /\ DOMAIN rows' = {} BY <1>1
<1>9. RowsTyped(rows') BY <1>8 DEF RowsTyped
<1>10. trust' \in Trusts BY <1>1 DEF Trusts
<1>11. ASSUME trust' # "none"
       PROVE  Others(j) /\ OneIs(job, log, rows', checkpoint', trust')
  <2>1. trust' = "exact" /\ \A i \in Jobs \ {j} : ~Busy(i) BY <1>1, <1>11
  <2>2. Others(j) BY <1>3, <2>1 DEF Others
  <2>3. Placed(job, log, rows', checkpoint') BY <1>7, <1>8 DEF Placed
  <2>. QED BY <1>7, <2>1, <2>2, <2>3 DEF OneIs
<1>. QED BY <1>1, <1>3, <1>6, <1>9, <1>10, <1>11, Goes

LEMMA NothingAtOne ==
    ASSUME NEW es, Sane(es), NEW w
    PROVE  ~Created(es, w, 1)
<1>1. es[1].type = "Other" BY DEF Sane
<1>2. \A k \in 1 .. 1 : k = 1 OBVIOUS
<1>. QED BY <1>1, <1>2 DEF Created

\* An empty table is that of a log in which no workspace is created yet.
LEMMA EmptyTable ==
    ASSUME NEW es, Sane(es), NEW rs, DOMAIN rs = {}
    PROVE  ExactIs(es, rs, 1)
BY NothingAtOne DEF ExactIs, SetIs

LEMMA CheckpointReset ==
    ASSUME IInv, NEW j \in Jobs, ResetCheckpoint(j)
    PROVE  IInv'
<1>. DEFINE job == Ranging(j, 0)
<1>1. /\ jobs[j].phase = "resetting" /\ Go(j, job)
      /\ checkpoint' = IF checkpoint = 0 THEN 0 ELSE 1
      /\ UNCHANGED <<log, rows, status, trust>>
  BY DEF ResetCheckpoint
<1>2. Busy(j) BY <1>1 DEF Busy
<1>3. /\ Typed /\ Sane(log) /\ Len(log) \in Nat /\ RowsTyped(rows) /\ trust \in Trusts
      /\ checkpoint \in 0 .. Len(log)
      /\ status \in [Processes -> Statuses] /\ JobOK(jobs[j], Len(log))
      /\ trust # "none" => Others(j) /\ OneIs(jobs[j], log, rows, checkpoint, trust)
  BY <1>2, Before DEF IInv
<1>4. jobs[j].kind = "rebuild" /\ jobs[j].process \in Processes BY <1>1, <1>3, JobFacts
<1>5. job = [phase |-> "ranging", kind |-> "rebuild", process |-> jobs[j].process,
             from |-> 0]
  BY <1>4 DEF Ranging
<1>6. JobOK(job, Len(log))
  <2>. HIDE DEF job
  <2>1. "rebuild" \in Kinds /\ 0 \in Nat BY DEF Kinds
  <2>. QED BY <1>3, <1>4, <1>5, <2>1, JobBuilt
<1>7. job.phase = "ranging" /\ job.kind = "rebuild" /\ job.from = 0 BY <1>5
<1>. HIDE DEF job
<1>8. checkpoint' \in 0 .. Len(log) /\ checkpoint' \in {0, 1}
  BY <1>1, <1>3
<1>9. ASSUME trust # "none" PROVE OneIs(job, log, rows, checkpoint', trust)
  <2>1. DOMAIN rows = {} BY <1>1, <1>3, <1>9 DEF OneIs, Placed
  <2>2. ExactIs(log, rows, 1) /\ SetIs(log, rows, 1)
    BY <1>3, <2>1, EmptyTable DEF ExactIs
  <2>3. ShownBy(job, checkpoint') = 1 BY <1>7, <1>8 DEF ShownBy, Here
  <2>4. Placed(job, log, rows, checkpoint') BY <1>7, <1>8 DEF Placed
  <2>. QED BY <2>2, <2>3, <2>4 DEF OneIs
<1>. QED BY <1>1, <1>3, <1>6, <1>8, <1>9, Goes

LEMMA CheckpointRead ==
    ASSUME IInv, NEW j \in Jobs, GetCheckpoint(j)
    PROVE  IInv'
<1>. DEFINE job == Ranging(j, checkpoint)
<1>1. /\ jobs[j].phase = "starting" /\ Go(j, job)
      /\ UNCHANGED <<log, rows, checkpoint, status, trust>>
  BY DEF GetCheckpoint
<1>2. Busy(j) BY <1>1 DEF Busy
<1>3. /\ Len(log) \in Nat /\ checkpoint \in Nat
      /\ status \in [Processes -> Statuses] /\ JobOK(jobs[j], Len(log))
  BY <1>2, Before
<1>4. jobs[j].kind = "run" /\ jobs[j].process \in Processes BY <1>1, <1>3, JobFacts
<1>5. job = [phase |-> "ranging", kind |-> "run", process |-> jobs[j].process,
             from |-> checkpoint]
  BY <1>4 DEF Ranging
<1>6. JobOK(job, Len(log))
  <2>. HIDE DEF job
  <2>1. "run" \in Kinds BY DEF Kinds
  <2>. QED BY <1>3, <1>4, <1>5, <2>1, JobBuilt
<1>7. job.phase = "ranging" /\ job.kind = "run" /\ job.from = checkpoint BY <1>5
<1>. HIDE DEF job
<1>8. Placed(job, log, rows, checkpoint) BY <1>7 DEF Placed
<1>. QED BY <1>1, <1>2, <1>3, <1>6, <1>7, <1>8, StaysStep

LEMMA EndedTyped ==
    ASSUME NEW j \in Jobs, status \in [Processes -> Statuses]
    PROVE  Ended(j) \in [Processes -> Statuses]
BY DEF Ended, Statuses

LEMMA IdlePlaced ==
    ASSUME NEW es, NEW rs, NEW c
    PROVE  Placed(Idle, es, rs, c) /\ Idle.phase = "idle"
BY DEF Placed, Idle

LEMMA RangeRead ==
    ASSUME IInv, NEW j \in Jobs, GetBySequence(j)
    PROVE  IInv'
<1>. DEFINE job == At(j, "event", NextAfter(jobs[j].from), Len(log))
            from == jobs[j].from
<1>1. jobs[j].phase = "ranging" BY DEF GetBySequence
<1>2. Busy(j) BY <1>1 DEF Busy
<1>3. /\ Len(log) \in Nat /\ checkpoint \in Nat
      /\ status \in [Processes -> Statuses] /\ JobOK(jobs[j], Len(log))
      /\ trust # "none" => OneIs(jobs[j], log, rows, checkpoint, trust)
  BY <1>2, Before
<1>4. jobs[j].kind \in Kinds /\ jobs[j].process \in Processes /\ from \in Nat
  BY <1>1, <1>3, JobFacts
<1>5. CASE from >= Len(log) \/ (NoCheckpoint(j) /\ Len(log) = 1)
  <2>1. Go(j, Idle) /\ status' = Ended(j) /\ UNCHANGED <<log, rows, checkpoint, trust>>
    BY <1>5 DEF GetBySequence
  <2>2. JobOK(Idle, Len(log)) BY DEF JobOK
  <2>. QED BY <1>1, <1>2, <1>3, <2>1, <2>2, EndedTyped, IdlePlaced, StaysStep
<1>6. CASE ~(from >= Len(log) \/ (NoCheckpoint(j) /\ Len(log) = 1)) /\ NoCheckpoint(j)
  <2>1. Throw(j) BY <1>6 DEF GetBySequence
  <2>. QED BY <1>2, <2>1, ThrowStep
<1>7. CASE ~(from >= Len(log) \/ (NoCheckpoint(j) /\ Len(log) = 1)) /\ ~NoCheckpoint(j)
  <2>1. Go(j, job) /\ UNCHANGED <<log, rows, checkpoint, status, trust>>
    BY <1>7 DEF GetBySequence
  <2>2. job = [phase |-> "event", kind |-> jobs[j].kind, process |-> jobs[j].process,
               next |-> from + 1, upTo |-> Len(log)]
    BY DEF At, NextAfter
  <2>3. from + 1 \in Nat /\ 1 <= from + 1 /\ from + 1 <= Len(log) /\ Len(log) <= Len(log)
    BY <1>3, <1>4, <1>7
  <2>. HIDE DEF job
  <2>4. JobOK(job, Len(log)) BY <1>3, <1>4, <2>2, <2>3, JobBuilt
  <2>5. job.phase = "event" /\ job.next = from + 1 BY <2>2
  <2>6. ASSUME trust # "none" PROVE Placed(job, log, rows, checkpoint)
    <3>1. \/ jobs[j].kind = "run" /\ from = checkpoint
          \/ jobs[j].kind = "rebuild" /\ from = 0 /\ checkpoint <= 1
      BY <1>1, <1>3, <2>6 DEF OneIs, Placed
    <3>2. \/ checkpoint >= 1 /\ job.next = checkpoint + 1
          \/ checkpoint <= 1 /\ job.next = 1
      BY <1>3, <1>7, <2>5, <3>1 DEF NoCheckpoint
    <3>. QED BY <2>5, <3>2 DEF Placed
  <2>. QED BY <1>1, <1>2, <1>3, <2>1, <2>4, <2>5, <2>6, StaysStep
<1>. QED BY <1>5, <1>6, <1>7

LEMMA CheckpointWritten ==
    ASSUME IInv, NEW j \in Jobs, UpdateCheckpoint(j)
    PROVE  IInv'
<1>. DEFINE n == jobs[j].next
            next == At(j, "event", n + 1, jobs[j].upTo)
            job == IF n = jobs[j].upTo THEN Idle ELSE next
            c == checkpoint
<1>1. /\ jobs[j].phase = "applied" \/ (jobs[j].phase = "event" /\ log[n].type = "Other")
      /\ checkpoint' = n
      /\ Go(j, job) /\ UNCHANGED <<log, rows, trust>>
      /\ status' = Ended(j) \/ status' = status
  BY DEF UpdateCheckpoint, Reached, Current
<1>2. Busy(j) /\ jobs[j].phase \in Taking BY <1>1 DEF Busy, Taking
<1>3. /\ Typed /\ Sane(log) /\ Len(log) \in Nat /\ RowsTyped(rows) /\ trust \in Trusts
      /\ c \in Nat /\ status \in [Processes -> Statuses] /\ JobOK(jobs[j], Len(log))
      /\ trust # "none" => Others(j) /\ OneIs(jobs[j], log, rows, c, trust)
  BY <1>2, Before DEF IInv
<1>4. /\ jobs[j].kind \in Kinds /\ jobs[j].process \in Processes
      /\ n \in Nat /\ jobs[j].upTo \in Nat /\ 1 <= n /\ n <= jobs[j].upTo
      /\ jobs[j].upTo <= Len(log) /\ n \in 1 .. Len(log)
  <2>1. jobs[j].phase # "idle" BY <1>2 DEF Busy
  <2>. QED BY <1>2, <1>3, <2>1, JobFacts
<1>5. /\ JobOK(job, Len(log)) /\ job.phase \in {"idle", "event"}
      /\ job.phase = "event" => job.next = n + 1
  <2>1. CASE n = jobs[j].upTo BY <2>1 DEF JobOK, Idle
  <2>2. CASE n # jobs[j].upTo
    <3>1. next = [phase |-> "event", kind |-> jobs[j].kind, process |-> jobs[j].process,
                  next |-> n + 1, upTo |-> jobs[j].upTo]
      BY DEF At
    <3>2. n + 1 \in Nat /\ 1 <= n + 1 /\ n + 1 <= jobs[j].upTo BY <1>4, <2>2
    <3>. HIDE DEF next
    <3>3. JobOK(next, Len(log)) BY <1>3, <1>4, <3>1, <3>2, JobBuilt
    <3>4. job = next BY <2>2
    <3>. QED BY <3>1, <3>3, <3>4
  <2>. QED BY <2>1, <2>2
<1>6. status' \in [Processes -> Statuses] BY <1>1, <1>3, EndedTyped
<1>. HIDE DEF job
<1>7. ShownBy(job, n) = n BY <1>4, <1>5 DEF ShownBy, Here
<1>8. Placed(job, log, rows, n) BY <1>4, <1>5 DEF Placed
<1>9. ASSUME trust # "none" PROVE OneIs(job, log, rows, n, trust)
  <2>1. OneIs(jobs[j], log, rows, c, trust) BY <1>3, <1>9
  <2>2. CASE jobs[j].phase = "applied"
    <3>1. ShownBy(jobs[j], c) = n BY <2>2 DEF ShownBy
    <3>. QED BY <1>5, <1>7, <1>8, <2>1, <2>2, <3>1 DEF OneIs
  <2>3. CASE jobs[j].phase = "event" /\ c <= 1 /\ n = 1
    <3>1. ShownBy(jobs[j], c) = n BY <1>3, <2>3 DEF ShownBy, Here
    <3>. QED BY <1>5, <1>7, <1>8, <2>1, <2>3, <3>1 DEF OneIs
  <2>4. CASE jobs[j].phase = "event" /\ c >= 1 /\ n = c + 1
    <3>1. log[n].type = "Other" BY <1>1, <2>4
    <3>2. ShownBy(jobs[j], c) = n - 1 /\ (n - 1) + 1 = n
      BY <1>3, <2>4 DEF ShownBy, Here
    <3>3. Effect(rows, rows, log[n], n)
      BY <3>1 DEF Effect, RowAfter, FileEvents
    <3>4. log[n].type \in Handled BY <3>1 DEF Handled
    <3>5. ASSUME trust = "exact" PROVE ExactIs(log, rows, n)
      <4>1. ExactIs(log, rows, n - 1) BY <2>1, <2>4, <3>2, <3>5 DEF OneIs
      <4>. QED BY <1>3, <1>4, <3>3, <3>4, <4>1, ExactStep
    <3>6. ASSUME trust = "as a set" PROVE SetIs(log, rows, n)
      <4>1. SetIs(log, rows, n - 1) \/ SetIs(log, rows, n)
        BY <2>1, <2>4, <3>2, <3>6 DEF OneIs
      <4>2. n - 1 \in {n - 1, n} /\ n \in {n - 1, n} OBVIOUS
      <4>3. CASE SetIs(log, rows, n - 1)
        BY <1>3, <1>4, <3>3, <4>2, <4>3, SetStep
      <4>4. CASE SetIs(log, rows, n) BY <4>4
      <4>. QED BY <4>1, <4>3, <4>4
    <3>. QED BY <1>7, <1>8, <3>5, <3>6 DEF OneIs
  <2>5. jobs[j].phase = "event" =>
            (c >= 1 /\ n = c + 1) \/ (c <= 1 /\ n = 1)
    BY <2>1 DEF OneIs, Placed
  <2>. QED BY <1>1, <2>2, <2>3, <2>4, <2>5
<1>10. n \in 0 .. Len(log) BY <1>4
<1>. QED BY <1>1, <1>3, <1>5, <1>6, <1>9, <1>10, Goes

LEMMA Started ==
    ASSUME IInv, NEW j \in Jobs, NEW job, Start(j, job), JobOK(job, Len(log)),
           job.phase \in {"starting", "truncating"}, status' \in [Processes -> Statuses]
    PROVE  IInv'
<1>1. /\ ~Busy(j) /\ Go(j, job) /\ UNCHANGED <<log, rows, checkpoint>>
      /\ trust' = IF \E i \in Jobs : Busy(i) THEN "none" ELSE trust
  BY DEF Start
<1>2. /\ Typed /\ RowsTyped(rows) /\ trust \in Trusts /\ checkpoint \in 0 .. Len(log)
      /\ jobs[j] = Idle
      /\ trust # "none" /\ (\A i \in Jobs : ~Busy(i)) =>
            Others(j) /\ OneIs(jobs[j], log, rows, checkpoint, trust)
  BY <1>1, Before DEF IInv
<1>3. trust' \in Trusts BY <1>1, <1>2 DEF Trusts
<1>4. ASSUME trust' # "none"
      PROVE  Others(j) /\ OneIs(job, log, rows, checkpoint, trust')
  <2>1. trust' = trust /\ \A i \in Jobs : ~Busy(i) BY <1>1, <1>4
  <2>2. Others(j) /\ OneIs(Idle, log, rows, checkpoint, trust) BY <1>2, <1>4, <2>1
  <2>3. ShownBy(job, checkpoint) = ShownBy(Idle, checkpoint) /\ Idle.phase = "idle"
    BY DEF ShownBy, Idle
  <2>4. Placed(job, log, rows, checkpoint) BY DEF Placed
  <2>. QED BY <2>1, <2>2, <2>3, <2>4 DEF OneIs
<1>. QED BY <1>1, <1>2, <1>3, <1>4, Goes

LEMMA RunStarted ==
    ASSUME IInv, NEW p \in Processes, NEW j \in Jobs, ProcessNewEvents(p, j)
    PROVE  IInv'
<1>1. /\ Start(j, [phase |-> "starting", kind |-> "run", process |-> p])
      /\ status' = status
  BY DEF ProcessNewEvents
<1>2. status \in [Processes -> Statuses] /\ Len(log) \in Nat BY Before
<1>3. JobOK([phase |-> "starting", kind |-> "run", process |-> p], Len(log)) BY DEF JobOK
<1>. QED BY <1>1, <1>2, <1>3, Started

LEMMA RebuildStarted ==
    ASSUME IInv, NEW p \in Processes, NEW j \in Jobs, Rebuild(p, j)
    PROVE  IInv'
<1>1. /\ Start(j, [phase |-> "truncating", kind |-> "rebuild", process |-> p])
      /\ status' = [status EXCEPT ![p] = "rebuilding"]
  BY DEF Rebuild
<1>2. status \in [Processes -> Statuses] /\ Len(log) \in Nat BY Before
<1>3. JobOK([phase |-> "truncating", kind |-> "rebuild", process |-> p], Len(log))
  BY DEF JobOK
<1>4. status' \in [Processes -> Statuses] BY <1>1, <1>2 DEF Statuses
<1>. QED BY <1>1, <1>3, <1>4, Started

\* A process that ends takes its jobs with it; where the table is trusted,
\* that is at most one.
LEMMA Restarted ==
    ASSUME IInv, NEW p \in Processes, Restart(p)
    PROVE  IInv'
<1>. DEFINE mine == {j \in Jobs : Busy(j) /\ jobs[j].process = p}
<1>1. /\ jobs' = [j \in Jobs |-> IF j \in mine THEN Idle ELSE jobs[j]]
      /\ trust' = IF \E j \in mine : Interrupted(j) = "none" THEN "none"
                  ELSE IF \E j \in mine : Interrupted(j) # trust THEN "as a set" ELSE trust
      /\ status' = [status EXCEPT ![p] = "running"]
      /\ UNCHANGED <<log, rows, checkpoint>>
  BY DEF Restart
<1>2. /\ Typed /\ Sane(log) /\ Len(log) \in Nat /\ checkpoint \in 0 .. Len(log)
      /\ checkpoint \in Nat
      /\ jobs = [j \in Jobs |-> jobs[j]] /\ \A j \in Jobs : JobOK(jobs[j], Len(log))
      /\ status \in [Processes -> Statuses] /\ trust \in Trusts
  <2>1. Typed /\ Sane(log) BY DEF IInv, Typed
  <2>2. Len(log) \in Nat BY <2>1, LogFacts
  <2>3. checkpoint \in 0 .. Len(log) BY <2>1 DEF Typed
  <2>4. checkpoint \in Nat BY <2>2, <2>3
  <2>5. jobs = [j \in Jobs |-> jobs[j]] /\ \A j \in Jobs : JobOK(jobs[j], Len(log))
    BY <2>1 DEF Typed
  <2>6. status \in [Processes -> Statuses] /\ trust \in Trusts
    BY <2>1 DEF Typed, Statuses, Trusts
  <2>. QED BY <2>1, <2>2, <2>3, <2>4, <2>5, <2>6
<1>3. mine \subseteq Jobs /\ \A j \in mine : Busy(j) OBVIOUS
<1>. HIDE DEF mine
<1>4. /\ jobs' = [j \in Jobs |-> jobs'[j]]
      /\ \A j \in Jobs : jobs'[j] = IF j \in mine THEN Idle ELSE jobs[j]
  BY <1>1
<1>5. \A j \in Jobs : JobOK(jobs'[j], Len(log)) BY <1>2, <1>4 DEF JobOK
<1>6. status' \in [Processes -> Statuses] BY <1>1, <1>2 DEF Statuses
<1>7. trust' \in Trusts BY <1>1, <1>2 DEF Trusts
<1>8. Typed' BY <1>1, <1>2, <1>4, <1>5, <1>6, <1>7 DEF Typed, Statuses, Trusts
<1>9. TableIn(jobs', log', rows', checkpoint', trust')
  <2>1. CASE mine = {}
    <3>1. trust' = trust /\ \A j \in Jobs : jobs'[j] = jobs[j] BY <1>1, <1>4, <2>1
    <3>2. jobs' = jobs BY <1>2, <1>4, <3>1
    <3>3. TableIn(jobs, log, rows, checkpoint, trust) BY TabledIs DEF IInv
    <3>. QED BY <1>1, <3>1, <3>2, <3>3
  <2>2. CASE trust' = "none" BY <2>2 DEF TableIn
  <2>3. CASE mine # {} /\ trust' # "none"
    <3>1. PICK j \in mine : TRUE BY <2>3
    <3>2. j \in Jobs /\ Busy(j) BY <1>3
    <3>3. Interrupted(j) # "none" BY <1>1, <2>3
    <3>4. /\ Interrupted(j) \in Trusts /\ trust # "none" /\ Others(j)
          /\ OneIs(Idle, log, rows, checkpoint, Interrupted(j))
      BY <3>2, <3>3, InterruptedIs
    <3>5. mine = {j}
      <4>1. \A i \in Jobs \ {j} : ~Busy(i) BY <3>4 DEF Others, Busy, Idle
      <4>. QED BY <1>3, <4>1
    <3>6. trust' = Interrupted(j)
      <4>1. Interrupted(j) = trust \/ Interrupted(j) = "as a set"
        BY <3>3 DEF Interrupted
      <4>. QED BY <1>1, <3>3, <3>5, <4>1
    <3>7. /\ \A i \in Jobs \ {j} : jobs'[i] = Idle
          /\ jobs'[j] = Idle
      BY <1>4, <3>2, <3>4, <3>5 DEF Others
    <3>8. jobs'[j].phase # "applied" BY <3>7 DEF Idle
    <3>. QED BY <1>1, <1>2, <3>2, <3>4, <3>6, <3>7, <3>8, OneTable
  <2>. QED BY <2>1, <2>2, <2>3
<1>10. Tabled' <=> TableIn(jobs', log', rows', checkpoint', trust')
  BY Zenon DEF Tabled, TableIn, BehindIn, ShownIn, EmptiedIn, Behind, Shown, Emptied, Alone, Busy
<1>. QED BY <1>8, <1>9, <1>10 DEF IInv

-----------------------------------------------------------------------------
(***************************************************************************)
(* The log grows.                                                          *)
(***************************************************************************)
LEMMA TablePrefix ==
    ASSUME NEW es \in Seq(LogEvent), NEW e \in LogEvent, NEW n \in 0 .. Len(es), NEW rs
    PROVE  /\ SetIs(Append(es, e), rs, n) <=> SetIs(es, rs, n)
           /\ ExactIs(Append(es, e), rs, n) <=> ExactIs(es, rs, n)
<1>. DEFINE fs == Append(es, e)
<1>1. \A w : /\ Created(fs, w, n) <=> Created(es, w, n)
             /\ About(fs, w, n) = About(es, w, n)
             /\ Changes(fs, w, n) = Changes(es, w, n)
             /\ FilesAt(fs, w, n) = FilesAt(es, w, n)
             /\ \A k \in About(es, w, n) : fs[k] = es[k]
  BY Prefix
<1>. HIDE DEF fs
<1>2. \A w : {k \in About(fs, w, n) : fs[k].type # "Other"}
                = {k \in About(es, w, n) : es[k].type # "Other"}
  BY <1>1
<1>3. SetIs(fs, rs, n) <=> SetIs(es, rs, n) BY <1>1 DEF SetIs
<1>4. ExactIs(fs, rs, n) <=> ExactIs(es, rs, n) BY <1>1, <1>2, <1>3 DEF ExactIs
<1>. QED BY <1>3, <1>4 DEF fs

LEMMA ShownRange ==
    ASSUME NEW n \in Nat \ {0}, NEW js, NEW c \in 0 .. n,
           \A j \in Jobs : JobOK(js[j], n),
           \A i, j \in Jobs : js[i].phase # "idle" /\ js[j].phase # "idle" => i = j
    PROVE  ShownIn(js, c) \in 1 .. n
<1>1. c \in Nat /\ n \in Nat /\ Here(c) \in 1 .. n BY DEF Here
<1>2. CASE BehindIn(js) = {} BY <1>1, <1>2, HereIs DEF ShownIn
<1>3. CASE BehindIn(js) # {}
  <2>1. PICK j \in Jobs : js[j].phase = "applied" BY <1>3 DEF BehindIn
  <2>2. \A i \in Jobs \ {j} : js[i].phase = "idle" BY <2>1
  <2>3. js[j].next \in 1 .. n /\ js[j].next \in Nat
    BY <1>1, <2>1, JobFacts DEF Taking
  <2>4. ShownIn(js, c) = ShownBy(js[j], c) BY <1>1, <2>2, <2>3, ShownInIs
  <2>. QED BY <2>1, <2>3, <2>4 DEF ShownBy
<1>. QED BY <1>2, <1>3

LEMMA SaneAppend ==
    ASSUME Sane(log), NEW e \in Event, Len(log) < MaxLog, Possible(e)
    PROVE  Sane(Append(log, e)) /\ e \in LogEvent
<1>. DEFINE es == Append(log, e)
            N == Len(log)
<1>1. /\ log \in Seq(LogEvent) /\ N \in Nat /\ N \in 1 .. MaxLog /\ DOMAIN log = 1 .. N
      /\ \A k \in 1 .. N : /\ log[k] \in LogEvent /\ log[k].ws \in Workspaces
                           /\ log[k].type \notin FileEvents => log[k].file = None
  BY LogFacts
<1>2. e \in LogEvent BY DEF LogEvent
<1>3. /\ es \in Seq(LogEvent) /\ Len(es) = N + 1 /\ DOMAIN es = 1 .. (N + 1)
      /\ \A k \in 1 .. N : es[k] = log[k]
      /\ es[N + 1] = e
  BY <1>1, <1>2, AppendProperties
<1>4. MaxLog \in Nat BY ProjectionAssumption
<1>5. e.ws \in Workspaces /\ (e.type \notin FileEvents => e.file = None)
  BY <1>2, EventFacts
<1>. HIDE DEF es, N
<1>6. Len(es) \in 1 .. MaxLog BY <1>1, <1>3, <1>4 DEF N
<1>7. es[1].type = "Other" BY <1>1, <1>3 DEF Sane
<1>8. e.type = "WorkspaceCreated" =>
         \A k \in 1 .. N : ~(log[k].type = "WorkspaceCreated" /\ log[k].ws = e.ws)
  <2>. SUFFICES ASSUME e.type = "WorkspaceCreated", NEW k \in 1 .. N,
                       log[k].type = "WorkspaceCreated", log[k].ws = e.ws
                PROVE  FALSE
    OBVIOUS
  <2>1. log[k].file = None BY <1>1 DEF FileEvents
  <2>2. Numbers("WorkspaceCreated", e.ws, None) = {} BY DEF Possible
  <2>. QED BY <1>1, <2>1, <2>2 DEF Numbers
<1>9. e.type = "FileUploaded" =>
         \A k \in 1 .. N : ~(log[k].type = "FileUploaded" /\ log[k].file = e.file)
  <2>. SUFFICES ASSUME e.type = "FileUploaded", NEW k \in 1 .. N,
                       log[k].type = "FileUploaded", log[k].file = e.file
                PROVE  FALSE
    OBVIOUS
  <2>1. \A ws \in Workspaces : Numbers("FileUploaded", ws, e.file) = {} BY DEF Possible
  <2>2. Numbers("FileUploaded", log[k].ws, e.file) = {} BY <1>1, <2>1
  <2>. QED BY <1>1, <2>2 DEF Numbers
<1>10. e.type \in {"FileModified", "FileDeleted"} =>
          \E i \in 1 .. N : /\ log[i].type = "FileUploaded" /\ log[i].file = e.file
                            /\ log[i].ws = e.ws
  <2>. SUFFICES ASSUME e.type \in {"FileModified", "FileDeleted"}
                PROVE  \E i \in 1 .. N : /\ log[i].type = "FileUploaded"
                                         /\ log[i].file = e.file /\ log[i].ws = e.ws
    OBVIOUS
  <2>1. Numbers("FileUploaded", e.ws, e.file) # {} BY DEF Possible
  <2>. QED BY <1>1, <2>1 DEF Numbers
<1>11. \A i, k \in 1 .. (N + 1) :
          es[i].type = "WorkspaceCreated" /\ es[k].type = "WorkspaceCreated"
              /\ es[i].ws = es[k].ws => i = k
  <2>1. \A i, k \in 1 .. N :
          log[i].type = "WorkspaceCreated" /\ log[k].type = "WorkspaceCreated"
              /\ log[i].ws = log[k].ws => i = k
    BY <1>1 DEF Sane
  <2>. QED BY <1>1, <1>3, <1>8, <2>1
<1>12. \A i, k \in 1 .. (N + 1) :
          es[i].type = "FileUploaded" /\ es[k].type = "FileUploaded"
              /\ es[i].file = es[k].file => i = k
  <2>1. \A i, k \in 1 .. N :
          log[i].type = "FileUploaded" /\ log[k].type = "FileUploaded"
              /\ log[i].file = log[k].file => i = k
    BY <1>1 DEF Sane
  <2>. QED BY <1>1, <1>3, <1>9, <2>1
<1>13. ASSUME NEW k \in 1 .. (N + 1), es[k].type \in {"FileModified", "FileDeleted"}
       PROVE  \E i \in 1 .. (N + 1) :
                 /\ i < k /\ es[i].type = "FileUploaded"
                 /\ es[i].file = es[k].file /\ es[i].ws = es[k].ws
  <2>1. CASE k = N + 1 BY <1>1, <1>3, <1>10, <1>13, <2>1
  <2>2. CASE k \in 1 .. N
    <3>1. \E i \in 1 .. N : /\ i < k /\ log[i].type = "FileUploaded"
                            /\ log[i].file = log[k].file /\ log[i].ws = log[k].ws
      BY <1>1, <1>3, <1>13, <2>2 DEF Sane
    <3>. QED BY <1>1, <1>3, <2>2, <3>1
  <2>. QED BY <1>1, <2>1, <2>2
<1>14. Sane(es)
  BY <1>3, <1>6, <1>7, <1>11, <1>12, <1>13 DEF Sane
<1>. QED BY <1>2, <1>14 DEF es

LEMMA JobGrows ==
    ASSUME NEW n \in Nat, NEW job, JobOK(job, n)
    PROVE  JobOK(job, n + 1)
<1>1. \A m \in Nat : m <= n => m <= n + 1 OBVIOUS
<1>. QED BY <1>1 DEF JobOK

LEMMA Appended ==
    ASSUME IInv, NEW e \in Event, AppendEvent(e)
    PROVE  IInv'
<1>. DEFINE es == Append(log, e)
            N == Len(log)
            s == ShownIn(jobs, checkpoint)
<1>1. /\ N < MaxLog /\ Possible(e) /\ log' = es
      /\ UNCHANGED <<rows, checkpoint, status, jobs, trust>>
  BY DEF AppendEvent
<1>2. Typed /\ Sane(log) /\ TableIn(jobs, log, rows, checkpoint, trust)
  BY TabledIs DEF IInv, Typed
<1>3. Sane(es) /\ e \in LogEvent BY <1>1, <1>2, SaneAppend
<1>4. log \in Seq(LogEvent) /\ N \in Nat \ {0} /\ DOMAIN log = 1 .. N BY <1>2, LogFacts
<1>5. Len(es) = N + 1 /\ \A k \in 1 .. N : es[k] = log[k]
  BY <1>3, <1>4, AppendProperties
<1>6. /\ DOMAIN rows \subseteq Workspaces /\ (\A w \in DOMAIN rows : rows[w] \in Row)
      /\ checkpoint \in 0 .. N
      /\ status \in [Processes -> {"running", "rebuilding", "error"}]
      /\ jobs = [j \in Jobs |-> jobs[j]] /\ (\A j \in Jobs : JobOK(jobs[j], N))
      /\ trust \in {"exact", "as a set", "none"}
  BY <1>2 DEF Typed
<1>7. \A n \in 0 .. N : /\ SetIs(es, rows, n) <=> SetIs(log, rows, n)
                        /\ ExactIs(es, rows, n) <=> ExactIs(log, rows, n)
  BY <1>3, <1>4, TablePrefix
<1>. HIDE DEF es, N
<1>8. \A j \in Jobs : JobOK(jobs[j], N + 1)
  <2>1. N \in Nat /\ \A j \in Jobs : JobOK(jobs[j], N) BY <1>4, <1>6
  <2>. QED BY <2>1, JobGrows
<1>9. checkpoint \in 0 .. (N + 1)
  <2>1. N \in Nat /\ checkpoint \in 0 .. N BY <1>4, <1>6
  <2>. QED BY <2>1
<1>10. Typed' BY <1>1, <1>3, <1>5, <1>6, <1>8, <1>9 DEF Typed
<1>11. ASSUME NEW j \in Jobs, Placed(jobs[j], log, rows, checkpoint)
       PROVE  Placed(jobs[j], es, rows, checkpoint)
  <2>1. jobs[j].phase = "writing" => es[jobs[j].next] = log[jobs[j].next]
    BY <1>4, <1>5, <1>6, JobFacts DEF Taking
  <2>. QED BY <1>11, <2>1 DEF Placed
<1>12. CASE trust = "none"
  <2>1. trust' = "none" BY <1>1, <1>12
  <2>2. Tabled' BY <2>1 DEF Tabled
  <2>. QED BY <1>10, <2>2 DEF IInv
<1>13. CASE trust # "none"
  <2>1. s \in 1 .. N BY <1>2, <1>4, <1>6, <1>13, ShownRange DEF TableIn
  <2>. HIDE DEF s
  <2>2. /\ SetIs(es, rows, s) <=> SetIs(log, rows, s)
        /\ ExactIs(es, rows, s) <=> ExactIs(log, rows, s)
    BY <1>4, <1>7, <2>1
  <2>3. s + 1 <= N => (SetIs(es, rows, s + 1) <=> SetIs(log, rows, s + 1)) /\ s + 1 <= N + 1
    BY <1>4, <1>7, <2>1
  <2>4. TableIn(jobs, es, rows, checkpoint, trust)
    <3>1. /\ \A i, j \in Jobs : jobs[i].phase # "idle" /\ jobs[j].phase # "idle" => i = j
          /\ \A j \in Jobs : Placed(jobs[j], es, rows, checkpoint)
      BY <1>2, <1>11, <1>13 DEF TableIn
    <3>2. trust = "exact" /\ ~EmptiedIn(jobs) => ExactIs(es, rows, s)
      BY <1>2, <2>2 DEF TableIn, s
    <3>3. trust = "as a set" /\ ~EmptiedIn(jobs) =>
             \/ SetIs(es, rows, s)
             \/ BehindIn(jobs) = {} /\ s + 1 <= Len(es) /\ SetIs(es, rows, s + 1)
      <4>1. trust = "as a set" /\ ~EmptiedIn(jobs) =>
             \/ SetIs(log, rows, s)
             \/ BehindIn(jobs) = {} /\ s + 1 <= N /\ SetIs(log, rows, s + 1)
        BY <1>2 DEF TableIn, s, N
      <4>. QED BY <1>5, <2>2, <2>3, <4>1
    <3>. QED BY <3>1, <3>2, <3>3 DEF TableIn, s
  <2>5. TableIn(jobs', log', rows', checkpoint', trust') BY <1>1, <2>4
  <2>6. Tabled' <=> TableIn(jobs', log', rows', checkpoint', trust')
    BY Zenon DEF Tabled, TableIn, BehindIn, ShownIn, EmptiedIn, Behind, Shown, Emptied, Alone, Busy
  <2>. QED BY <1>10, <2>5, <2>6 DEF IInv
<1>. QED BY <1>12, <1>13

-----------------------------------------------------------------------------
(***************************************************************************)
(* The theorems.                                                           *)
(***************************************************************************)
LEMMA Initially == Init => IInv
<1>. SUFFICES ASSUME Init PROVE IInv
  OBVIOUS
<1>1. PICK w \in Workspaces : log = <<Genesis(w)>> BY DEF Init
<1>2. /\ DOMAIN rows = {} /\ checkpoint \in {0, 1} /\ trust = "exact"
      /\ status \in [Processes -> {"running", "rebuilding", "error"}]
      /\ jobs = [j \in Jobs |-> Idle]
  BY DEF Init
<1>3. Genesis(w) \in LogEvent /\ Genesis(w).type = "Other" BY DEF LogEvent, Genesis
<1>4. /\ log \in Seq(LogEvent) /\ Len(log) = 1 /\ DOMAIN log = {1} /\ log[1] = Genesis(w)
  BY <1>1, <1>3
<1>5. Sane(log)
  <2>1. 1 \in 1 .. MaxLog BY ProjectionAssumption
  <2>2. \A i, k \in DOMAIN log : i = k BY <1>4
  <2>3. \A k \in DOMAIN log : log[k].type = "Other" BY <1>3, <1>4
  <2>. QED BY <1>3, <1>4, <2>1, <2>2, <2>3 DEF Sane
<1>6. \A j \in Jobs : jobs[j] = Idle BY <1>2
<1>7. Typed
  <2>1. \A j \in Jobs : JobOK(jobs[j], Len(log)) BY <1>6 DEF JobOK
  <2>2. checkpoint \in 0 .. Len(log) BY <1>2, <1>4
  <2>. QED BY <1>2, <1>5, <2>1, <2>2 DEF Typed
<1>8. Tabled
  <2>1. \A j \in Jobs : jobs[j].phase = "idle" BY <1>6 DEF Idle
  <2>2. Alone /\ Behind = {} BY <2>1 DEF Alone, Busy, Behind
  <2>3. \A j \in Jobs : Placed(jobs[j], log, rows, checkpoint) BY <2>1 DEF Placed
  <2>4. Shown = 1
    <3>1. checkpoint \in Nat BY <1>2
    <3>2. Max({checkpoint, 1}) = Here(checkpoint) BY <3>1, HereIs
    <3>. QED BY <1>2, <2>2, <3>2 DEF Shown, Here
  <2>5. ExactIs(log, rows, 1) BY <1>2, <1>5, EmptyTable
  <2>. QED BY <1>2, <2>2, <2>3, <2>4, <2>5 DEF Tabled
<1>. QED BY <1>7, <1>8 DEF IInv

LEMMA Stuttering == IInv /\ UNCHANGED vars => IInv'
<1>. SUFFICES ASSUME IInv, UNCHANGED vars PROVE IInv'
  OBVIOUS
<1>1. /\ log' = log /\ rows' = rows /\ checkpoint' = checkpoint /\ status' = status
      /\ jobs' = jobs /\ trust' = trust
  BY DEF vars
<1>2. Typed' BY <1>1 DEF IInv, Typed
<1>3. TableIn(jobs', log', rows', checkpoint', trust') BY <1>1, TabledIs DEF IInv
<1>4. Tabled' <=> TableIn(jobs', log', rows', checkpoint', trust')
  BY Zenon DEF Tabled, TableIn, BehindIn, ShownIn, EmptiedIn, Behind, Shown, Emptied, Alone, Busy
<1>. QED BY <1>2, <1>3, <1>4 DEF IInv

LEMMA Stepwise == IInv /\ [Next]_vars => IInv'
<1>. SUFFICES ASSUME IInv, [Next]_vars PROVE IInv'
  OBVIOUS
<1>1. ASSUME NEW j \in Jobs, JobStep(j) PROVE IInv'
  <2>1. CASE Truncate(j) BY <2>1, Truncated
  <2>2. CASE ResetCheckpoint(j) BY <2>2, CheckpointReset
  <2>3. CASE GetCheckpoint(j) BY <2>3, CheckpointRead
  <2>4. CASE GetBySequence(j) BY <2>4, RangeRead
  <2>5. CASE HandleWorkspaceCreated(j) BY <2>5, CreatedHandled
  <2>6. CASE HandleFunctionExecuted(j) BY <2>6, ExecutedHandled
  <2>7. CASE ReadRow(j) BY <2>7, RowRead
  <2>8. CASE WriteRow(j) BY <2>8, RowWritten
  <2>9. CASE UpdateCheckpoint(j) BY <2>9, CheckpointWritten
  <2>. QED BY <1>1, <2>1, <2>2, <2>3, <2>4, <2>5, <2>6, <2>7, <2>8, <2>9 DEF JobStep
<1>2. ASSUME NEW j \in Jobs, Fail(j) PROVE IInv'
  BY <1>2, ThrowStep DEF Fail
<1>3. ASSUME NEW p \in Processes, NEW j \in Jobs, ProcessNewEvents(p, j) PROVE IInv'
  BY <1>3, RunStarted
<1>4. ASSUME NEW p \in Processes, NEW j \in Jobs, Rebuild(p, j) PROVE IInv'
  BY <1>4, RebuildStarted
<1>5. ASSUME NEW p \in Processes, Restart(p) PROVE IInv'
  BY <1>5, Restarted
<1>6. ASSUME NEW e \in Event, AppendEvent(e) PROVE IInv'
  BY <1>6, Appended
<1>7. CASE UNCHANGED vars BY <1>7, Stuttering
<1>. QED BY <1>1, <1>2, <1>3, <1>4, <1>5, <1>6, <1>7 DEF Next

LEMMA Invariance == Spec => []IInv
BY Initially, Stepwise, PTL DEF Spec

LEMMA TypesFollow == IInv => TypeOK
<1>. SUFFICES ASSUME IInv PROVE TypeOK
  OBVIOUS
<1>1. /\ Sane(log) /\ DOMAIN rows \subseteq Workspaces /\ \A w \in DOMAIN rows : rows[w] \in Row
      /\ checkpoint \in 0 .. Len(log)
      /\ status \in [Processes -> {"running", "rebuilding", "error"}]
      /\ \A j \in Jobs : JobOK(jobs[j], Len(log))
  BY DEF IInv, Typed
<1>2. /\ log \in Seq(LogEvent) /\ Len(log) \in Nat /\ Len(log) \in 1 .. MaxLog
      /\ MaxLog \in Nat
  BY <1>1, LogFacts, ProjectionAssumption
<1>3. Len(log) <= MaxLog BY <1>2
<1>4. \A j \in Jobs : jobs[j].phase \in {"event", "writing", "applied"} =>
         1 <= jobs[j].next /\ jobs[j].next <= jobs[j].upTo /\ jobs[j].upTo <= Len(log)
  BY <1>1, <1>2, JobFacts DEF Taking
<1>. QED BY <1>1, <1>2, <1>3, <1>4 DEF TypeOK, LogEvent

\* The types hold in every state: whatever the jobs of all processes do to
\* one another, the rows are rows, the checkpoint is in the log, and so is
\* what a run has taken (processNewEvents, getBySequence).
THEOREM TypeCorrect == Spec => []TypeOK
BY Invariance, TypesFollow, PTL

LEMMA ExactFollows == IInv => FollowsLog
<1>. SUFFICES ASSUME IInv, trust = "exact", ~Emptied
              PROVE  /\ DOMAIN rows = {w \in Workspaces : Created(log, w, Shown)}
                     /\ \A w \in DOMAIN rows : RowIsAt(w, Shown)
  BY DEF FollowsLog
<1>1. ExactIs(log, rows, Shown) BY DEF IInv, Tabled
<1>2. ASSUME NEW w \in DOMAIN rows PROVE RowIsAt(w, Shown)
  <2>1. /\ ToSet(rows[w].files) = FilesAt(log, w, Shown) /\ Distinct(rows[w].files)
        /\ rows[w].version = Ones[1 + Cardinality(Changes(log, w, Shown))]
        /\ rows[w].activity = Max({k \in About(log, w, Shown) : log[k].type # "Other"})
    BY <1>1 DEF ExactIs, SetIs
  <2>2. rows[w].files \in Seq(FileEntry) BY RowIs DEF IInv, Typed
  <2>3. Len(rows[w].files) = Cardinality(ToSet(rows[w].files)) BY <2>1, <2>2, DistinctCount
  <2>. QED BY <2>1, <2>3 DEF RowIsAt
<1>. QED BY <1>1, <1>2 DEF ExactIs, SetIs

\* As long as jobs do not overlap and none ends between an event and its
\* checkpoint, the table of WorkspaceProjection is what the log says up to the
\* checkpoint: a row for every workspace created by then, with its files, each
\* once, its last activity, and a version that has a digit for every change.
THEOREM FollowsLogHolds == Spec => []FollowsLog
BY Invariance, ExactFollows, PTL

LEMMA SetFollows == IInv => FilesFollowLog
<1>. SUFFICES ASSUME IInv, trust # "none", ~Emptied, NEW w \in Workspaces
              PROVE  IF w \in DOMAIN rows
                     THEN \E n \in {Shown, Min({Shown + 1, Len(log)})} :
                             ToSet(rows[w].files) = FilesAt(log, w, n)
                     ELSE ~Created(log, w, Shown)
  BY DEF FilesFollowLog
<1>0. Typed /\ Tabled BY DEF IInv
<1>1. /\ Sane(log) /\ trust \in {"exact", "as a set", "none"} /\ checkpoint \in 0 .. Len(log)
      /\ \A j \in Jobs : JobOK(jobs[j], Len(log))
  <2>1. Sane(log) BY <1>0 DEF Typed
  <2>2. trust \in {"exact", "as a set", "none"} BY <1>0 DEF Typed
  <2>3. checkpoint \in 0 .. Len(log) BY <1>0 DEF Typed
  <2>4. \A j \in Jobs : JobOK(jobs[j], Len(log)) BY <1>0 DEF Typed
  <2>. QED BY <2>1, <2>2, <2>3, <2>4
<1>2. Len(log) \in Nat \ {0}
  <2>1. Len(log) \in Nat /\ Len(log) \in 1 .. MaxLog /\ MaxLog \in Nat
    BY <1>1, LogFacts, ProjectionAssumption
  <2>. QED BY <2>1
<1>3. Shown \in 1 .. Len(log)
  <2>1. Shown = ShownIn(jobs, checkpoint)
    BY Zenon DEF Shown, ShownIn, Behind, BehindIn
  <2>2. \A i, j \in Jobs : jobs[i].phase # "idle" /\ jobs[j].phase # "idle" => i = j
    BY <1>0 DEF Tabled, Alone, Busy
  <2>. QED BY <1>1, <1>2, <2>1, <2>2, ShownRange
<1>4. \/ SetIs(log, rows, Shown)
      \/ Shown + 1 <= Len(log) /\ SetIs(log, rows, Shown + 1)
  BY <1>0, <1>1 DEF Tabled, ExactIs
<1>. DEFINE s == Shown
<1>5. s \in 1 .. Len(log) BY <1>3
<1>6. CASE SetIs(log, rows, s)
  BY <1>6 DEF SetIs
<1>7. CASE s + 1 <= Len(log) /\ SetIs(log, rows, s + 1)
  <2>. HIDE DEF s
  <2>1. s + 1 \in Nat /\ s \in Nat BY <1>2, <1>5
  <2>2. Min({s + 1, Len(log)}) = s + 1 BY <1>2, <1>7, <2>1, MinPair
  <2>3. Created(log, w, s) => Created(log, w, s + 1) BY <2>1 DEF Created
  <2>. QED BY <1>7, <2>2, <2>3 DEF SetIs, s
<1>. QED BY <1>4, <1>6, <1>7

\* As long as jobs do not overlap, wherever they end: every workspace that is
\* created has its row and no other, with the files that uploads, changes and
\* deletions leave, though an event may have been applied twice.
THEOREM FilesFollowLogHolds == Spec => []FilesFollowLog
BY Invariance, SetFollows, PTL

=============================================================================
