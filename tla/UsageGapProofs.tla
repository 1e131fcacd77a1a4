---------------------------- MODULE UsageGapProofs ----------------------------
(***************************************************************************)
(* No gap between what the incremental synchronization has stored and      *)
(* where the backfill goes on: NoGap of UsageSync for any accounts,        *)
(* workspaces, sessions, page size and caps, with and without Faults.      *)
(***************************************************************************)
EXTENDS UsageSyncProofs

USE SyncAssumption

Stored == SUBSET (Space \X Nat)

-------------------------------------------------------------------------------
(* What the list of a workspace, m records long now, has to do with a set  *)
(* of stored ones.                                                         *)

(* Every record of s above the c-th is in K or newer than all of S.        *)
Above(s, m, K, S, c) ==
    \A i \in 1..m : i > c => \/ <<s, i>> \in K
                             \/ \A q \in S : q[1] = s => q[2] < i

(* The records that were d to d + PageSize - 1 from the newest when the    *)
(* list was m long.                                                        *)
PageWhen(s, d, m) ==
    {r \in {s} \X (1..m) : d <= m - r[2] /\ m - r[2] < d + PageSize}

(* How far from the newest page p begins.                                  *)
From(p) == p * PageSize

LEMMA FromTyped ==
    ASSUME NEW p \in Nat
    PROVE  From(p) \in Nat /\ From(p + 1) = From(p) + PageSize /\ From(0) = 0
  BY DEF From

LEMMA PageIsPageWhen ==
    ASSUME Upstream, NEW s \in Space, NEW p \in Nat
    PROVE  Page(s, p) = PageWhen(s, From(p), made[s])
<1>1. made[s] \in Nat /\ (p + 1) * PageSize = From(p) + PageSize
  BY FromTyped DEF Upstream, From
<1>2. \A r \in {s} \X (1..made[s]) : Depth(r) = made[s] - r[2]
  BY DEF Depth
<1> QED BY <1>1, <1>2 DEF Page, PageWhen, From

(* More is above a higher record, of a longer list.                        *)
LEMMA AboveLess ==
    ASSUME NEW s, NEW m \in Nat, NEW K, NEW S, NEW c \in Int, NEW e \in Int,
           c <= e, Above(s, m, K, S, c)
    PROVE  Above(s, m, K, S, e)
  BY DEF Above

LEMMA AboveLonger ==
    ASSUME NEW s \in Space, NEW m \in Nat, NEW m1 \in Nat, m <= m1,
           NEW K, NEW S \in Stored, \A q \in S : q[1] = s => q[2] <= m,
           NEW c \in Int, Above(s, m, K, S, c)
    PROVE  Above(s, m1, K, S, c)
<1> SUFFICES ASSUME NEW i \in 1..m1, i > c, <<s, i>> \notin K,
                    NEW q \in S, q[1] = s
             PROVE  q[2] < i
  BY DEF Above
<1>1. q[2] \in Nat /\ q[2] <= m
  BY DEF Stored
<1>2. CASE i \in 1..m
  BY <1>2 DEF Above
<1>3. CASE i \notin 1..m
  BY <1>1, <1>3
<1> QED BY <1>2, <1>3

(* To store a page whose records lie just below what is covered.           *)
LEMMA AbovePage ==
    ASSUME NEW s \in Space, NEW m \in Nat, NEW k \in 0..m, NEW d \in Nat,
           NEW K \in Stored, Above(s, m, K, K, k - d)
    PROVE  LET L == K \cup PageWhen(s, d, k)
           IN  Above(s, m, L, L, k - d - PageSize)
<1> DEFINE L == K \cup PageWhen(s, d, k)
<1> SUFFICES ASSUME NEW i \in 1..m, i > k - d - PageSize, <<s, i>> \notin L,
                    NEW q \in L, q[1] = s
             PROVE  q[2] < i
  BY DEF Above
<1>1. i > k - d
  <2> SUFFICES ASSUME i <= k - d PROVE FALSE
    OBVIOUS
  <2>1. i \in 1..k /\ d <= k - i /\ k - i < d + PageSize
    OBVIOUS
  <2>2. <<s, i>> \in PageWhen(s, d, k)
    BY <2>1 DEF PageWhen
  <2> QED BY <2>2
<1>2. CASE q \in K
  BY <1>1, <1>2 DEF Above
<1>3. CASE q \in PageWhen(s, d, k)
  <2>1. q[2] \in 1..k /\ d <= k - q[2]
    BY <1>3 DEF PageWhen
  <2> QED BY <1>1, <2>1
<1> QED BY <1>2, <1>3

(* A short page is the last.                                               *)
LEMMA ShortIsLast ==
    ASSUME NEW s \in Space, NEW k \in Nat, NEW d \in Nat,
           Cardinality(PageWhen(s, d, k)) < PageSize
    PROVE  k - d - PageSize < 0
<1> SUFFICES ASSUME k >= d + PageSize PROVE Cardinality(PageWhen(s, d, k)) = PageSize
  <2>1. PageSize \in Nat /\ ~(PageSize < PageSize)
    OBVIOUS
  <2> QED BY <2>1
<1> DEFINE a == k - d - PageSize + 1
           b == k - d
           f == [i \in a..b |-> <<s, i>>]
<1>1. a \in Nat /\ b \in Nat /\ a <= b /\ b - a + 1 = PageSize
  OBVIOUS
<1>2. IsFiniteSet(a..b) /\ Cardinality(a..b) = PageSize
  <2>1. a \in Int /\ b \in Int /\ a <= b /\ b - a + 1 = PageSize
    BY <1>1
  <2> HIDE DEF a, b
  <2>2. /\ IsFiniteSet(a..b)
        /\ Cardinality(a..b) = IF a > b THEN 0 ELSE b - a + 1
    BY <2>1, FS_Interval, Zenon
  <2> QED BY <2>1, <2>2
<1>3. f \in Bijection(a..b, PageWhen(s, d, k))
  <2>1. \A i \in a..b : <<s, i>> \in PageWhen(s, d, k)
    <3> SUFFICES ASSUME NEW i \in a..b PROVE <<s, i>> \in PageWhen(s, d, k)
      OBVIOUS
    <3>1. i \in 1..k /\ d <= k - i /\ k - i < d + PageSize
      OBVIOUS
    <3> QED BY <3>1 DEF PageWhen
  <2>2. \A r \in PageWhen(s, d, k) : r[2] \in a..b /\ r = <<s, r[2]>>
    BY DEF PageWhen
  <2> HIDE DEF a, b
  <2>3. f \in [a..b -> PageWhen(s, d, k)]
    BY <2>1
  <2>4. \A i, j \in a..b : f[i] = f[j] => i = j
    OBVIOUS
  <2>5. \A r \in PageWhen(s, d, k) : \E i \in a..b : f[i] = r
    BY <2>2
  <2> QED BY <2>3, <2>4, <2>5 DEF Bijection, Injection, Surjection, IsInjective
<1>4. Cardinality(PageWhen(s, d, k)) = Cardinality(a..b)
  <2> HIDE DEF a, b, f
  <2> QED BY <1>2, <1>3, FS_Bijection DEF ExistsBijection
<1> QED BY <1>2, <1>4

(* A page that is empty lies beyond the end.                               *)
LEMMA EmptyIsBeyond ==
    ASSUME NEW s \in Space, NEW m \in Nat, NEW d \in Nat, PageWhen(s, d, m) = {}
    PROVE  m <= d
<1> SUFFICES ASSUME m > d PROVE FALSE
  OBVIOUS
<1>1. m - d \in 1..m /\ d <= m - (m - d) /\ m - (m - d) < d + PageSize
  OBVIOUS
<1>2. <<s, m - d>> \in PageWhen(s, d, m)
  BY <1>1 DEF PageWhen
<1> QED BY <1>2

(* To meet a record B has already: what was covered down to B and what is  *)
(* covered down to that record make one.                                   *)
LEMMA AboveMeets ==
    ASSUME NEW s \in Space, NEW m \in Nat, NEW c \in Int, NEW e \in Int,
           NEW K \in Stored, NEW L \in Stored, K \subseteq L, NEW B \in Stored,
           Above(s, m, K, B, c), Above(s, m, L, L, e),
           NEW x \in B, x[1] = s, x[2] > e
    PROVE  Above(s, m, L, L, c)
<1> SUFFICES ASSUME NEW i \in 1..m, i > c, <<s, i>> \notin L,
                    NEW q \in L, q[1] = s
             PROVE  q[2] < i
  BY DEF Above
<1>1. x[2] \in Nat /\ x[2] < i
  BY DEF Above, Stored
<1>2. i > e
  BY <1>1
<1> QED BY <1>2 DEF Above

-------------------------------------------------------------------------------
(* What the session that holds the lease knows of its account: at label l, *)
(* with call n, when the list of its workspace is m records long, K is     *)
(* what the account has stored, d its watermark and w its walk.            *)

(* An incremental walk has stored nothing before its first page; after it, *)
(* what was covered before the walk is still covered with respect to what  *)
(* was stored before it.                                                   *)
Begun(n, m, K, d, w) ==
    /\ n.page = 0 => n.before = K
    /\ n.page > 0 => w # "whole"
    /\ n.page > 0 /\ w = "paging" =>
          /\ n.before \subseteq K
          /\ Above(n.row.space, m, K, n.before, m - From(StartPage(d)))

(* Everything down to the page the session is at is covered.               *)
Contiguous(n, w) ==
    IF n.kind = "sync" THEN n.page = 0 \/ w = "paging" ELSE w = "whole"

(* The page was fetched when the list was k records long.                  *)
Fetched(n, m, K, w) ==
    \E k \in 0..m :
        /\ n.records = PageWhen(n.row.space, From(n.page), k)
        /\ Contiguous(n, w) => Above(n.row.space, m, K, K, k - From(n.page))

(* The page and everything above it is covered.                            *)
Down(n, m, K) == Above(n.row.space, m, K, K, m - From(n.page + 1))

Claim(l, n, m, K, d, w) ==
    /\ l \in {"resolving", "recording"} => n.page = 0
    /\ l \in Walking /\ n.kind = "backfill" => n.page = StartPage(d)
    /\ l \in {"inflight", "checked"} /\ n.kind = "sync" => Begun(n, m, K, d, w)
    /\ l = "inflight" /\ n.kind = "sync" /\ n.page > 0 /\ w = "paging"
          => Above(n.row.space, m, K, K, m - From(n.page))
    /\ l = "checked" => Fetched(n, m, K, w)
    /\ l = "marking" => n.kind = "backfill" /\ (w = "whole" => Down(n, m, K))
    /\ l = "reading" => n.kind = "sync"
    /\ l \in {"counting", "reading"} /\ n.kind = "sync" /\ n.some /\ w = "whole"
          => Down(n, m, K)
    /\ l = "writing" /\ n.kind = "sync" /\ w = "whole"
          => Above(n.row.space, m, K, K, m - From(StartPage(n.deepest)))

Telling == Walking \cup {"resolving", "recording", "counting", "reading", "writing"}

LEMMA SilentClaim ==
    ASSUME NEW l, l \notin Telling, NEW n, NEW m, NEW K, NEW d, NEW w
    PROVE  Claim(l, n, m, K, d, w)
  BY DEF Claim, Telling, Walking

(* New records take nothing from it.                                       *)
LEMMA ClaimLonger ==
    ASSUME NEW l, NEW n \in Run, n.row.space \in Space, NEW m \in Nat, NEW m1 \in Nat,
           m <= m1, NEW K \in Stored, \A q \in K : q[1] = n.row.space => q[2] <= m,
           NEW d \in Nat \cup {-1}, NEW w, Claim(l, n, m, K, d, w)
    PROVE  Claim(l, n, m1, K, d, w)
<1> DEFINE s == n.row.space
<1>0. /\ n.page \in Nat /\ n.deepest \in Nat \cup {-1}
      /\ From(n.page) \in Nat /\ From(n.page + 1) \in Nat
      /\ From(StartPage(d)) \in Nat /\ From(StartPage(n.deepest)) \in Nat
  <2>1. n.page \in Nat /\ n.deepest \in Nat \cup {-1}
    BY DEF Run
  <2> QED BY <2>1, FromTyped, StartPageTyped
<1>1. ASSUME NEW S \in Stored, S \subseteq K, NEW c \in Int, NEW e \in Int, c <= e,
             Above(s, m, K, S, c)
      PROVE  Above(s, m1, K, S, e)
  <2>1. Above(s, m, K, S, e)
    BY <1>1, AboveLess
  <2> QED BY <1>1, <2>1, AboveLonger
<1> HIDE DEF s
<1>2. ASSUME NEW S \in Stored, S \subseteq K, NEW b \in Nat, Above(s, m, K, S, m - b)
      PROVE  Above(s, m1, K, S, m1 - b)
  <2>1. m - b \in Int /\ m1 - b \in Int /\ m - b <= m1 - b
    OBVIOUS
  <2> QED BY <1>1, <1>2, <2>1
<1>3. l \in {"inflight", "checked"} /\ n.kind = "sync" => Begun(n, m1, K, d, w)
  <2> SUFFICES ASSUME Begun(n, m, K, d, w) PROVE Begun(n, m1, K, d, w)
    BY DEF Claim
  <2>1. n.before \subseteq K /\ Above(s, m, K, n.before, m - From(StartPage(d)))
           => Above(s, m1, K, n.before, m1 - From(StartPage(d)))
    <3>1. n.before \subseteq K => n.before \in Stored
      BY DEF Stored
    <3> QED BY <1>0, <1>2, <3>1
  <2> QED BY <2>1 DEF Begun, s
<1>4. l = "checked" => Fetched(n, m1, K, w)
  <2> SUFFICES ASSUME Fetched(n, m, K, w) PROVE Fetched(n, m1, K, w)
    BY DEF Claim
  <2>1. PICK k \in 0..m :
            /\ n.records = PageWhen(s, From(n.page), k)
            /\ Contiguous(n, w) => Above(s, m, K, K, k - From(n.page))
    BY DEF Fetched, s
  <2>2. k \in 0..m1 /\ k - From(n.page) \in Int
    BY <1>0
  <2>3. Contiguous(n, w) => Above(s, m1, K, K, k - From(n.page))
    BY <1>1, <2>1, <2>2
  <2> QED BY <2>1, <2>2, <2>3 DEF Fetched, s
<1>5. Down(n, m, K) => Down(n, m1, K)
  BY <1>0, <1>2 DEF Down, s
<1>6. /\ Above(s, m, K, K, m - From(n.page)) => Above(s, m1, K, K, m1 - From(n.page))
      /\ Above(s, m, K, K, m - From(StartPage(n.deepest)))
             => Above(s, m1, K, K, m1 - From(StartPage(n.deepest)))
  BY <1>0, <1>2
<1> QED BY <1>3, <1>4, <1>5, <1>6 DEF Claim, s

(* The page of a backfill is stored.                                       *)
LEMMA StoreEarlier ==
    ASSUME NEW n \in Run, n.row.space \in Space, NEW m \in Nat, NEW K \in Stored,
           NEW w, Fetched(n, m, K, w), Contiguous(n, w)
    PROVE  Down(n, m, K \cup n.records)
<1> DEFINE s == n.row.space
           p == From(n.page)
<1>1. PICK k \in 0..m : /\ n.records = PageWhen(s, p, k)
                        /\ Above(s, m, K, K, k - p)
  BY DEF Fetched
<1>2. p \in Nat /\ From(n.page + 1) = p + PageSize
  BY FromTyped DEF Run
<1> DEFINE L == K \cup n.records
<1>3. Above(s, m, L, L, k - p - PageSize)
  BY <1>1, <1>2, AbovePage
<1>4. k - p - PageSize \in Int /\ m - (p + PageSize) \in Int
      /\ k - p - PageSize <= m - (p + PageSize)
  BY <1>2
<1> HIDE DEF s, p, L
<1>5. Above(s, m, L, L, m - (p + PageSize))
  BY <1>3, <1>4, AboveLess
<1> QED BY <1>2, <1>5 DEF Down, s, L

(* The page of an incremental walk is stored: the walk goes on, or it has  *)
(* come to its end.                                                        *)
LEMMA StoreNewest ==
    ASSUME NEW n \in Run, n.row.space \in Space, n.kind = "sync",
           \A r \in n.records : r[1] = n.row.space,
           NEW m \in Nat, NEW K \in Stored, NEW d \in Nat \cup {-1},
           NEW w \in {"whole", "paging"}, n.page = 0 => w = "whole",
           Fetched(n, m, K, w), Begun(n, m, K, d, w),
           w = "whole" => Above(n.row.space, m, K, K, m - From(StartPage(d)))
    PROVE  LET L == K \cup n.records
               c == m - From(StartPage(d))
           IN  /\ n.before \subseteq K
               /\ Down(n, m, L)
               /\ Above(n.row.space, m, L, n.before, c)
               /\ Cardinality(n.records) < PageSize \/ n.records \cap n.before # {}
                     => Above(n.row.space, m, L, L, c)
<1> DEFINE s == n.row.space
           p == From(n.page)
           L == K \cup n.records
           c == m - From(StartPage(d))
<1>0. n.page \in Nat /\ p \in Nat /\ From(n.page + 1) = p + PageSize
      /\ From(StartPage(d)) \in Nat /\ c \in Int
  <2>1. n.page \in Nat
    BY DEF Run
  <2> QED BY <2>1, FromTyped, StartPageTyped
<1>1. Contiguous(n, w) /\ n.before \subseteq K /\ Above(s, m, K, n.before, c)
  BY <1>0 DEF Begun, Contiguous
<1>2. PICK k \in 0..m : n.records = PageWhen(s, p, k) /\ Above(s, m, K, K, k - p)
  BY <1>1 DEF Fetched
<1> DEFINE e == k - p - PageSize
<1>3. e \in Int /\ Above(s, m, L, L, e)
  BY <1>0, <1>2, AbovePage
<1>4. L \in Stored /\ n.before \in Stored
  BY <1>1, <1>2 DEF Stored, PageWhen
<1>5. Down(n, m, L)
  BY <1>1, StoreEarlier
<1>6. Above(s, m, L, n.before, c)
  BY <1>1 DEF Above
<1>7. CASE Cardinality(n.records) < PageSize
  <2>1. e < 0
    BY <1>0, <1>2, <1>7, ShortIsLast
  <2> QED BY <1>1, <1>3, <1>5, <1>6, <2>1 DEF Above
<1>8. CASE n.records \cap n.before # {}
  <2>1. PICK x \in n.before : x \in n.records
    BY <1>8
  <2>2. x[1] = s /\ x[2] > e
    BY <1>0, <1>2, <2>1 DEF PageWhen
  <2> HIDE DEF s, L, c, e
  <2>3. K \subseteq L /\ s \in Space
    BY DEF L, s
  <2>4. Above(s, m, L, L, c)
    BY <1>0, <1>1, <1>3, <1>4, <2>2, <2>3, AboveMeets
  <2> QED BY <1>1, <1>5, <1>6, <2>4 DEF s, L, c
<1> QED BY <1>1, <1>5, <1>6, <1>7, <1>8

-------------------------------------------------------------------------------
(* The inductive invariant.                                                *)

(* What is stored is on the list.                                          *)
Existing == \A a \in Account : \A q \in stored[a] : q[2] <= made[q[1]]

WholeAt(a) ==
    LET s == acct[a].space
    IN  Live(a) /\ walk[a] = "whole" =>
            Above(s, made[s], stored[a], stored[a],
                  made[s] - From(StartPage(sync[a].deepest)))
WholeCovered == \A a \in Account : WholeAt(a)

ClaimOf(l, n) == Claim(l, n, made[n.row.space], stored[n.row.id],
                       sync[n.row.id].deepest, walk[n.row.id])

Mine(o) == holder = o /\ run[o].row \in Row /\ SourceUnchanged(run[o].row)
HolderWalks == \A o \in Owner : Mine(o) => ClaimOf(pc[o], run[o])

GInv == IInv /\ Existing /\ WholeCovered /\ HolderWalks

LEMMA GapParts ==
    ASSUME GInv
    PROVE  /\ Upstream /\ Tables /\ Sessions /\ AllSound
           /\ \A a \in Account : /\ stored[a] \in Stored
                                 /\ sync[a].deepest \in Nat \cup {-1}
                                 /\ acct[a].space \in Space
                                 /\ walk[a] \in {"whole", "paging", "torn"}
           /\ \A s \in Space : made[s] \in Nat
<1>1. Upstream /\ Tables /\ Sessions /\ AllSound
  BY TypeParts DEF GInv, IInv
<1>2. Record \subseteq Space \X Nat
  BY DEF Record
<1> QED BY <1>1, <1>2 DEF Tables, Accounts, Syncs, Upstream, Stored

(* The row of a session whose writes are accepted is that of its account.  *)
LEMMA MineFits ==
    ASSUME GInv, NEW w \in Row, RowFits(w), SourceUnchanged(w)
    PROVE  /\ w.id \in Account /\ w.space \in Space
           /\ acct[w.id].space = w.space /\ Live(w.id)
  BY DEF Row, RowFits, SourceUnchanged, Enabled

(* Where a call begins.                                                    *)
LEMMA EnterWalks ==
    ASSUME GInv, NEW o \in Owner, NEW r \in Run, r.row \in Row, r.page = 0,
           EnterPages(o, r), UNCHANGED <<made, stored, sync, walk>>
    PROVE  ClaimOf(pc[o], run[o])'
<1> DEFINE d == sync[r.row.id].deepest
           K == stored[r.row.id]
           n == [r EXCEPT !.page = StartPage(d)]
           m == [r EXCEPT !.before = K]
<1>0. Tables /\ Sessions /\ d \in Nat \cup {-1} /\ r.row.id \in Account
  BY GapParts DEF Row
<1>1. pc'[o] = "inflight" /\ run'[o] = IF r.kind = "sync" THEN m ELSE n
  BY <1>0 DEF EnterPages, Goto, Sessions
<1>2. /\ m.kind = r.kind /\ m.page = 0 /\ m.before = K /\ m.row = r.row
      /\ n.kind = r.kind /\ n.row = r.row /\ n.page = StartPage(d)
  BY DEF Run
<1> HIDE DEF n, m
<1>3. CASE r.kind = "sync"
  <2>1. run'[o] = m
    BY <1>1, <1>3
  <2>2. stored'[m.row.id] = K
    BY <1>2
  <2>3. \A mm, dd, ww : Claim("inflight", m, mm, K, dd, ww)
    BY <1>2, <1>3 DEF Claim, Begun, Walking
  <2> HIDE DEF K, d
  <2> QED BY <1>1, <2>1, <2>2, <2>3 DEF ClaimOf
<1>4. CASE r.kind # "sync"
  <2>1. run'[o] = n
    BY <1>1, <1>4
  <2>2. sync'[n.row.id].deepest = d
    BY <1>2
  <2>3. \A mm, kk, ww : Claim("inflight", n, mm, kk, d, ww)
    BY <1>2, <1>4 DEF Claim, Walking
  <2> HIDE DEF K, d
  <2> QED BY <1>1, <2>1, <2>2, <2>3 DEF ClaimOf
<1> QED BY <1>3, <1>4

LEMMA SilentWalks ==
    ASSUME Sessions, NEW o \in Owner, NEW l \in Pc \ Telling, pc' = [pc EXCEPT ![o] = l]
    PROVE  ClaimOf(pc[o], run[o])'
<1>1. pc'[o] = l
  BY DEF Sessions
<1> QED BY <1>1, SilentClaim DEF ClaimOf

LEMMA CallWalks ==
    ASSUME GInv, NEW o \in Owner, NEW a \in Account, Live(a),
           NEW kind \in {"sync", "backfill"}, NEW pages \in Nat \ {0},
           Call(o, a, kind, pages), UNCHANGED <<made, stored, sync, walk>>
    PROVE  ClaimOf(pc[o], run[o])'
<1> DEFINE r == [NoRun EXCEPT !.row = RowOf(a), !.kind = kind, !.left = pages]
<1>0. Tables /\ Sessions
  BY GapParts
<1>1. RowOf(a) \in Row
  BY <1>0, RowTyped
<1>2. r \in Run /\ r.row = RowOf(a) /\ r.page = 0
  BY <1>1 DEF NoRun, Run
<1>3. \/ pc' = [pc EXCEPT ![o] = "resolving"] /\ run' = [run EXCEPT ![o] = r]
      \/ EnterPages(o, r)
  BY DEF Call, Goto
<1> HIDE DEF r
<1>4. CASE EnterPages(o, r)
  BY <1>1, <1>2, <1>4, EnterWalks
<1>5. CASE pc' = [pc EXCEPT ![o] = "resolving"] /\ run' = [run EXCEPT ![o] = r]
  <2>1. pc'[o] = "resolving" /\ run'[o] = r
    BY <1>0, <1>5 DEF Sessions
  <2>2. \A mm, kk, dd, ww : Claim("resolving", r, mm, kk, dd, ww)
    BY <1>2 DEF Claim, Walking
  <2> QED BY <2>1, <2>2 DEF ClaimOf
<1> QED BY <1>3, <1>4, <1>5

(* A page is in: what it means for the walk.                               *)
LEMMA AnswerWalks ==
    ASSUME GInv, NEW o \in Owner, Answer(o)
    PROVE  /\ ClaimOf(pc[o], run[o])'
           /\ \A a \in Account :
                 \/ walk'[a] = walk[a]
                 \/ /\ Live(a) /\ walk'[a] = "whole"
                    /\ LET s == acct[a].space
                       IN  Above(s, made[s], stored[a], stored[a], 0)
<1>0. Sessions /\ Upstream /\ Tables /\ pc[o] = "inflight" /\ holder = o
      /\ UNCHANGED <<made, acct, stored, sync>>
  BY GapParts DEF Answer
<1>r. run[o] \in Run /\ run[o].row \in Row /\ RowFits(run[o].row)
  BY <1>0, GapParts, WriterHasRow DEF Busy, Checking
<1>c. ASSUME EndCall(o) PROVE ClaimOf(pc[o], run[o])'
  <2>1. PICK l \in {"next", "releasing"} : pc' = [pc EXCEPT ![o] = l]
    BY <1>c DEF EndCall, Goto
  <2>2. l \in Pc \ Telling
    BY DEF Pc, Telling, Walking
  <2> QED BY <1>0, <2>1, <2>2, SilentWalks
<1> DEFINE n == run[o]
           a == n.row.id
           s == n.row.space
           m == made[s]
           K == stored[a]
           d == sync[a].deepest
           w == walk[a]
           records == Page(s, n.page)
<1>1. CASE ~Current(n.row)
  <2>1. EndCall(o) /\ walk' = walk
    BY <1>1 DEF Answer
  <2> QED BY <1>c, <2>1
<1>2. CASE Current(n.row)
  <2>1. Mine(o) /\ a \in Account /\ s \in Space /\ acct[a].space = s /\ Live(a)
    BY <1>0, <1>r, <1>2, MineFits DEF Mine, Current
  <2>2. Claim("inflight", n, m, K, d, w)
    BY <1>0, <2>1 DEF GInv, HolderWalks, ClaimOf
  <2>3. /\ m \in Nat /\ n.page \in Nat /\ From(n.page) \in Nat /\ d \in Nat \cup {-1}
        /\ From(n.page + 1) = From(n.page) + PageSize
        /\ records = PageWhen(s, From(n.page), m)
        /\ K \in Stored /\ w \in {"whole", "paging", "torn"}
    <3>1. n.page \in Nat
      BY <1>r DEF Run
    <3>2. K \in Stored /\ d \in Nat \cup {-1} /\ m \in Nat /\ w \in {"whole", "paging", "torn"}
      BY <2>1, GapParts
    <3> QED BY <1>0, <2>1, <3>1, <3>2, FromTyped, PageIsPageWhen
  <2>4. \A q \in K : q[1] = s => q[2] <= m
    BY <2>1 DEF GInv, Existing
  <2>5. CASE records # {}
    <3> DEFINE full == [n EXCEPT !.records = records, !.some = TRUE]
    <3>1. /\ Goto(o, "checked") /\ walk' = walk
          /\ run' = [run EXCEPT ![o] = [@ EXCEPT !.records = records, !.some = TRUE]]
      BY <1>2, <2>5 DEF Answer
    <3>2. pc'[o] = "checked" /\ run'[o] = full
      BY <1>0, <3>1 DEF Goto, Sessions
    <3>3. /\ full.row = n.row /\ full.kind = n.kind /\ full.page = n.page
          /\ full.records = records /\ full.before = n.before
      BY <1>r DEF Run
    <3>4. Contiguous(n, w) => Above(s, m, K, K, m - From(n.page))
      <4>1. CASE n.kind = "sync" /\ n.page = 0
        BY <2>3, <4>1, FromTyped DEF Above
      <4>2. CASE n.kind = "sync" /\ n.page # 0
        <5>1. n.page > 0
          BY <2>3, <4>2
        <5> QED BY <2>2, <4>2, <5>1 DEF Claim, Contiguous
      <4>3. CASE n.kind # "sync"
        <5>1. n.page = StartPage(d)
          BY <1>r, <2>2, <4>3 DEF Claim, Walking, Run
        <5>2. WholeAt(a)
          BY <2>1 DEF GInv, WholeCovered
        <5> QED BY <2>1, <4>3, <5>1, <5>2 DEF Contiguous, WholeAt
      <4> QED BY <4>1, <4>2, <4>3
    <3> HIDE DEF full, records
    <3>5. Fetched(full, m, K, w)
      <4>1. m \in 0..m
        BY <2>3
      <4>2. Contiguous(full, w) <=> Contiguous(n, w)
        BY <3>3 DEF Contiguous
      <4> QED BY <2>3, <3>3, <3>4, <4>1, <4>2 DEF Fetched
    <3>6. n.kind = "sync" => Begun(full, m, K, d, w)
      BY <2>2, <3>3 DEF Claim, Begun
    <3>7. n.kind = "backfill" => n.page = StartPage(d)
      BY <2>2 DEF Claim, Walking
    <3>8. Claim("checked", full, m, K, d, w)
      BY <3>3, <3>5, <3>6, <3>7 DEF Claim, Walking
    <3>9. ClaimOf(pc[o], run[o])'
      BY <1>0, <3>1, <3>2, <3>3, <3>8 DEF ClaimOf
    <3> QED BY <3>1, <3>9
  <2>6. CASE records = {}
    <3>1. /\ Goto(o, "counting") /\ run' = [run EXCEPT ![o].left = 0]
          /\ walk' = [walk EXCEPT ![a] =
                IF n.kind = "sync" /\ n.page > 0 /\ @ = "paging" THEN "whole" ELSE @]
      BY <1>2, <2>6 DEF Answer
    <3> DEFINE f == [n EXCEPT !.left = 0]
               v == IF n.kind = "sync" /\ n.page > 0 /\ w = "paging" THEN "whole" ELSE w
    <3>2. pc'[o] = "counting" /\ run'[o] = f
      BY <1>0, <3>1 DEF Goto, Sessions
    <3>3. /\ f.row = n.row /\ f.kind = n.kind /\ f.page = n.page /\ f.some = n.some
      BY <1>r DEF Run
    <3>4. walk'[a] = v /\ \A b \in Account : b # a => walk'[b] = walk[b]
      BY <1>0, <2>1, <3>1 DEF Tables
    <3>5. m <= From(n.page)
      BY <2>1, <2>3, <2>6, EmptyIsBeyond
    <3>6. ASSUME n.kind = "sync", v = "whole" PROVE Above(s, m, K, K, 0)
      <4>1. CASE n.page = 0
        <5>1. m <= 0
          BY <3>5, <4>1, FromTyped
        <5> QED BY <2>3, <5>1 DEF Above
      <4>2. CASE n.page # 0
        <5>1. n.page > 0
          BY <2>3, <4>2
        <5>2. w = "paging"
          BY <2>2, <2>3, <3>6, <5>1 DEF Claim, Begun
        <5>3. Above(s, m, K, K, m - From(n.page))
          BY <2>2, <3>6, <5>1, <5>2 DEF Claim
        <5>4. m - From(n.page) \in Int /\ m - From(n.page) <= 0
          BY <2>3, <3>5
        <5> QED BY <2>3, <5>3, <5>4 DEF Above
      <4> QED BY <4>1, <4>2
    <3>7. n.kind = "sync" /\ v = "whole" => Down(n, m, K)
      <4> SUFFICES ASSUME n.kind = "sync", v = "whole" PROVE Down(n, m, K)
        OBVIOUS
      <4>1. \A i \in 1..m : i > 0
        BY <2>3
      <4> QED BY <3>6, <4>1 DEF Above, Down
    <3> HIDE DEF f, v
    <3>8. Claim("counting", f, m, K, d, v)
      BY <3>3, <3>7 DEF Claim, Walking, Down
    <3>9. ClaimOf(pc[o], run[o])'
      BY <1>0, <3>2, <3>3, <3>4, <3>8 DEF ClaimOf
    <3>10. walk'[a] = w \/ (n.kind = "sync" /\ v = "whole")
      BY <3>4 DEF v
    <3>11. \/ walk'[a] = walk[a]
           \/ /\ Live(a) /\ walk'[a] = "whole"
              /\ Above(acct[a].space, made[acct[a].space], stored[a], stored[a], 0)
      BY <2>1, <3>4, <3>6, <3>10
    <3> HIDE DEF n, a, s, m, K, d, w, records
    <3> QED BY <3>4, <3>9, <3>11
  <2> QED BY <2>5, <2>6
<1> QED BY <1>1, <1>2

(* The steps of a session that store nothing.                              *)
LEMMA PassWalks ==
    ASSUME GInv, NEW o \in Owner,
           \/ Start(o) \/ ListDue(o) \/ Pick(o) \/ Resolve(o) \/ RecordWorkspace(o)
           \/ \E a \in Account : Ask(o, a) \/ Test(o, a)
           \/ TestAnswer(o)
    PROVE  /\ Mine(o)' => ClaimOf(pc[o], run[o])'
           /\ UNCHANGED <<made, stored, sync, walk>>
<1>0. Tables /\ Sessions /\ AllSound
  BY GapParts
<1>k. UNCHANGED <<made, stored, sync, walk>>
  BY DEF Start, ListDue, Pick, Resolve, RecordWorkspace, Ask, Test, TestAnswer
<1>q. ASSUME NEW l \in {"listing", "next", "releasing", "testing", "idle"},
             pc' = [pc EXCEPT ![o] = l]
      PROVE  ClaimOf(pc[o], run[o])'
  <2>1. l \in Pc \ Telling
    BY DEF Pc, Telling, Walking
  <2> QED BY <1>0, <1>q, <2>1, SilentWalks
<1>1. CASE Start(o) \/ ListDue(o) \/ TestAnswer(o) \/ \E a \in Account : Test(o, a)
  BY <1>k, <1>q, <1>1 DEF Start, ListDue, TestAnswer, Test, Goto
<1>2. CASE Pick(o)
  <2>1. PICK a \in due[o] : IF Enabled(a) THEN Call(o, a, "sync", MaxPages)
                                         ELSE UNCHANGED <<pc, run>>
    BY <1>2 DEF Pick
  <2>2. a \in Account /\ MaxPages \in Nat \ {0} /\ pc[o] = "next"
    BY <1>0, <1>2, <2>1 DEF Sessions, Pick
  <2>3. CASE Enabled(a)
    BY <1>k, <2>1, <2>2, <2>3, CallWalks DEF Enabled
  <2>4. CASE ~Enabled(a)
    <3>1. pc'[o] = "next"
      BY <2>1, <2>2, <2>4
    <3>2. "next" \notin Telling
      BY DEF Telling, Walking
    <3> QED BY <1>k, <3>1, <3>2, SilentClaim DEF ClaimOf
  <2> QED BY <2>3, <2>4
<1>3. CASE Resolve(o) \/ RecordWorkspace(o)
  <2>1. /\ run[o] \in Run /\ run[o].row \in Row /\ RowFits(run[o].row)
        /\ pc[o] \in {"resolving", "recording"} /\ holder = o
    BY <1>0, <1>3, WriterHasRow
       DEF Resolve, RecordWorkspace, Busy, Writing, Checking, Commit
  <2>2. \/ EndCall(o)
        \/ /\ SourceUnchanged(run[o].row)
           /\ EnterPages(o, run[o]) \/ (Goto(o, "recording") /\ run' = run)
    <3>1. CASE Resolve(o)
      <4>1. ~Current(run[o].row) => EndCall(o)
        BY <3>1 DEF Resolve
      <4>2. Current(run[o].row) =>
                EnterPages(o, run[o]) \/ (Goto(o, "recording") /\ run' = run)
        BY <3>1, Zenon DEF Resolve
      <4> QED BY <4>1, <4>2 DEF Current
    <3>2. CASE RecordWorkspace(o)
      BY <3>2, Zenon DEF RecordWorkspace
    <3> QED BY <1>3, <3>1, <3>2
  <2>3. CASE EndCall(o)
    BY <1>k, <1>q, <2>3 DEF EndCall, Goto
  <2>4. CASE SourceUnchanged(run[o].row)
    <3>1. Mine(o)
      BY <2>1, <2>4 DEF Mine
    <3>2. run[o].page = 0
      BY <2>1, <3>1 DEF GInv, HolderWalks, ClaimOf, Claim
    <3>3. EnterPages(o, run[o]) => ClaimOf(pc[o], run[o])'
      BY <1>k, <2>1, <3>2, EnterWalks
    <3>4. ASSUME Goto(o, "recording"), run' = run PROVE ClaimOf(pc[o], run[o])'
      <4>1. pc'[o] = "recording" /\ run'[o] = run[o]
        BY <1>0, <3>4 DEF Goto, Sessions
      <4>2. \A n, mm, kk, dd, ww : n.page = 0 => Claim("recording", n, mm, kk, dd, ww)
        BY DEF Claim, Walking
      <4> QED BY <3>2, <4>1, <4>2 DEF ClaimOf
    <3> QED BY <1>k, <1>q, <2>2, <3>3, <3>4 DEF EndCall, Goto
  <2> QED BY <2>2, <2>3, <2>4
<1>4. ASSUME NEW a \in Account, Ask(o, a) PROVE ClaimOf(pc[o], run[o])'
  <2>1. MaxPages \in Nat \ {0} /\ 1..MaxBackfill \subseteq Nat \ {0}
    OBVIOUS
  <2>2. Live(a)
    BY <1>4 DEF Ask
  <2>3. CASE Goto(o, "releasing") /\ UNCHANGED run
    BY <1>q, <2>3 DEF Goto
  <2>4. CASE Call(o, a, "sync", MaxPages)
    BY <1>k, <2>1, <2>2, <2>4, CallWalks
  <2>5. CASE \E pages \in 1..MaxBackfill : Call(o, a, "backfill", pages)
    BY <1>k, <2>1, <2>2, <2>5, CallWalks
  <2> QED BY <1>4, <2>3, <2>4, <2>5 DEF Ask
<1> QED BY <1>k, <1>1, <1>2, <1>3, <1>4

(* What a write of session o leaves of the other accounts, and what it     *)
(* makes of its own.                                                       *)
Writes(o) ==
    LET a == run[o].row.id
    IN  /\ UNCHANGED <<made, acct>>
        /\ \A b \in Account : b # a => /\ stored'[b] = stored[b]
                                       /\ sync'[b] = sync[b] /\ walk'[b] = walk[b]
        /\ \A q \in stored'[a] : q[2] <= made[q[1]]
        /\ \A b \in Account : b = a => WholeAt(b)'

(* Session o may write: what it knows and what its step starts from.       *)
LEMMA WriterWalks ==
    ASSUME GInv, NEW o \in Owner, pc[o] \in Busy, holder = o, SourceUnchanged(run[o].row)
    PROVE  LET n == run[o]
               a == n.row.id
               s == n.row.space
           IN  /\ n \in Run /\ n.page \in Nat /\ n.deepest \in Nat \cup {-1}
               /\ n.row \in Row /\ a \in Account /\ s \in Space
               /\ n.kind \in {"sync", "backfill"}
               /\ acct[a].space = s /\ Live(a)
               /\ made[s] \in Nat /\ stored[a] \in Stored
               /\ sync[a].deepest \in Nat \cup {-1}
               /\ walk[a] \in {"whole", "paging", "torn"}
               /\ \A q \in stored[a] : q[2] <= made[q[1]]
               /\ \A r \in n.records : r[1] = s
               /\ Claim(pc[o], n, made[s], stored[a], sync[a].deepest, walk[a])
               /\ walk[a] = "whole" =>
                     Above(s, made[s], stored[a], stored[a],
                           made[s] - From(StartPage(sync[a].deepest)))
<1>1. Sessions /\ AllSound
  BY GapParts
<1>2. /\ run[o] \in Run /\ run[o].row \in Row /\ run[o].row.id \in Account
      /\ run[o].row.space \in Space /\ RowFits(run[o].row)
  BY <1>1, WriterHasRow
<1>3. Mine(o)
  BY <1>2 DEF Mine
<1>4. acct[run[o].row.id].space = run[o].row.space /\ Live(run[o].row.id)
  BY <1>2, MineFits
<1>5. WholeAt(run[o].row.id) /\ ClaimOf(pc[o], run[o])
  BY <1>2, <1>3 DEF GInv, WholeCovered, HolderWalks
<1>6. run[o].page \in Nat /\ run[o].deepest \in Nat \cup {-1}
      /\ run[o].kind \in {"sync", "backfill"}
  BY <1>2 DEF Run
<1>7. /\ made[run[o].row.space] \in Nat /\ stored[run[o].row.id] \in Stored
      /\ sync[run[o].row.id].deepest \in Nat \cup {-1}
      /\ walk[run[o].row.id] \in {"whole", "paging", "torn"}
  BY <1>2, GapParts
<1>8. \A q \in stored[run[o].row.id] : q[2] <= made[q[1]]
  BY <1>2 DEF GInv, Existing
<1>9. \A r \in run[o].records : r[1] = run[o].row.space
  BY <1>1 DEF AllSound, Sound
<1> QED BY <1>2, <1>4, <1>5, <1>6, <1>7, <1>8, <1>9 DEF ClaimOf, WholeAt

(* What is stored with the page.                                           *)
LEMMA StoreEffect ==
    ASSUME GInv, NEW o \in Owner, Store(o)
    PROVE  LET n == run[o]
               a == n.row.id
           IN  /\ \A b \in Account : b # a => stored'[b] = stored[b]
               /\ n.records \cap (Known \ stored[a]) = {}
                     => stored'[a] = stored[a] \cup n.records
               /\ stored'[a] \subseteq stored[a] \cup n.records
               /\ \A q \in stored'[a] : q[2] <= made[q[1]]
<1>1. pc[o] \in Busy /\ holder = o /\ SourceUnchanged(run[o].row)
  BY DEF Store, Busy, Writing, Commit
<1> DEFINE n == run[o]
           a == n.row.id
           s == n.row.space
<1>2. /\ a \in Account /\ s \in Space /\ made[s] \in Nat
      /\ \A q \in stored[a] : q[2] <= made[q[1]]
      /\ \A r \in n.records : r[1] = s
      /\ n.page \in Nat
      /\ Claim("checked", n, made[s], stored[a], sync[a].deepest, walk[a])
  BY <1>1, WriterWalks DEF Store
<1>3. \A r \in n.records : r[2] <= made[r[1]]
  <2>1. PICK k \in 0..made[s] : n.records = PageWhen(s, From(n.page), k)
    BY <1>2 DEF Claim, Fetched
  <2> QED BY <1>2, <2>1 DEF PageWhen
<1>4. /\ \A b \in Account : b # a => stored'[b] = stored[b]
      /\ stored'[a] = stored[a] \cup (n.records \ Known)
  BY <1>2, GapParts DEF Store, Tables
<1>5. stored'[a] \subseteq stored[a] \cup n.records
  BY <1>4
<1>6. n.records \cap (Known \ stored[a]) = {} => stored'[a] = stored[a] \cup n.records
  BY <1>4
<1>7. \A q \in stored'[a] : q[2] <= made[q[1]]
  BY <1>2, <1>3, <1>5
<1> QED BY <1>4, <1>5, <1>6, <1>7

(* Where a turn of the loop leads.                                         *)
LEMMA TurnTo ==
    ASSUME Sessions, NEW o \in Owner, NEW last \in BOOLEAN, Turn(o, last)
    PROVE  LET n == run[o]
           IN  /\ run'[o].row = n.row /\ run'[o].kind = n.kind
               /\ run'[o].before = n.before
               /\ last => pc'[o] = "counting" /\ run'[o].page = n.page
               /\ ~last /\ n.left = 1 => pc'[o] = "counting"
               /\ ~last /\ n.left # 1
                     => pc'[o] = "inflight" /\ run'[o].page = n.page + 1
<1> DEFINE r == run[o]
           out == [r EXCEPT !.left = 0, !.records = {}]
           on == [r EXCEPT !.page = r.page + 1, !.left = r.left - 1, !.records = {}]
<1>1. r \in Run
  BY DEF Sessions
<1>2. /\ out.row = r.row /\ out.kind = r.kind /\ out.before = r.before
      /\ out.page = r.page
  BY <1>1 DEF Run
<1>3. /\ on.row = r.row /\ on.kind = r.kind /\ on.before = r.before
      /\ on.page = r.page + 1
  BY <1>1 DEF Run
<1>4. run' = [run EXCEPT ![o] = IF last THEN out ELSE on]
  BY DEF Turn
<1>5. pc' = [pc EXCEPT ![o] = IF last \/ r.left = 1 THEN "counting" ELSE "inflight"]
  BY DEF Turn, Goto
<1> HIDE DEF out, on
<1>6. /\ run'[o] = IF last THEN out ELSE on
      /\ pc'[o] = IF last \/ r.left = 1 THEN "counting" ELSE "inflight"
  BY <1>4, <1>5 DEF Sessions
<1> QED BY <1>2, <1>3, <1>6

(* A page of the backfill is stored.                                       *)
LEMMA EarlierWalks ==
    ASSUME GInv, NEW o \in Owner, InsertEarlier(o)
    PROVE  Writes(o) /\ ClaimOf(pc[o], run[o])'
<1> DEFINE n == run[o]
           a == n.row.id
           s == n.row.space
           m == made[s]
           K == stored[a]
           d == sync[a].deepest
           w == walk[a]
           v == IF n.records \cap (Known \ K) # {} THEN "torn" ELSE w
           L == stored'[a]
<1>0. /\ pc[o] = "checked" /\ pc[o] \in Busy /\ holder = o
      /\ SourceUnchanged(n.row) /\ n.kind = "backfill"
      /\ UNCHANGED <<made, acct, sync, run>>
  BY DEF InsertEarlier, Store, Busy, Writing, Commit
<1>1. /\ n \in Run /\ n.page \in Nat /\ a \in Account /\ s \in Space /\ acct[a].space = s
      /\ m \in Nat /\ K \in Stored /\ d \in Nat \cup {-1}
      /\ Claim("checked", n, m, K, d, w)
      /\ w = "whole" => Above(s, m, K, K, m - From(StartPage(d)))
  BY <1>0, WriterWalks
<1>2. /\ \A b \in Account : b # a => stored'[b] = stored[b]
      /\ n.records \cap (Known \ K) = {} => L = K \cup n.records
      /\ \A q \in L : q[2] <= made[q[1]]
  BY StoreEffect DEF InsertEarlier
<1>3. walk'[a] = v /\ \A b \in Account : b # a => walk'[b] = walk[b]
  BY <1>1, GapParts DEF InsertEarlier, Tables
<1>4. pc'[o] = "marking"
  BY GapParts DEF InsertEarlier, Goto, Sessions
<1>5. ASSUME v = "whole"
      PROVE  Down(n, m, L) /\ Above(s, m, L, L, m - From(StartPage(d)))
  <2>1. w = "whole" /\ L = K \cup n.records
    BY <1>2, <1>5
  <2>2. Fetched(n, m, K, w) /\ Contiguous(n, w) /\ n.page = StartPage(d)
    BY <1>0, <1>1, <2>1 DEF Claim, Contiguous, Walking
  <2>3. Down(n, m, L)
    <3>1. Down(n, m, K \cup n.records)
      <4> HIDE DEF L, v, d
      <4> QED BY <1>1, <2>2, StoreEarlier
    <3> QED BY <2>1, <3>1
  <2>4. Above(s, m, L, L, m - From(StartPage(d)))
    <3>1. PICK k \in 0..m : /\ n.records = PageWhen(s, From(n.page), k)
                            /\ Above(s, m, K, K, k - From(n.page))
      BY <2>2 DEF Fetched
    <3>2. From(n.page) \in Nat /\ From(n.page + 1) = From(n.page) + PageSize
      BY <1>1, FromTyped
    <3> DEFINE e == m - From(n.page + 1)
               c == m - From(n.page)
    <3>3. e \in Int /\ c \in Int /\ e <= c
      BY <1>1, <3>2
    <3>5. Above(s, m, L, L, e)
      <4> HIDE DEF L
      <4> QED BY <2>3 DEF Down
    <3> HIDE DEF e, s, m, L
    <3>4. Above(s, m, L, L, c)
      BY <1>1, <3>3, <3>5, AboveLess
    <3> QED BY <2>2, <3>4
  <2> QED BY <2>3, <2>4
<1>6. Claim("marking", n, m, L, d, v)
  BY <1>0, <1>1, <1>5 DEF Claim, Walking
<1> HIDE DEF v
<1>7. ClaimOf(pc[o], run[o])'
  BY <1>0, <1>3, <1>4, <1>6 DEF ClaimOf
<1>8. ASSUME NEW b \in Account, b = a PROVE WholeAt(b)'
  BY <1>0, <1>1, <1>3, <1>5, <1>8 DEF WholeAt
<1> QED BY <1>0, <1>2, <1>3, <1>7, <1>8 DEF Writes

(* A page of an incremental walk is stored.                                *)
LEMMA NewestWalks ==
    ASSUME GInv, NEW o \in Owner, InsertNewest(o)
    PROVE  Writes(o) /\ ClaimOf(pc[o], run[o])'
<1> DEFINE n == run[o]
           f == run'[o]
           a == n.row.id
           s == n.row.space
           m == made[s]
           K == stored[a]
           d == sync[a].deepest
           w == walk[a]
           v == Walked(o)
           L == stored'[a]
           last == ReachesKnown(o)
           c == m - From(StartPage(d))
<1>0. /\ pc[o] = "checked" /\ pc[o] \in Busy /\ holder = o
      /\ SourceUnchanged(n.row) /\ n.kind = "sync"
      /\ UNCHANGED <<made, acct, sync>> /\ Store(o)
  BY DEF InsertNewest, Store, Busy, Writing, Commit
<1>1. /\ n \in Run /\ n.page \in Nat /\ a \in Account /\ s \in Space /\ acct[a].space = s
      /\ m \in Nat /\ K \in Stored /\ d \in Nat \cup {-1}
      /\ w \in {"whole", "paging", "torn"}
      /\ \A r \in n.records : r[1] = s
      /\ Claim("checked", n, m, K, d, w)
      /\ w = "whole" => Above(s, m, K, K, c)
  BY <1>0, WriterWalks
<1>2. /\ \A b \in Account : b # a => stored'[b] = stored[b]
      /\ n.records \cap (Known \ K) = {} => L = K \cup n.records
      /\ \A q \in L : q[2] <= made[q[1]]
  BY <1>0, StoreEffect
<1>3. walk'[a] = v /\ \A b \in Account : b # a => walk'[b] = walk[b]
  BY <1>1, GapParts DEF InsertNewest, Tables
<1>4. /\ f.row = n.row /\ f.kind = n.kind /\ f.before = n.before
      /\ last => pc'[o] = "counting" /\ f.page = n.page
      /\ ~last /\ n.left = 1 => pc'[o] = "counting"
      /\ ~last /\ n.left # 1 => pc'[o] = "inflight" /\ f.page = n.page + 1
  <2>1. last \in BOOLEAN /\ Turn(o, last)
    BY DEF InsertNewest, ReachesKnown
  <2> HIDE DEF last
  <2> QED BY <2>1, GapParts, TurnTo
<1>5. v \in {"whole", "paging", "torn"}
  BY DEF Walked
<1>6. ASSUME v # "torn"
      PROVE  /\ n.before \subseteq K /\ L = K \cup n.records
             /\ Down(n, m, L) /\ Above(s, m, L, n.before, c)
             /\ v = "whole" => last /\ Above(s, m, L, L, c)
             /\ v = "paging" => ~last /\ n.left # 1
  <2>1. /\ w # "torn" /\ ~(w = "paging" /\ n.page = 0)
        /\ n.records \cap (Known \ K) = {}
        /\ v = IF ComesToEnd(o) THEN "whole"
               ELSE IF last \/ n.left = 1 THEN "torn" ELSE "paging"
    BY <1>6 DEF Walked
  <2>2. w \in {"whole", "paging"} /\ (n.page = 0 => w = "whole")
    BY <1>1, <2>1
  <2>3. Fetched(n, m, K, w) /\ Begun(n, m, K, d, w)
    BY <1>0, <1>1 DEF Claim
  <2>4. L = K \cup n.records
    BY <1>2, <2>1
  <2> HIDE DEF v, last, L
  <2>5. /\ n.before \subseteq K /\ Down(n, m, L) /\ Above(s, m, L, n.before, c)
        /\ Cardinality(n.records) < PageSize \/ n.records \cap n.before # {}
              => Above(s, m, L, L, c)
    <3>1. PICK n0 \in Run, m0 \in Nat, K0 \in Stored, d0 \in Nat \cup {-1},
               w0 \in {"whole", "paging"} :
             n0 = n /\ m0 = m /\ K0 = K /\ d0 = d /\ w0 = w
      BY <1>1, <2>2
    <3> HIDE DEF n, m, K, d, w
    <3>2. /\ n0.row.space \in Space /\ n0.kind = "sync"
          /\ \A r \in n0.records : r[1] = n0.row.space
      BY <1>0, <1>1, <3>1
    <3>3. /\ n0.page = 0 => w0 = "whole"
          /\ Fetched(n0, m0, K0, w0) /\ Begun(n0, m0, K0, d0, w0)
          /\ w0 = "whole" => Above(n0.row.space, m0, K0, K0, m0 - From(StartPage(d0)))
      BY <1>1, <2>2, <2>3, <3>1
    <3> DEFINE M == K0 \cup n0.records
               e == m0 - From(StartPage(d0))
    <3>4. /\ n0.before \subseteq K0 /\ Down(n0, m0, M)
          /\ Above(n0.row.space, m0, M, n0.before, e)
          /\ Cardinality(n0.records) < PageSize \/ n0.records \cap n0.before # {}
                => Above(n0.row.space, m0, M, M, e)
      BY <3>2, <3>3, StoreNewest
    <3>5. M = L /\ e = c
      BY <2>4, <3>1
    <3> HIDE DEF M, e, c
    <3> QED BY <3>1, <3>4, <3>5
  <2>6. v = "whole" => ComesToEnd(o)
    BY <2>1
  <2>7. ComesToEnd(o) => Above(s, m, L, L, c)
    BY <2>5 DEF ComesToEnd, Short
  <2>8. ComesToEnd(o) => last
    <3>1. K \subseteq Known
      BY <1>1 DEF Known
    <3> QED BY <2>5, <3>1 DEF ComesToEnd, ReachesKnown, last
  <2> QED BY <2>1, <2>4, <2>5, <2>6, <2>7, <2>8
<1> HIDE DEF v, last
<1>7. Claim(pc'[o], f, m, L, d, v)
  <2>1. CASE v = "torn"
    <3>1. CASE pc'[o] = "counting"
      BY <1>0, <1>4, <2>1, <3>1 DEF Claim, Walking
    <3>2. CASE pc'[o] = "inflight" /\ f.page = n.page + 1
      <4>1. f.page # 0 /\ f.kind = "sync"
        BY <1>0, <1>1, <1>4, <3>2
      <4> QED BY <2>1, <3>2, <4>1 DEF Claim, Begun, Walking
    <3> QED BY <1>4, <3>1, <3>2
  <2>2. CASE v = "whole"
    <3>1. pc'[o] = "counting" /\ f.page = n.page
      BY <1>4, <1>6, <2>2
    <3>2. Down(f, m, L)
      BY <1>4, <1>6, <2>2, <3>1 DEF Down
    <3> QED BY <1>0, <1>4, <3>1, <3>2 DEF Claim, Walking
  <2>3. CASE v = "paging"
    <3>1. pc'[o] = "inflight" /\ f.page = n.page + 1
      BY <1>4, <1>6, <2>3
    <3>2. n.before \subseteq L /\ Above(s, m, L, n.before, c) /\ Down(n, m, L)
      BY <1>6, <2>3
    <3>3. f.page # 0
      BY <1>1, <3>1
    <3>4. Begun(f, m, L, d, v)
      BY <1>4, <2>3, <3>2, <3>3 DEF Begun
    <3>5. Above(f.row.space, m, L, L, m - From(f.page))
      BY <1>4, <3>1, <3>2 DEF Down
    <3> QED BY <1>0, <1>4, <3>1, <3>4, <3>5 DEF Claim, Walking
  <2> QED BY <1>5, <2>1, <2>2, <2>3
<1>8. ClaimOf(pc[o], run[o])'
  <2>1. f.row.id = a /\ f.row.space = s
    BY <1>4
  <2> QED BY <1>0, <1>3, <1>7, <2>1 DEF ClaimOf
<1>9. ASSUME NEW b \in Account, b = a PROVE WholeAt(b)'
  <2>1. v = "whole" => Above(s, m, L, L, c)
    BY <1>6
  <2> QED BY <1>0, <1>1, <1>3, <1>9, <2>1 DEF WholeAt
<1> QED BY <1>0, <1>2, <1>3, <1>8, <1>9 DEF Writes

(* The watermark moves to a page that is covered.                          *)
LEMMA MarkWalks ==
    ASSUME GInv, NEW o \in Owner, MarkPage(o)
    PROVE  Writes(o) /\ ClaimOf(pc[o], run[o])'
<1> DEFINE n == run[o]
           f == run'[o]
           a == n.row.id
           s == n.row.space
           m == made[s]
           K == stored[a]
           w == walk[a]
<1>0. /\ pc[o] = "marking" /\ pc[o] \in Busy /\ holder = o
      /\ SourceUnchanged(n.row) /\ UNCHANGED <<made, acct, stored, walk>>
  BY DEF MarkPage, Busy, Writing, Commit
<1>1. /\ n \in Run /\ n.page \in Nat /\ a \in Account /\ s \in Space /\ acct[a].space = s
      /\ \A q \in K : q[2] <= made[q[1]]
      /\ n.kind = "backfill" /\ (w = "whole" => Down(n, m, K))
  BY <1>0, WriterWalks DEF Claim
<1>2. sync'[a].deepest = n.page /\ \A b \in Account : b # a => sync'[b] = sync[b]
  BY <1>1, GapParts DEF MarkPage, Tables, Syncs
<1>3. /\ f.row = n.row /\ f.kind = n.kind
      /\ pc'[o] = "counting" \/ (pc'[o] = "inflight" /\ f.page = n.page + 1)
  <2>1. Short(o) \in BOOLEAN /\ Turn(o, Short(o))
    BY DEF MarkPage, Short
  <2> QED BY <2>1, GapParts, TurnTo
<1>4. StartPage(n.page) = n.page + 1
  BY <1>1 DEF StartPage
<1>5. Claim(pc'[o], f, m, K, n.page, w)
  BY <1>1, <1>3, <1>4 DEF Claim, Walking
<1>6. ClaimOf(pc[o], run[o])'
  <2>1. f.row.id = a /\ f.row.space = s
    BY <1>3
  <2> QED BY <1>0, <1>2, <1>5, <2>1 DEF ClaimOf
<1>7. ASSUME NEW b \in Account, b = a PROVE WholeAt(b)'
  <2>1. w = "whole" => Above(s, m, K, K, m - From(StartPage(n.page)))
    BY <1>1, <1>4 DEF Down
  <2> QED BY <1>0, <1>1, <1>2, <1>7, <2>1 DEF WholeAt
<1> QED BY <1>0, <1>1, <1>2, <1>6, <1>7 DEF Writes

(* A write that leaves the watermark and what it covers.                   *)
LEMMA StillWhole ==
    ASSUME GInv, NEW o \in Owner, pc[o] \in Busy, holder = o,
           SourceUnchanged(run[o].row), UNCHANGED <<made, acct, stored, walk>>,
           \A b \in Account : b # run[o].row.id => sync'[b] = sync[b],
           sync'[run[o].row.id].deepest = sync[run[o].row.id].deepest
    PROVE  Writes(o)
<1>1. /\ run[o].row.id \in Account /\ acct[run[o].row.id].space \in Space
      /\ \A q \in stored[run[o].row.id] : q[2] <= made[q[1]]
  BY WriterWalks
<1>2. ASSUME NEW b \in Account, b = run[o].row.id PROVE WholeAt(b)'
  <2>1. WholeAt(b)
    BY DEF GInv, WholeCovered
  <2> QED BY <1>2, <2>1 DEF WholeAt, Live
<1> QED BY <1>1, <1>2 DEF Writes

(* The totals are counted, the state is read and the "ok" is written.      *)
LEMMA CountWalks ==
    ASSUME GInv, NEW o \in Owner, CountFirst(o) \/ CountAgain(o) \/ NoteFailure(o)
    PROVE  Writes(o) /\ ClaimOf(pc[o], run[o])'
<1> DEFINE n == run[o]
           a == n.row.id
<1>0. /\ pc[o] \in Busy /\ holder = o
      /\ SourceUnchanged(n.row) /\ UNCHANGED <<made, acct, stored, walk>>
  BY DEF CountFirst, CountAgain, NoteFailure, Count, Busy, Writing, Commit
<1>1. /\ n \in Run /\ a \in Account
      /\ Claim(pc[o], n, made[n.row.space], stored[a], sync[a].deepest, walk[a])
  BY <1>0, WriterWalks
<1>2. /\ \A b \in Account : b # a => sync'[b] = sync[b]
      /\ sync'[a].deepest = sync[a].deepest
  <2> HIDE DEF a
  <2>1. sync \in Syncs
    BY GapParts DEF Tables
  <2>2. \/ \E t : sync' = [sync EXCEPT ![a].total = t]
        \/ sync' = [sync EXCEPT ![a].synced = TRUE]
    BY DEF CountFirst, CountAgain, Count, NoteFailure, a
  <2> QED BY <1>1, <2>1, <2>2 DEF Syncs
<1>3. Writes(o)
  BY <1>0, <1>2, StillWhole
<1>4. ASSUME NEW l \in Pc \ Telling, Goto(o, l) PROVE ClaimOf(pc[o], run[o])'
  BY <1>4, GapParts, SilentWalks DEF Goto
<1>5. CASE CountAgain(o) \/ NoteFailure(o)
  <2>1. PICK l \in {"next", "releasing"} : Goto(o, l)
    BY <1>5 DEF CountAgain, NoteFailure, EndCall
  <2>2. l \in Pc \ Telling
    BY DEF Pc, Telling, Walking
  <2> QED BY <1>3, <1>4, <2>1, <2>2
<1>6. CASE CountFirst(o)
  <2>0. Sessions /\ pc[o] = "counting"
    BY <1>6, GapParts DEF CountFirst
  <2>1. CASE n.kind = "sync"
    <3> DEFINE f == [n EXCEPT !.before = {}]
    <3>1. pc'[o] = "reading" /\ run'[o] = f
      BY <1>6, <2>0, <2>1 DEF CountFirst, Goto, Sessions
    <3>2. /\ f.row = n.row /\ f.kind = n.kind /\ f.page = n.page /\ f.some = n.some
      BY <1>1 DEF Run
    <3>3. Claim("reading", f, made[n.row.space], stored[a], sync[a].deepest, walk[a])
      <4> HIDE DEF f
      <4> QED BY <1>1, <2>0, <2>1, <3>2 DEF Claim, Walking, Down
    <3> HIDE DEF f
    <3>4. ClaimOf(pc[o], run[o])'
      BY <1>0, <1>2, <3>1, <3>2, <3>3 DEF ClaimOf
    <3> QED BY <1>3, <3>4
  <2>2. CASE n.kind # "sync"
    <3> DEFINE f == [n EXCEPT !.page = 0, !.some = FALSE]
    <3>1. pc'[o] = "writing" /\ run'[o] = f
      <4>1. run' = [run EXCEPT ![o].page = 0, ![o].some = FALSE]
        BY <1>6, <2>2 DEF CountFirst
      <4>2. pc'[o] = "writing"
        BY <1>6, <2>0, <2>2 DEF CountFirst, Goto, Sessions
      <4>3. run'[o] = f
        BY <2>0, <4>1 DEF Sessions
      <4> QED BY <4>2, <4>3
    <3>2. f.kind # "sync"
      BY <1>1, <2>2 DEF Run
    <3> HIDE DEF f
    <3>3. \A mm, kk, dd, ww : Claim("writing", f, mm, kk, dd, ww)
      BY <3>2 DEF Claim, Walking
    <3>4. ClaimOf(pc[o], run[o])'
      BY <3>1, <3>3 DEF ClaimOf
    <3> QED BY <1>3, <3>4
  <2> QED BY <2>1, <2>2
<1> QED BY <1>5, <1>6

LEMMA ReadWalks ==
    ASSUME GInv, NEW o \in Owner, ReadState(o), Mine(o)'
    PROVE  ClaimOf(pc[o], run[o])'
<1> DEFINE n == run[o]
           a == n.row.id
           s == n.row.space
           d == sync[a].deepest
           e == Watermark(n, d)
           f == [NoRun EXCEPT !.row = n.row, !.deepest = e]
<1>0. /\ pc[o] = "reading" /\ pc[o] \in Busy /\ holder = o /\ Sessions /\ Tables
      /\ UNCHANGED <<made, acct, stored, sync, walk>>
  BY GapParts DEF ReadState, Busy, Checking
<1>1. pc'[o] = "writing" /\ run'[o] = f
  BY <1>0 DEF ReadState, Goto, Sessions
<1>2. f.row = n.row /\ f.deepest = e /\ f.kind = "sync"
  BY DEF NoRun
<1> HIDE DEF f
<1>3. SourceUnchanged(n.row)
  BY <1>0, <1>1, <1>2 DEF Mine, SourceUnchanged, Enabled, Live
<1>4. /\ n \in Run /\ n.page \in Nat /\ a \in Account /\ d \in Nat \cup {-1}
      /\ Claim("reading", n, made[s], stored[a], d, walk[a])
      /\ walk[a] = "whole" => Above(s, made[s], stored[a], stored[a],
                                    made[s] - From(StartPage(d)))
  BY <1>0, <1>3, WriterWalks
<1>5. walk[a] = "whole" => Above(s, made[s], stored[a], stored[a],
                                 made[s] - From(StartPage(e)))
  <2>1. CASE n.some /\ n.page > d
    <3>1. e = n.page /\ StartPage(e) = n.page + 1
      BY <1>4, <2>1 DEF Watermark, StartPage
    <3> QED BY <1>4, <2>1, <3>1 DEF Claim, Down
  <2>2. CASE ~(n.some /\ n.page > d)
    <3>1. e = d
      BY <2>2 DEF Watermark
    <3> QED BY <1>4, <3>1
  <2> QED BY <2>1, <2>2
<1>6. Claim("writing", f, made[s], stored[a], d, walk[a])
  BY <1>2, <1>5 DEF Claim, Walking
<1> QED BY <1>0, <1>1, <1>2, <1>6 DEF ClaimOf

LEMMA WriteOkWalks ==
    ASSUME GInv, NEW o \in Owner, WriteOk(o)
    PROVE  Writes(o) /\ ClaimOf(pc[o], run[o])'
<1> DEFINE n == run[o]
           a == n.row.id
           s == n.row.space
<1>0. /\ pc[o] = "writing" /\ pc[o] \in Busy /\ holder = o /\ Sessions /\ sync \in Syncs
      /\ SourceUnchanged(n.row) /\ UNCHANGED <<made, acct, stored, walk>>
  BY GapParts DEF WriteOk, Busy, Writing, Commit, Tables
<1>1. /\ a \in Account /\ acct[a].space = s
      /\ \A q \in stored[a] : q[2] <= made[q[1]]
      /\ Claim("writing", n, made[s], stored[a], sync[a].deepest, walk[a])
  BY <1>0, WriterWalks
<1>2. ClaimOf(pc[o], run[o])'
  <2>1. PICK l \in {"recounting", "next", "releasing"} : Goto(o, l)
    BY DEF WriteOk, EndCall
  <2>2. l \in Pc \ Telling
    BY DEF Pc, Telling, Walking, Writing
  <2> QED BY <1>0, <2>1, <2>2, SilentWalks DEF Goto
<1>3. CASE n.kind # "sync"
  <2>1. /\ \A b \in Account : b # a => sync'[b] = sync[b]
        /\ sync'[a].deepest = sync[a].deepest
    <3>1. sync' = [sync EXCEPT ![a] = [@ EXCEPT !.synced = TRUE]]
      BY <1>3 DEF WriteOk
    <3> HIDE DEF a
    <3> QED BY <1>0, <1>1, <3>1 DEF Syncs
  <2> QED BY <1>0, <1>2, <2>1, StillWhole
<1>4. CASE n.kind = "sync"
  <2> DEFINE e == n.deepest
  <2>1. /\ \A b \in Account : b # a => sync'[b] = sync[b]
        /\ sync'[a].deepest = e
    <3>1. sync' = [sync EXCEPT ![a] = [@ EXCEPT !.synced = TRUE, !.deepest = e]]
      BY <1>4 DEF WriteOk
    <3> HIDE DEF a, e
    <3> QED BY <1>0, <1>1, <3>1 DEF Syncs
  <2>2. walk[a] = "whole" => Above(s, made[s], stored[a], stored[a],
                                   made[s] - From(StartPage(e)))
    BY <1>1, <1>4 DEF Claim
  <2>3. ASSUME NEW b \in Account, b = a PROVE WholeAt(b)'
    BY <1>0, <1>1, <2>1, <2>2, <2>3 DEF WholeAt
  <2> QED BY <1>0, <1>1, <1>2, <2>1, <2>3 DEF Writes
<1> QED BY <1>3, <1>4

(* The steps that end a call or a session.                                 *)
LEMMA EndWalks ==
    ASSUME GInv, NEW o \in Owner,
           \/ Reject(o) \/ Interrupt(o) \/ Fail(o) \/ Cancel(o) \/ Done(o) \/ Release(o)
    PROVE  ClaimOf(pc[o], run[o])' /\ UNCHANGED <<made, acct, stored, sync, walk>>
<1>1. PICK l \in {"next", "releasing", "failing", "idle"} : Goto(o, l)
  BY DEF Reject, Interrupt, Fail, Cancel, Done, Release, EndCall, Stop
<1>2. l \in Pc \ Telling
  BY DEF Pc, Telling, Walking, Writing
<1>3. UNCHANGED <<made, acct, stored, sync, walk>>
  BY DEF Reject, Interrupt, Fail, Cancel, Done, Release
<1> QED BY <1>1, <1>2, <1>3, GapParts, SilentWalks DEF Goto
-------------------------------------------------------------------------------
(* What is covered stays covered where nothing is stored, whatever is new  *)
(* upstream.                                                               *)
LEMMA WholeLater ==
    ASSUME GInv, NEW a \in Account,
           \A s \in Space : made'[s] \in Nat /\ made[s] <= made'[s],
           stored'[a] = stored[a], sync'[a].deepest = sync[a].deepest,
           \/ walk'[a] = "torn"
           \/ walk'[a] = walk[a] /\ acct'[a].space = acct[a].space,
           Live(a)' => Live(a)
    PROVE  WholeAt(a)'
<1> SUFFICES ASSUME Live(a)', walk'[a] = "whole"
             PROVE  LET s == acct'[a].space
                    IN  Above(s, made'[s], stored'[a], stored'[a],
                              made'[s] - From(StartPage(sync'[a].deepest)))
  BY DEF WholeAt
<1> DEFINE s == acct[a].space
           K == stored[a]
           b == From(StartPage(sync[a].deepest))
           c == made[s] - b
           e == made'[s] - b
<1>1. Live(a) /\ walk[a] = "whole" /\ acct'[a].space = s
  OBVIOUS
<1>2. s \in Space /\ made[s] \in Nat /\ K \in Stored /\ sync[a].deepest \in Nat \cup {-1}
  BY GapParts
<1>3. b \in Nat
  BY <1>2, StartPageTyped, FromTyped
<1>4. made'[s] \in Nat /\ made[s] <= made'[s]
  BY <1>2
<1>5. Above(s, made[s], K, K, c)
  BY <1>1 DEF GInv, WholeCovered, WholeAt
<1>6. \A q \in K : q[1] = s => q[2] <= made[s]
  BY DEF GInv, Existing
<1>7. c \in Int /\ e \in Int /\ c <= e
  BY <1>2, <1>3, <1>4
<1> HIDE DEF b, c, e
<1>8. Above(s, made'[s], K, K, c)
  BY <1>2, <1>4, <1>5, <1>6, <1>7, AboveLonger
<1>9. Above(s, made'[s], K, K, e)
  BY <1>4, <1>7, <1>8, AboveLess
<1> QED BY <1>1, <1>9 DEF b, e

(* What the holder knows stays true while others move.                     *)
LEMMA ClaimLater ==
    ASSUME GInv, [Next]_vars, NEW q \in Owner, Mine(q)', holder = q,
           pc'[q] = pc[q], run'[q] = run[q],
           \A s \in Space : made'[s] \in Nat /\ made[s] <= made'[s],
           LET a == run[q].row.id
           IN  SourceUnchanged(run[q].row) =>
                  stored'[a] = stored[a] /\ sync'[a] = sync[a] /\ walk'[a] = walk[a]
    PROVE  ClaimOf(pc[q], run[q])'
<1>0. Sessions /\ AllSound /\ IInv
  BY GapParts DEF GInv
<1>1. PICK w \in Row : w = run[q].row
  BY DEF Mine
<1>2. RowFits(w)
  BY <1>0, <1>1 DEF AllSound, Sound
<1>3. SourceUnchanged(w)'
  BY <1>1 DEF Mine, SourceUnchanged, Enabled, Live
<1>4. SourceUnchanged(w)
  BY <1>0, <1>2, <1>3, NeverReopened
<1>5. Mine(q)
  BY <1>1, <1>4 DEF Mine
<1> DEFINE n == run[q]
           s == n.row.space
           a == n.row.id
<1>6. Claim(pc[q], n, made[s], stored[a], sync[a].deepest, walk[a])
  BY <1>5 DEF GInv, HolderWalks, ClaimOf
<1>7. a \in Account /\ s \in Space /\ n \in Run
  BY <1>0, <1>1 DEF Row, Sessions
<1>8. /\ made[s] \in Nat /\ stored[a] \in Stored /\ sync[a].deepest \in Nat \cup {-1}
      /\ \A r \in stored[a] : r[1] = s => r[2] <= made[s]
  BY <1>7, GapParts DEF GInv, Existing
<1>9. made'[s] \in Nat /\ made[s] <= made'[s]
  BY <1>7
<1>10. Claim(pc[q], n, made'[s], stored[a], sync[a].deepest, walk[a])
  <2> DEFINE x == made[s]
             y == made'[s]
             X == stored[a]
             z == sync[a].deepest
  <2>0. n \in Run /\ x \in Nat /\ y \in Nat /\ X \in Stored /\ z \in Nat \cup {-1}
    BY <1>7, <1>8, <1>9
  <2> HIDE DEF n, x, y, X, z, a
  <2>a. PICK l, u : l = pc[q] /\ u = walk[a]
    OBVIOUS
  <2>b. PICK n0 \in Run : n0 = n
    BY <2>0
  <2>c. PICK m \in Nat, m1 \in Nat : m = x /\ m1 = y
    BY <2>0
  <2>d. PICK K \in Stored : K = X
    BY <2>0
  <2>e. PICK d \in Nat \cup {-1} : d = z
    BY <2>0
  <2> USE DEF n, x, y, X, z, a
  <2>2. /\ n0.row.space \in Space /\ m <= m1 /\ Claim(l, n0, m, K, d, u)
        /\ \A r \in K : r[1] = n0.row.space => r[2] <= m
    BY <1>6, <1>7, <1>8, <1>9, <2>a, <2>b, <2>c, <2>d, <2>e
  <2>3. Claim(l, n0, m1, K, d, u)
    BY <2>2, ClaimLonger
  <2> QED BY <2>3, <2>a, <2>b, <2>c, <2>d, <2>e
<1>11. stored'[a] = stored[a] /\ sync'[a] = sync[a] /\ walk'[a] = walk[a]
  BY <1>1, <1>4
<1> QED BY <1>10, <1>11 DEF ClaimOf

(* A step of a session, for the accounts and for itself.                   *)
LEMMA OwnWalks ==
    ASSUME GInv, NEW o \in Owner,
           Session(o) \/ TestAnswer(o) \/ \E a \in Account : Ask(o, a) \/ Test(o, a)
    PROVE  /\ Mine(o)' => ClaimOf(pc[o], run[o])'
           /\ Existing' /\ WholeCovered'
<1>0. Tables /\ Sessions /\ IInv /\ \A s \in Space : made[s] \in Nat
  BY GapParts DEF GInv
<1>w. ASSUME Writes(o) PROVE Existing' /\ WholeCovered'
  <2>1. UNCHANGED <<made, acct>>
    BY <1>w DEF Writes
  <2>2. ASSUME NEW b \in Account
        PROVE  WholeAt(b)' /\ \A q \in stored'[b] : q[2] <= made'[q[1]]
    <3>1. CASE b = run[o].row.id
      BY <1>w, <2>1, <3>1 DEF Writes
    <3>2. CASE b # run[o].row.id
      <4>1. stored'[b] = stored[b] /\ sync'[b] = sync[b] /\ walk'[b] = walk[b]
        BY <1>w, <3>2 DEF Writes
      <4>2. WholeAt(b)'
        BY <1>0, <2>1, <4>1, WholeLater DEF Live
      <4> QED BY <2>1, <4>1, <4>2 DEF GInv, Existing
    <3> QED BY <3>1, <3>2
  <2> QED BY <2>2 DEF Existing, WholeCovered
<1>u. ASSUME UNCHANGED <<made, stored, sync>>,
             \A b \in Account : /\ walk'[b] = walk[b]
                                /\ acct'[b].space = acct[b].space
                                /\ acct'[b].state = acct[b].state
      PROVE  Existing' /\ WholeCovered'
  <2>1. Existing'
    BY <1>u DEF GInv, Existing
  <2>2. ASSUME NEW b \in Account PROVE WholeAt(b)'
    BY <1>0, <1>u, WholeLater DEF Live
  <2> QED BY <2>1, <2>2 DEF WholeCovered
<1>a. ASSUME acct' = acct \/ RecordWorkspace(o) \/ TestAnswer(o), NEW b \in Account
      PROVE  acct'[b].space = acct[b].space /\ acct'[b].state = acct[b].state
  <2>1. CASE acct' = acct
    BY <2>1
  <2>2. CASE acct' # acct
    <3> DEFINE a == run[o].row.id
    <3>1. a \in Account /\ acct' = [acct EXCEPT ![a].resolved = acct[a].space]
      BY <1>0, <1>a, <2>2, RecordedCurrent
    <3> HIDE DEF a
    <3> QED BY <1>0, <3>1 DEF Tables, Accounts
  <2> QED BY <2>1, <2>2
<1>1. CASE \/ Start(o) \/ ListDue(o) \/ Pick(o) \/ Resolve(o) \/ RecordWorkspace(o)
           \/ \E a \in Account : Ask(o, a) \/ Test(o, a)
           \/ TestAnswer(o)
  <2>1. acct' = acct \/ RecordWorkspace(o) \/ TestAnswer(o)
    BY <1>1 DEF Start, ListDue, Pick, Resolve, Ask, Test
  <2>2. /\ Mine(o)' => ClaimOf(pc[o], run[o])'
        /\ UNCHANGED <<made, stored, sync, walk>>
    BY <1>1, PassWalks
  <2> QED BY <1>a, <1>u, <2>1, <2>2
<1>2. CASE Answer(o)
  <2>1. UNCHANGED <<made, acct, stored, sync>>
    BY <1>2 DEF Answer
  <2>2. ASSUME NEW b \in Account PROVE WholeAt(b)'
    <3>1. CASE walk'[b] = walk[b]
      BY <1>0, <2>1, <3>1, WholeLater DEF Live
    <3>2. CASE walk'[b] # walk[b]
      <4>1. LET s == acct[b].space IN Above(s, made[s], stored[b], stored[b], 0)
        BY <1>2, <3>2, AnswerWalks
      <4>2. \A c, s : Above(s, made[s], stored[b], stored[b], 0)
                        => Above(s, made[s], stored[b], stored[b], c)
        BY DEF Above
      <4> QED BY <2>1, <4>1, <4>2 DEF WholeAt
    <3> QED BY <3>1, <3>2
  <2>3. Existing'
    BY <2>1 DEF GInv, Existing
  <2> QED BY <1>2, <2>2, <2>3, AnswerWalks DEF WholeCovered
<1>3. CASE \/ InsertNewest(o) \/ InsertEarlier(o) \/ MarkPage(o) \/ CountFirst(o)
           \/ WriteOk(o) \/ CountAgain(o) \/ NoteFailure(o)
  BY <1>3, <1>w, NewestWalks, EarlierWalks, MarkWalks, CountWalks, WriteOkWalks
<1>4. CASE ReadState(o)
  <2>1. UNCHANGED <<made, acct, stored, sync, walk>>
    BY <1>4 DEF ReadState
  <2> QED BY <1>4, <1>u, <2>1, ReadWalks
<1>5. CASE \/ Reject(o) \/ Interrupt(o) \/ Fail(o) \/ Cancel(o) \/ Done(o) \/ Release(o)
  BY <1>5, <1>u, EndWalks
<1> QED BY <1>1, <1>2, <1>3, <1>4, <1>5 DEF Session

(* While a session holds the lease, the others change no account.          *)
LEMMA OthersWalk ==
    ASSUME NEW o \in Owner, NEW q \in Owner, q # o, holder' = q,
           Session(o) \/ TestAnswer(o) \/ \E a \in Account : Ask(o, a) \/ Test(o, a)
    PROVE  UNCHANGED <<walk, made>>
<1>1. ~Answer(o) /\ ~InsertNewest(o) /\ ~InsertEarlier(o)
  BY DEF Answer, InsertNewest, InsertEarlier, Store, Commit, leaseVars
<1> QED BY <1>1
        DEF Session, Start, ListDue, Pick, Resolve, RecordWorkspace, MarkPage,
            CountFirst, Count, ReadState, WriteOk, CountAgain, NoteFailure, Reject,
            Interrupt, Fail, Cancel, Done, Release, TestAnswer, Ask, Test

LEMMA InitGInv == Init => GInv
<1> SUFFICES ASSUME Init PROVE Existing /\ WholeCovered /\ HolderWalks
  BY InitIInv DEF GInv
<1>1. Existing
  BY DEF Init, Existing
<1>2. HolderWalks
  BY NoOwnerAssumption DEF Init, LeaseInit, HolderWalks, Mine
<1>3. WholeCovered
  BY DEF Init, WholeCovered, WholeAt, Live
<1> QED BY <1>1, <1>2, <1>3

(* Upstream, the administrator, a lapse and a crash.                       *)
LEMMA OutsideWalks ==
    ASSUME GInv, [Next]_vars,
           \/ \E s \in Space : Arrive(s)
           \/ \E a \in Account : Create(a) \/ Update(a) \/ Delete(a)
           \/ \E h \in Process : Crash(h)
           \/ Expire \/ UNCHANGED vars
    PROVE  /\ Existing' /\ WholeCovered'
           /\ \A q \in Owner : Mine(q)' => ClaimOf(pc[q], run[q])'
<1>0. Tables /\ Sessions /\ AllSound /\ IInv /\ Upstream
  BY GapParts DEF GInv
<1>m. \A s \in Space : made'[s] \in Nat /\ made[s] \in Nat /\ made[s] <= made'[s]
  <2>1. CASE \E s \in Space : Arrive(s)
    BY <1>0, <2>1 DEF Arrive, Upstream
  <2>2. CASE made' = made
    BY <1>0, <2>2 DEF Upstream
  <2> QED BY <2>1, <2>2 DEF Create, Update, Delete, Crash, Expire, vars
<1>h. ASSUME NEW q \in Owner, Mine(q)'
      PROVE  /\ holder = q /\ (pc'[q] = "dead" \/ (pc'[q] = pc[q] /\ run'[q] = run[q]))
  <2>1. holder' = q /\ q # NoOwner
    BY <1>h, NoOwnerAssumption DEF Mine
  <2>2. CASE Expire
    BY <2>1, <2>2 DEF Expire, Lapse
  <2>3. CASE \E h \in Process : Crash(h)
    BY <2>1, <2>3 DEF Crash
  <2> QED BY <2>1, <2>2, <2>3 DEF Arrive, Create, Update, Delete, leaseVars, sessionVars, vars
<1>q. ASSUME NEW q \in Owner, Mine(q)',
             LET a == run[q].row.id
             IN  run[q].row \in Row /\ SourceUnchanged(run[q].row) =>
                    stored'[a] = stored[a] /\ sync'[a] = sync[a] /\ walk'[a] = walk[a]
      PROVE  ClaimOf(pc[q], run[q])'
  <2>1. CASE pc'[q] = "dead"
    <3>1. "dead" \notin Telling
      BY DEF Telling, Walking
    <3> QED BY <2>1, <3>1, SilentClaim DEF ClaimOf
  <2>2. CASE pc'[q] = pc[q] /\ run'[q] = run[q]
    <3>1. run[q].row \in Row
      BY <1>q, <2>2 DEF Mine
    <3> QED BY <1>m, <1>h, <1>q, <2>2, <3>1, ClaimLater
  <2> QED BY <1>h, <1>q, <2>1, <2>2
<1>1. CASE UNCHANGED <<acct, stored, sync, walk>>
  <2>1. Existing'
    <3> SUFFICES ASSUME NEW a \in Account, NEW q \in stored[a] PROVE q[2] <= made'[q[1]]
      BY <1>1 DEF Existing
    <3>1. q[1] \in Space /\ q[2] \in Nat /\ q[2] <= made[q[1]]
      BY GapParts DEF Stored, GInv, Existing
    <3> QED BY <1>m, <3>1
  <2>2. WholeCovered'
    BY <1>1, <1>m, WholeLater DEF WholeCovered, Live
  <2> QED BY <1>1, <1>q, <2>1, <2>2
<1>2. ASSUME NEW a \in Account, Create(a) \/ Update(a) \/ Delete(a)
      PROVE  /\ Existing' /\ WholeCovered'
             /\ \A q \in Owner : Mine(q)' => ClaimOf(pc[q], run[q])'
  <2>0. made' = made /\ UNCHANGED <<leaseVars, sessionVars>>
    BY <1>2 DEF Create, Update, Delete
  <2>1. ASSUME NEW b \in Account, b # a
        PROVE  /\ acct'[b] = acct[b] /\ stored'[b] = stored[b]
               /\ sync'[b] = sync[b] /\ walk'[b] = walk[b]
    BY <1>0, <1>2, <2>1 DEF Create, Update, Delete, Tables, Accounts, Syncs
  <2>2. stored'[a] \in {stored[a], {}}
    BY <1>0, <1>2 DEF Create, Update, Delete, Tables
  <2>3. Existing'
    <3> SUFFICES ASSUME NEW b \in Account, NEW q \in stored'[b] PROVE q[2] <= made[q[1]]
      BY <2>0 DEF Existing
    <3>1. q \in stored[b]
      BY <2>1, <2>2
    <3> QED BY <3>1 DEF GInv, Existing
  <2>4. WholeAt(a)'
    <3>1. CASE Create(a)
      <4>1. sync'[a].deepest = -1
        BY <1>0, <3>1 DEF Create, Tables, Syncs, EmptySync
      <4>2. StartPage(-1) = 0 /\ From(0) = 0
        BY FromTyped DEF StartPage
      <4>3. acct'[a].space = acct[a].space /\ stored'[a] = stored[a]
        <5>1. PICK en \in BOOLEAN :
                acct' = [acct EXCEPT ![a] = [@ EXCEPT !.state = "live", !.enabled = en]]
          BY <3>1 DEF Create
        <5>2. stored' = stored
          BY <3>1 DEF Create
        <5> QED BY <1>0, <5>1, <5>2 DEF Tables, Accounts
      <4>4. acct[a].space \in Space
        BY GapParts
      <4>5. \A s \in Space : Above(s, made[s], stored[a], stored[a], made[s] - 0)
        BY <1>m DEF Above
      <4> QED BY <2>0, <4>1, <4>2, <4>3, <4>4, <4>5 DEF WholeAt
    <3>2. CASE Update(a)
      <4>1. PICK s \in Space, en \in BOOLEAN, x \in {NoSpace, acct[a].resolved} :
              /\ acct' = [acct EXCEPT ![a] =
                    [@ EXCEPT !.space = s, !.enabled = en, !.rev = acct[a].rev + 1,
                              !.resolved = x]]
              /\ walk' = [walk EXCEPT ![a] = IF s = acct[a].space THEN @ ELSE "torn"]
        BY <3>2 DEF Update
      <4>2. acct'[a].space = s /\ acct'[a].state = acct[a].state
        <5> DEFINE v == acct[a].rev + 1
        <5>1. acct' = [acct EXCEPT ![a] =
                    [@ EXCEPT !.space = s, !.enabled = en, !.rev = v, !.resolved = x]]
          BY <4>1
        <5> HIDE DEF v
        <5> QED BY <1>0, <5>1 DEF Tables, Accounts
      <4>3. walk'[a] = IF s = acct[a].space THEN walk[a] ELSE "torn"
        BY <1>0, <4>1 DEF Tables
      <4>4. stored'[a] = stored[a] /\ sync'[a] = sync[a]
        BY <3>2 DEF Update
      <4> QED BY <1>m, <4>2, <4>3, <4>4, WholeLater DEF Live
    <3>3. CASE Delete(a)
      <4>1. ~Live(a)'
        BY <1>0, <3>3 DEF Delete, Live, Tables, Accounts
      <4> QED BY <4>1 DEF WholeAt
    <3> QED BY <1>2, <3>1, <3>2, <3>3
  <2>5. ASSUME NEW b \in Account PROVE WholeAt(b)'
    <3>1. CASE b = a
      BY <2>4, <3>1
    <3>2. CASE b # a
      BY <1>m, <2>0, <2>1, <3>2, WholeLater DEF Live
    <3> QED BY <3>1, <3>2
  <2>6. ASSUME NEW q \in Owner, Mine(q)' PROVE ClaimOf(pc[q], run[q])'
    <3>1. run[q].row \in Row /\ run'[q] = run[q] /\ run[q].row.id \in Account
      BY <2>0, <2>6 DEF Mine, sessionVars, Row
    <3>2. PICK w \in Row : w = run[q].row
      BY <3>1
    <3>3. RowFits(w) /\ SourceUnchanged(w)'
      BY <1>0, <2>6, <3>1, <3>2
         DEF AllSound, Sound, Mine, SourceUnchanged, Enabled, Live
    <3>4. SourceUnchanged(w)
      BY <1>0, <3>3, NeverReopened
    <3>5. w.id # a
      <4>1. CASE Create(a)
        BY <3>4, <4>1 DEF Create, SourceUnchanged, Enabled, Live
      <4>2. CASE Update(a)
        <5>1. acct'[a].rev = acct[a].rev + 1
          <6>1. PICK s \in Space, en \in BOOLEAN, x \in {NoSpace, acct[a].resolved} :
                  acct' = [acct EXCEPT ![a] =
                    [@ EXCEPT !.space = s, !.enabled = en, !.rev = acct[a].rev + 1,
                              !.resolved = x]]
            BY <4>2 DEF Update
          <6> DEFINE v == acct[a].rev + 1
          <6>2. acct' = [acct EXCEPT ![a] =
                    [@ EXCEPT !.space = s, !.enabled = en, !.rev = v, !.resolved = x]]
            BY <6>1
          <6> HIDE DEF v
          <6>3. acct'[a].rev = v
            BY <1>0, <6>2 DEF Tables, Accounts
          <6> QED BY <6>3 DEF v
        <5>2. acct[a].rev \in Nat
          BY <1>0 DEF Tables, Accounts
        <5> QED BY <3>3, <3>4, <5>1, <5>2 DEF SourceUnchanged
      <4>3. CASE Delete(a)
        <5>1. ~Live(a)'
          BY <1>0, <4>3 DEF Delete, Live, Tables, Accounts
        <5> QED BY <3>3, <5>1 DEF SourceUnchanged, Enabled, Live
      <4> QED BY <1>2, <4>1, <4>2, <4>3
    <3>6. run[q].row.id # a
      BY <3>2, <3>5
    <3> QED BY <1>q, <2>1, <2>6, <3>1, <3>6
  <2> QED BY <2>3, <2>5, <2>6 DEF WholeCovered
<1>3. CASE \/ \E s \in Space : Arrive(s)
           \/ \E h \in Process : Crash(h)
           \/ Expire \/ UNCHANGED vars
  BY <1>1, <1>3 DEF Arrive, Crash, Expire, vars
<1> QED BY <1>2, <1>3

LEMMA StepGInv == GInv /\ [Next]_vars => GInv'
<1> SUFFICES ASSUME GInv, [Next]_vars
             PROVE  /\ Existing' /\ WholeCovered'
                    /\ \A q \in Owner : Mine(q)' => ClaimOf(pc[q], run[q])'
  BY StepIInv DEF GInv, HolderWalks
<1>0. IInv /\ Sessions /\ \A s \in Space : made[s] \in Nat
  BY GapParts DEF GInv
<1>1. ASSUME NEW o \in Owner,
             Session(o) \/ TestAnswer(o) \/ \E a \in Account : Ask(o, a) \/ Test(o, a)
      PROVE  /\ Existing' /\ WholeCovered'
             /\ \A q \in Owner : Mine(q)' => ClaimOf(pc[q], run[q])'
  <2>1. /\ Mine(o)' => ClaimOf(pc[o], run[o])'
        /\ Existing' /\ WholeCovered'
    BY <1>1, OwnWalks
  <2>2. ASSUME NEW q \in Owner, q # o, Mine(q)' PROVE ClaimOf(pc[q], run[q])'
    <3>1. holder = q /\ UNCHANGED <<sync, stored, walk, made>>
      BY <1>1, <2>2, OthersWait, OthersWalk DEF Mine
    <3>2. PICK l \in Pc, n \in Run :
            pc' = [pc EXCEPT ![o] = l] /\ run' = [run EXCEPT ![o] = n]
      BY <1>0, <1>1, SessionStep DEF Moves
    <3>3. pc'[q] = pc[q] /\ run'[q] = run[q]
      BY <1>0, <2>2, <3>2 DEF Sessions
    <3> QED BY <1>0, <2>2, <3>1, <3>3, ClaimLater
  <2> QED BY <2>1, <2>2
<1>2. CASE \/ \E s \in Space : Arrive(s)
           \/ \E a \in Account : Create(a) \/ Update(a) \/ Delete(a)
           \/ \E h \in Process : Crash(h)
           \/ Expire \/ UNCHANGED vars
  BY <1>2, OutsideWalks
<1> QED BY <1>1, <1>2 DEF Next

LEMMA GapInductive == Spec => []GInv
  BY InitGInv, StepGInv, PTL DEF Spec

(* usage_sync.py 138-169, 264-302: what is missing between what is stored  *)
(* and the page the backfill goes on from is nothing.                      *)
THEOREM NothingSkipped == Spec => []NoGap
<1>1. GInv => NoGap
  <2> SUFFICES ASSUME GInv, NEW a \in Account, Live(a), walk[a] = "whole",
                      NEW r \in Missing(a), NEW q \in stored[a], q[1] = r[1],
                      ~(q[2] < r[2])
               PROVE  Depth(r) >= StartPage(sync[a].deepest) * PageSize
    BY DEF NoGap, StillFetchable
  <2> DEFINE s == acct[a].space
             b == From(StartPage(sync[a].deepest))
  <2>1. s \in Space /\ made[s] \in Nat /\ sync[a].deepest \in Nat \cup {-1}
    BY GapParts
  <2>2. r[1] = s /\ r[2] \in 1..made[s] /\ r = <<s, r[2]>> /\ r \notin stored[a]
    BY DEF Missing, Known
  <2>3. b \in Nat
    BY <2>1, StartPageTyped, FromTyped
  <2>4. Above(s, made[s], stored[a], stored[a], made[s] - b)
    BY DEF GInv, WholeCovered, WholeAt
  <2> HIDE DEF b
  <2>5. ~(r[2] > made[s] - b)
    BY <2>2, <2>4 DEF Above
  <2>6. made[s] - r[2] >= b
    BY <2>1, <2>2, <2>3, <2>5
  <2> QED BY <2>2, <2>6 DEF b, From, Depth
<1> QED BY <1>1, GapInductive, PTL
===============================================================================
