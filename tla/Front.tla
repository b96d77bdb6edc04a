------------------------------- MODULE Front -------------------------------
(***************************************************************************)
(* The HTTP front of the tracker: every request passes the rate limiter    *)
(* (LimitMiddleware, cmd/tracker/main.go) before its handler runs.  The    *)
(* handler of interest is HandleSearch (registry.go), which a client calls *)
(* page by page while others register, take down, complete and announce.   *)
(*                                                                         *)
(* rows is the table registry in the order of rowid, the order SQLite      *)
(* scans it in and in which rows with equal keys stay when they are        *)
(* sorted.  A row is its key, when it was created, its completions, and    *)
(* whether the client's filter matches it; HandleAPI replaces the columns  *)
(* the filter reads.  The seeders of a row, by both its hashes, are in RAM.*)
(*                                                                         *)
(* The client is external: it asks for the rows after those it has got     *)
(* until it gets none.  A refused or failed request is one it repeats.     *)
(***************************************************************************)
EXTENDS RateLimiter, Sequences

CONSTANTS
    Hash,           \* info_hash of the rows
    DefaultLimit, MaxLimit,     \* 50 and 100
    ScanCap,        \* seedersSortScanCap
    Wants,          \* limits the client may ask for; 0 is none, or nonsense
    Starts,         \* what it may sort by, and the registry it may meet
    MaxChanges      \* bound: requests that change what is searched

Sorts == {"created_at", "completions", "seeders"}

Row == [hash : Hash, created_at : Int, completions : Nat, fits : BOOLEAN]

(* info_hash is the primary key. *)
Table(t) == /\ t \in Seq(Row)
            /\ \A j, k \in DOMAIN t : j # k => t[j].hash # t[k].hash

ASSUME FrontAssumption ==
    /\ DefaultLimit \in 1 .. MaxLimit /\ MaxLimit \in Nat /\ ScanCap \in Nat
    /\ Wants \subseteq Nat /\ MaxChanges \in Nat /\ IsFiniteSet(Hash)
    /\ \A s \in Starts : /\ s.sort \in Sorts /\ Table(s.rows)
                         /\ s.seeders \in [Hash -> Nat]

VARIABLES
    rows,       \* table registry
    seeders,    \* State.GetCounts for the hashes of a row
    sort, want, \* the query of the client
    got,        \* the rows it has got
    ended,      \* the last page was empty
    first,      \* observed: the rows there were when it started
    changes,    \* observed: requests since then that changed anything,
    lost        \* ... and whether one made a row disappear from the result

client    == <<sort, want, got, ended, first>>
frontVars == <<rows, seeders, client, changes, lost>>
allVars   == <<vars, frontVars>>

(* Any registry that Starts allows when the client begins. *)
FInit == /\ Init
         /\ want \in Wants
         /\ \E s \in Starts : sort = s.sort /\ rows = s.rows /\ seeders = s.seeders
         /\ got = <<>> /\ ended = FALSE /\ first = rows
         /\ changes = 0 /\ lost = FALSE

-----------------------------------------------------------------------------
(* HandleSearch *)

Limit == IF want = 0 THEN DefaultLimit ELSE Lesser(want, MaxLimit)

Matching(s) == {k \in DOMAIN s : s[k].fits}

(* The column, or the count in RAM, that each row is sorted by. *)
Keys(s, by) == [k \in DOMAIN s |-> IF by = "seeders" THEN seeders[s[k].hash]
                                   ELSE s[k][by]]

(* ORDER BY key DESC, and sort.Slice: the rows that come before row k.      *)
(* Equal keys keep their order, as in the insertion sort Go uses up to 12   *)
(* rows; beyond that ties fall another way, the same each time for the same *)
(* rows.                                                                    *)
Ahead(s, key, k) == {j \in Matching(s) : \/ key[j] > key[k]
                                         \/ key[j] = key[k] /\ j < k}

Rank(s, key, k) == Cardinality(Ahead(s, key, k)) + 1

(* The rows the filter matches, in order. *)
Sorted(s, key) == [n \in 1 .. Cardinality(Matching(s)) |->
                     s[CHOOSE k \in Matching(s) : Rank(s, key, k) = n]]

(* LIMIT and OFFSET *)
Window(s, offset, n) == SubSeq(s, offset + 1, Lesser(offset + n, Len(s)))

Newest(t) == Sorted(t, Keys(t, "created_at"))

(* Everything the pages are cut from.  Seeders are not in the table: the   *)
(* newest ScanCap rows are ranked in memory.                               *)
Result(t) ==
    CASE sort = "created_at"  -> Newest(t)
      [] sort = "completions" -> Sorted(t, Keys(t, sort))
      [] sort = "seeders"     -> LET s == Window(Newest(t), 0, ScanCap)
                                 IN Sorted(s, Keys(s, sort))

(* Mutant: the rows ranked in memory are cut in SQL already. *)
PageCutTwice(offset) ==
    IF sort = "seeders"
    THEN LET s == Window(Newest(rows), offset, Limit)
         IN Window(Sorted(s, Keys(s, sort)), offset, Limit)
    ELSE Window(Result(rows), offset, Limit)

Page(offset) == Window(Result(rows), offset, Limit)

HandleSearch ==
    /\ ~ended
    /\ LET page == Page(Len(got)) IN
       /\ got' = got \o [k \in DOMAIN page |-> page[k].hash]
       /\ ended' = (page = <<>>)
    /\ UNCHANGED <<rows, seeders, sort, want, first, changes, lost>>

-----------------------------------------------------------------------------
(* What others do: HandleAPI, HandleAnnounce *)

Change == /\ changes < MaxChanges /\ ~ended
          /\ changes' = changes + 1
          /\ UNCHANGED client

Has(h) == \E k \in DOMAIN rows : rows[k].hash = h

(* Mutant: created_at = excluded.created_at. *)
UpsertRefreshed(h, fits) ==
    [k \in DOMAIN rows |-> IF rows[k].hash = h
                           THEN [rows[k] EXCEPT !.fits = fits, !.created_at = now]
                           ELSE rows[k]]

(* ON CONFLICT DO UPDATE: created_at and completions stay. *)
Upsert(h, fits) ==
    [k \in DOMAIN rows |-> IF rows[k].hash = h THEN [rows[k] EXCEPT !.fits = fits]
                           ELSE rows[k]]

Register(h, fits) ==
    /\ Change
    /\ rows' = IF Has(h) THEN Upsert(h, fits)
               ELSE Append(rows, [hash |-> h, created_at |-> now,
                                  completions |-> 0, fits |-> fits])
    /\ lost' = (lost \/ (Has(h) /\ ~fits))
    /\ UNCHANGED seeders

Takedown(h) ==
    /\ Change /\ Has(h)
    /\ rows' = SelectSeq(rows, LAMBDA r : r.hash # h)
    /\ lost' = TRUE
    /\ UNCHANGED seeders

CountCompletion(h) ==
    /\ Change /\ Has(h)
    /\ rows' = [k \in DOMAIN rows |->
                  IF rows[k].hash = h THEN [rows[k] EXCEPT !.completions = @ + 1]
                  ELSE rows[k]]
    /\ UNCHANGED <<seeders, lost>>

(* A seeder comes or goes. *)
SeederAnnounces(h) ==
    /\ Change
    /\ \/ seeders' = [seeders EXCEPT ![h] = @ + 1]
       \/ seeders[h] > 0 /\ seeders' = [seeders EXCEPT ![h] = @ - 1]
    /\ UNCHANGED <<rows, lost>>

Handler == \/ HandleSearch
           \/ \E h \in Hash : \/ \E fits \in BOOLEAN : Register(h, fits)
                              \/ Takedown(h) \/ CountCompletion(h)
                              \/ SeederAnnounces(h)

(* A refused request reaches no handler; a handler may end in an error. *)
LimitMiddleware(i) ==
    /\ Allow(i)
    /\ \/ Allowed(i) /\ Handler
       \/ UNCHANGED frontVars

FTick == Tick /\ UNCHANGED frontVars

FNext == FTick \/ \E i \in IP : LimitMiddleware(i)

FSpec == FInit /\ [][FNext]_allVars

-----------------------------------------------------------------------------
(* Properties *)

Got == {got[k] : k \in DOMAIN got}

(* A client that pages through a registry nobody changes meanwhile gets     *)
(* every row of the result, in the order of the result and once: however    *)
(* the limit is cut and whatever is sorted where.  Sorted by seeders, the   *)
(* result ends at the scan limit.                                           *)
PagesExact ==
    ended /\ changes = 0 => LET all == Result(first) IN
                            got = [k \in DOMAIN all |-> all[k].hash]

(* Newest first, a client misses nothing that was there when it started, as *)
(* long as no row is taken down or edited out of the filter: new rows and   *)
(* rows registered again only push others towards later pages.              *)
NoRowMissed ==
    ended /\ sort = "created_at" /\ ~lost
      => \A k \in DOMAIN first : first[k].fits => first[k].hash \in Got

=============================================================================
