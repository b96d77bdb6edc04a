------------------------------ MODULE MCFront ------------------------------
(* Front, and with it RateLimiter, for TLC. *)
EXTENDS Front, TLC

(* Two or three rows, by age, with the given values of the other columns. *)
SmallTables(times, counts, fits) ==
    {t \in UNION {[1 .. n -> [hash : Hash, created_at : times, completions : counts,
                              fits : fits]] : n \in 2 .. 3} :
       \A k \in DOMAIN t, j \in DOMAIN t :
         j < k => t[j].hash # t[k].hash /\ t[j].created_at <= t[k].created_at}

(* Each order with the keys that matter to it. *)
SmallStarts ==
         [sort : {"created_at"}, rows : SmallTables({-5, -1, 0}, {0}, BOOLEAN),
          seeders : [Hash -> {0}]]
    \cup [sort : {"completions"}, rows : SmallTables({-1, 0}, {0, 1}, {TRUE}),
          seeders : [Hash -> {0}]]
    \cup [sort : {"seeders"}, rows : SmallTables({-1, 0}, {0}, {TRUE}),
          seeders : [Hash -> {0, 1}]]

Symmetric == Permutations(IP) \cup Permutations(Hash)

=============================================================================
