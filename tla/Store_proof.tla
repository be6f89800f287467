----------------------------- MODULE Store_proof -----------------------------
(***************************************************************************)
(* Proofs about Store, for any listings, coupons, configurations, peers    *)
(* and images, and any number of publishes, updates and restarts.          *)
(*                                                                         *)
(* StoreOK is about the data of the update that is being written, or of    *)
(* the directory when none is: an update changes the tables and names its  *)
(* files in one step, and writes the files afterwards, so the directory    *)
(* itself agrees with the tables only in between.                          *)
(*                                                                         *)
(* PublishOK follows the publish that no other has superseded: what it     *)
(* read is what there is to show unless another publish is due (a call     *)
(* waits, or an update that will publish is being written), and its root   *)
(* is pinned unless a superseded publish took a pin away late.             *)
(***************************************************************************)
EXTENDS Store, FiniteSetTheorems, TLAPS

PubPlace == Working \cup {"none", "waits", "ended", "failed", "gone"}

\* What is known of a call of Publish.
PubState == [at : PubPlace, old : Dir \cup {None}, root : Dir \cup {None}]

PubTypes ==
  /\ calls \in 0..MaxCalls /\ current \in 0..calls /\ closed \subseteq 1..calls
  /\ pub \in [Call -> PubState]
  /\ record \in Dir \cup {None} /\ pinned \subseteq Dir \cup {None}
  /\ \A c \in Call : c > calls => pub[c].at = "none"
  /\ \A c \in Call : pub[c].at \in {"reads", "names"} => pub[c].root \in Dir
  /\ booted \in BOOLEAN /\ up \in BOOLEAN /\ late \in BOOLEAN

StoreTypes ==
  /\ dir \in Dir /\ writing \in Writing \cup {None}
  /\ coupons \subseteq Row
  /\ prefs \subseteq Moderators /\ config \in Configs /\ provider \in BOOLEAN /\ rewritten \subseteq Slug
  /\ starting \in {"ready", "coins", "servers"} /\ barred \subseteq Slug /\ expired \subseteq Slug
  /\ free \in 0..MaxFree /\ starts \in 0..MaxStarts

Types == PubTypes /\ StoreTypes

-----------------------------------------------------------------------------
(* The invariant of the tables and files *)

\* The directory once the update that is being written is done.
Data == IF writing = None THEN dir ELSE writing.dir

\* The index and the counts of the profile agree with the rest of a directory.
Tidy(d) ==
  /\ d.index = d.listings
  /\ d.profile # None => /\ d.profile.listings = Cardinality(Indexed(d))
                         /\ d.profile.following = Cardinality(d.following)

\* The table has the coupons of every listing and no other.
Coupled(listings, rows) ==
  \A s \in Slug : {r.hash : r \in {k \in rows : k.slug = s}}
                  = IF listings[s] = None THEN {} ELSE listings[s].coupons

Known(rows, slugs) == \A r \in rows : r.code = r.hash \/ r.slug \in slugs

Accepted(listings, coins) == \A s \in Slug : listings[s] # None => listings[s].coins \subseteq coins

StoreOK ==
  /\ Tidy(Data) /\ Coupled(Data.listings, coupons) /\ Known(coupons, rewritten)
  /\ starting # "coins" => barred # {} \/ Accepted(Data.listings, config.coins)

-----------------------------------------------------------------------------
(* Directories *)

\* The fields of a directory.
LEMMA DirIs ==
  ASSUME NEW d \in Dir
  PROVE  /\ d.listings \in [Slug -> Listings \cup {None}] /\ d.index \in [Slug -> Listings \cup {None}]
         /\ d.indexed \in BOOLEAN /\ d.profile \in Profile \cup {None}
         /\ d.images \subseteq Images /\ d.followers \subseteq Peers /\ d.following \subseteq Peers
         /\ d = [listings |-> d.listings, index |-> d.index, indexed |-> d.indexed,
                 profile |-> d.profile, images |-> d.images, followers |-> d.followers,
                 following |-> d.following]
BY DEF Dir

LEMMA Counts ==
  ASSUME NEW d \in Dir
  PROVE  /\ Cardinality(Indexed(d)) \in 0..Cardinality(Slug)
         /\ Cardinality(d.followers) \in 0..Cardinality(Peers)
         /\ Cardinality(d.following) \in 0..Cardinality(Peers)
<1>1. Indexed(d) \subseteq Slug
  BY DEF Indexed
<1>2. d.followers \subseteq Peers /\ d.following \subseteq Peers
  BY DirIs
<1>3. \A S, T : IsFiniteSet(T) /\ S \subseteq T => Cardinality(S) \in 0..Cardinality(T)
  BY FS_Subset, FS_CardinalityType
<1> QED BY <1>1, <1>2, <1>3, FiniteAssumption

LEMMA WithStatsTyped ==
  ASSUME NEW d \in Dir
  PROVE  /\ WithStats(d) \in Dir
         /\ WithStats(d).listings = d.listings /\ WithStats(d).index = d.index
         /\ WithStats(d).images = d.images /\ WithStats(d).following = d.following
         /\ WithStats(d).indexed = d.indexed /\ WithStats(d).followers = d.followers
         /\ (WithStats(d).profile = None <=> d.profile = None)
         /\ d.profile # None => WithStats(d).profile =
              [d.profile EXCEPT !.listings = Cardinality(Indexed(d)),
                                !.followers = Cardinality(d.followers),
                                !.following = Cardinality(d.following)]
<1>1. CASE d.profile = None
  BY <1>1 DEF WithStats
<1>2. CASE d.profile # None
  <2> DEFINE p == [d.profile EXCEPT !.listings = Cardinality(Indexed(d)),
                                !.followers = Cardinality(d.followers),
                                !.following = Cardinality(d.following)]
  <2>1. p \in Profile
    BY <1>2, Counts, DirIs DEF Profile
  <2>2. WithStats(d) = [d EXCEPT !.profile = p]
    BY <1>2 DEF WithStats, Dir
  <2>3. p # None
    BY <2>1, NothingAssumption
  <2> HIDE DEF p
  <2>4. /\ WithStats(d) \in Dir /\ WithStats(d).profile = p
         /\ WithStats(d).listings = d.listings /\ WithStats(d).index = d.index
         /\ WithStats(d).images = d.images /\ WithStats(d).following = d.following
         /\ WithStats(d).indexed = d.indexed /\ WithStats(d).followers = d.followers
    BY <2>1, <2>2 DEF Dir
  <2> QED BY <1>2, <2>3, <2>4 DEF p
<1> QED BY <1>1, <1>2

LEMMA MergeTyped ==
  ASSUME NEW d \in Dir, NEW D \in SUBSET Slug, NEW new \in [D -> Listings]
  PROVE  /\ Merged(new, d.listings) \in [Slug -> Listings \cup {None}]
         /\ Merged(new, d.index) \in [Slug -> Listings \cup {None}]
         /\ \A s \in Slug : Merged(new, d.listings)[s] = IF s \in D THEN new[s] ELSE d.listings[s]
         /\ d.index = d.listings => Merged(new, d.index) = Merged(new, d.listings)
BY DirIs DEF Merged

\* A directory that counts itself is tidy once its index says what its listings are.
LEMMA CountedIsTidy ==
  ASSUME NEW d \in Dir, d.index = d.listings
  PROVE  Tidy(WithStats(d))
<1>1. Indexed(WithStats(d)) = Indexed(d)
  BY WithStatsTyped DEF Indexed
<1>2. CASE d.profile = None
  BY <1>2, WithStatsTyped DEF Tidy
<1>3. CASE d.profile # None
  <2>1. d.profile \in Profile
    BY <1>3, DirIs
  <2>2. /\ WithStats(d).profile.listings = Cardinality(Indexed(d))
        /\ WithStats(d).profile.following = Cardinality(d.following)
    BY <1>3, <2>1, WithStatsTyped DEF Profile
  <2> QED BY <1>1, <2>2, WithStatsTyped DEF Tidy
<1> QED BY <1>2, <1>3

-----------------------------------------------------------------------------
(* What an update does to the invariant *)

\* An update that is begun: the data become what it will have written.
LEMMA UpdateBegins ==
  ASSUME Types, NEW new \in Dir, NEW first, NEW publish \in BOOLEAN, Update(new, first, publish)
  PROVE  /\ PubTypes' /\ dir' \in Dir /\ writing' \in Writing \cup {None} /\ config' \in Configs
         /\ free' \in 0..MaxFree /\ starts' \in 0..MaxStarts
         /\ Data = dir /\ Data' = new /\ config' = config /\ writing' # None
<1>1. writing' \in Writing /\ writing' # None /\ writing'.dir = new
  BY NothingAssumption DEF Update, Writing
<1>2. dir \in Dir
  BY DEF Types, StoreTypes
<1>3. dir' \in Dir
  BY <1>2 DEF Update, Dir
<1>4. free' \in 0..MaxFree
  BY StoreAssumption DEF Update, Types, StoreTypes
<1>5. PubTypes'
  BY DEF Types, PubTypes, Update, publishVars
<1> QED BY <1>1, <1>3, <1>4, <1>5 DEF Update, Idle, Types, StoreTypes, Data

LEMMA UpdateKeeps ==
  ASSUME Types, StoreOK,
         NEW new \in Dir, NEW first, NEW publish \in BOOLEAN, Update(new, first, publish),
         coupons' \subseteq Row, prefs' \subseteq Moderators, provider' \in BOOLEAN,
         rewritten' \subseteq Slug, starting' \in {"ready", "coins", "servers"}, barred' \subseteq Slug, expired' \subseteq Slug,
         Tidy(new), Coupled(new.listings, coupons'), Known(coupons', rewritten'),
         starting' # "coins" => barred' # {} \/ Accepted(new.listings, config.coins)
  PROVE  Types' /\ StoreOK' /\ writing' # None
<1>1. Types'
  BY UpdateBegins DEF Types, StoreTypes
<1>2. Data' = new /\ config' = config
  BY UpdateBegins
<1>3. StoreOK'
  BY <1>2 DEF StoreOK
<1> QED BY <1>1, <1>3, UpdateBegins

\* An update that leaves the listings alone.
LEMMA SmallUpdateKeeps ==
  ASSUME Types, StoreOK,
         NEW new \in Dir, NEW first, NEW publish \in BOOLEAN, Update(new, first, publish),
         prefs' \subseteq Moderators, provider' \in BOOLEAN,
         coupons' = coupons, rewritten' = rewritten, starting' = starting, barred' = barred, expired' = expired,
         Tidy(new), new.listings = dir.listings
  PROVE  Types' /\ StoreOK' /\ writing' # None
<1>1. Data = dir
  BY UpdateBegins
<1>2. /\ Coupled(new.listings, coupons) /\ Known(coupons, rewritten)
      /\ starting # "coins" => barred # {} \/ Accepted(new.listings, config.coins)
  BY <1>1 DEF StoreOK
<1> QED BY <1>2, UpdateKeeps DEF Types, StoreTypes

-----------------------------------------------------------------------------
(* Saving and deleting a listing *)

\* A listing as it is saved: coupons by their codes or by the hashes of them.
Draft == [mods : SUBSET Moderators, coins : (SUBSET UNION {c.coins : c \in Configs}) \ {{}},
          coupons : SUBSET [is : {"code", "hash"}, of : Codes \cup {NoCode}]]

LEMMA PutTyped ==
  ASSUME dir \in Dir, NEW s \in Slug, NEW draft \in Draft
  PROVE  /\ Saved(draft) \in Listings /\ PutListing(s, draft) \in Dir
         /\ Saved(draft).coins = draft.coins
         /\ Saved(draft).coupons = {k.of : k \in draft.coupons}
         /\ PutListing(s, draft).listings = [dir.listings EXCEPT ![s] = Saved(draft)]
         /\ dir.index = dir.listings => Tidy(PutListing(s, draft))
<1> DEFINE lst == Saved(draft)
           d == [dir EXCEPT !.listings[s] = lst, !.index[s] = lst, !.indexed = TRUE]
<1>1. lst \in Listings /\ lst.coins = draft.coins /\ lst.coupons = {k.of : k \in draft.coupons}
  <2>1. {k.of : k \in draft.coupons} \subseteq Codes \cup {NoCode}
    BY DEF Draft
  <2> DEFINE coins == (SUBSET UNION {c.coins : c \in Configs}) \ {{}}
             codes == {k.of : k \in draft.coupons}
  <2>2. /\ Draft = [mods : SUBSET Moderators, coins : coins,
                    coupons : SUBSET [is : {"code", "hash"}, of : Codes \cup {NoCode}]]
        /\ Listings = [mods : SUBSET Moderators, coins : coins, coupons : SUBSET (Codes \cup {NoCode})]
        /\ lst = [draft EXCEPT !.coupons = codes]
    BY DEF Draft, Listings, Saved
  <2> HIDE DEF coins, codes, lst
  <2>3. lst \in Listings /\ lst.coins = draft.coins /\ lst.coupons = codes
    BY <2>1, <2>2 DEF codes
  <2> QED BY <2>3 DEF codes
<1> HIDE DEF lst
<1>2. /\ [dir.listings EXCEPT ![s] = lst] \in [Slug -> Listings \cup {None}]
      /\ [dir.index EXCEPT ![s] = lst] \in [Slug -> Listings \cup {None}]
  BY <1>1, DirIs
<1>3. d = [dir EXCEPT !.listings = [dir.listings EXCEPT ![s] = lst],
                      !.index = [dir.index EXCEPT ![s] = lst], !.indexed = TRUE]
  BY DEF Dir
<1>4. /\ d \in Dir /\ d.listings = [dir.listings EXCEPT ![s] = lst]
      /\ d.index = [dir.index EXCEPT ![s] = lst]
  BY <1>2, <1>3 DEF Dir
<1>5. PutListing(s, draft) = WithStats(d)
  BY DEF PutListing, lst
<1> HIDE DEF d
<1>6. dir.index = dir.listings => Tidy(WithStats(d))
  BY <1>4, CountedIsTidy
<1>7. PutListing(s, draft) \in Dir /\ PutListing(s, draft).listings = d.listings
  BY <1>4, <1>5, WithStatsTyped
<1> QED BY <1>1, <1>4, <1>5, <1>6, <1>7 DEF lst

LEMMA RowsTyped ==
  ASSUME coupons \subseteq Row, NEW s \in Slug, NEW draft \in Draft,
         NEW listings \in [Slug -> Listings \cup {None}], Coupled(listings, coupons),
         NEW lst \in Listings, lst.coupons = {k.of : k \in draft.coupons},
         Known(coupons, rewritten),
         NEW slugs, slugs = IF \A k \in draft.coupons : k.is = "code" THEN rewritten \ {s}
                            ELSE rewritten \cup {s}
  PROVE  /\ Rows(s, draft) \subseteq Row
         /\ Coupled([listings EXCEPT ![s] = lst], Rows(s, draft))
         /\ Known(Rows(s, draft), slugs)
<1> DEFINE rows == Rows(s, draft)
           fresh == {[slug |-> s, hash |-> k.of, code |-> IF k.is = "code" THEN k.of ELSE NoCode]
                       : k \in draft.coupons}
<1>1. \A k \in draft.coupons : k.is \in {"code", "hash"} /\ k.of \in Codes \cup {NoCode}
  BY DEF Draft
<1>2. rows = {r \in coupons : r.slug # s} \cup fresh
  BY DEF Rows
<1>3. \A r \in fresh : r \in Row /\ r.slug = s /\ (r.code = r.hash \/ s \in slugs)
  BY <1>1 DEF Row
<1>4. lst.coupons = {r.hash : r \in fresh}
  <2>1. ASSUME NEW k \in draft.coupons PROVE \E r \in fresh : r.hash = k.of
    <3> DEFINE r == [slug |-> s, hash |-> k.of, code |-> IF k.is = "code" THEN k.of ELSE NoCode]
    <3>1. r \in fresh /\ r.hash = k.of
      OBVIOUS
    <3> QED BY <3>1
  <2>2. ASSUME NEW r \in fresh PROVE \E k \in draft.coupons : r.hash = k.of
    OBVIOUS
  <2> HIDE DEF fresh
  <2> QED BY <2>1, <2>2
<1> HIDE DEF rows, fresh
<1>5. rows \subseteq Row
  BY <1>2, <1>3
<1>6. Known(rows, slugs)
  <2>1. ASSUME NEW r \in rows PROVE r.code = r.hash \/ r.slug \in slugs
    <3>1. CASE r \in fresh
      BY <1>3, <3>1
    <3>2. CASE r \in coupons /\ r.slug # s
      BY <3>2 DEF Known
    <3> QED BY <1>2, <3>1, <3>2
  <2> QED BY <2>1 DEF Known
<1>7. ASSUME NEW t \in Slug
      PROVE  {r.hash : r \in {k \in rows : k.slug = t}}
             = IF [listings EXCEPT ![s] = lst][t] = None THEN {} ELSE [listings EXCEPT ![s] = lst][t].coupons
  <2>1. CASE t = s
    <3>1. {k \in rows : k.slug = t} = fresh
      BY <1>2, <1>3, <2>1
    <3>2. [listings EXCEPT ![s] = lst][t] = lst /\ lst # None
      BY <2>1, NothingAssumption
    <3> QED BY <1>4, <3>1, <3>2
  <2>2. CASE t # s
    <3>1. {k \in rows : k.slug = t} = {k \in coupons : k.slug = t}
      BY <1>2, <1>3, <2>2
    <3>2. [listings EXCEPT ![s] = lst][t] = listings[t]
      BY <2>2
    <3> QED BY <3>1, <3>2 DEF Coupled
  <2> QED BY <2>1, <2>2
<1>8. Coupled([listings EXCEPT ![s] = lst], rows)
  BY <1>7 DEF Coupled
<1> QED BY <1>5, <1>6, <1>8 DEF rows

LEMMA SaveListingKeeps ==
  ASSUME Types, StoreOK, NEW s \in Slug, NEW draft \in Draft, SaveListing(s, draft)
  PROVE  Types' /\ StoreOK' /\ writing' # None
<1> DEFINE new == PutListing(s, draft)
           lst == Saved(draft)
<1>1. Update(new, {"listings"}, TRUE) /\ CanSave(draft)
  BY DEF SaveListing
<1>2. dir \in Dir /\ coupons \subseteq Row /\ rewritten \subseteq Slug /\ expired \subseteq Slug
  BY DEF Types, StoreTypes
<1>3. /\ new \in Dir /\ lst \in Listings /\ new.listings = [dir.listings EXCEPT ![s] = lst]
      /\ lst.coins = draft.coins /\ lst.coupons = {k.of : k \in draft.coupons}
      /\ dir.index = dir.listings => Tidy(new)
  BY <1>2, PutTyped
<1> HIDE DEF new, lst
<1>4. Data = dir
  BY <1>1, <1>3, UpdateBegins
<1>5. /\ dir.listings \in [Slug -> Listings \cup {None}] /\ dir.index = dir.listings
      /\ Coupled(dir.listings, coupons) /\ Known(coupons, rewritten)
      /\ starting # "coins" => barred # {} \/ Accepted(dir.listings, config.coins)
  BY <1>2, <1>4, DirIs DEF StoreOK, Tidy
<1>6. /\ coupons' = Rows(s, draft)
      /\ rewritten' = IF \A k \in draft.coupons : k.is = "code" THEN rewritten \ {s}
                      ELSE rewritten \cup {s}
      /\ prefs' = prefs /\ provider' = provider /\ starting' = starting /\ barred' = barred
      /\ expired' = expired \ {s}
  BY DEF SaveListing
<1>7. coupons' \subseteq Row /\ Coupled(new.listings, coupons') /\ Known(coupons', rewritten')
  <2> DEFINE rows == Rows(s, draft)
  <2>1. PICK listings : listings = dir.listings
    OBVIOUS
  <2>2. listings \in [Slug -> Listings \cup {None}] /\ Coupled(listings, coupons)
    BY <1>5, <2>1
  <2>3. /\ rows \subseteq Row /\ Coupled([listings EXCEPT ![s] = lst], rows)
        /\ Known(rows, rewritten')
    <3> HIDE DEF rows
    <3>1. PICK slugs : slugs = rewritten'
      OBVIOUS
    <3>2. slugs = IF \A k \in draft.coupons : k.is = "code" THEN rewritten \ {s}
                  ELSE rewritten \cup {s}
      BY <1>6, <3>1
    <3>3. Known(rows, slugs) /\ rows \subseteq Row /\ Coupled([listings EXCEPT ![s] = lst], rows)
      BY <1>2, <1>3, <1>5, <2>2, <3>2, RowsTyped DEF rows
    <3> QED BY <3>1, <3>3
  <2> HIDE DEF rows
  <2>4. new.listings = [listings EXCEPT ![s] = lst] /\ coupons' = rows
    BY <1>3, <1>6, <2>1 DEF rows
  <2> QED BY <1>6, <2>3, <2>4
<1>8. Accepted(dir.listings, config.coins) => Accepted(new.listings, config.coins)
  BY <1>1, <1>3, <1>5 DEF Accepted, CanSave
<1> QED BY <1>1, <1>2, <1>3, <1>5, <1>6, <1>7, <1>8, UpdateKeeps DEF Types, StoreTypes

\* In a listing of the index the listing itself is there.
LEMMA IndexedListing ==
  ASSUME Types, StoreOK, Idle, NEW s \in Indexed(dir)
  PROVE  s \in Slug /\ dir.listings[s] \in Listings
<1>1. dir \in Dir /\ dir.index = dir.listings
  BY DEF Types, StoreTypes, StoreOK, Data, Idle, Tidy
<1> QED BY <1>1, DirIs DEF Indexed

LEMMA SaveNewListingKeeps ==
  ASSUME Types, StoreOK, SaveNewListing
  PROVE  Types' /\ StoreOK' /\ writing' # None
<1>1. PICK s \in Slug, codes \in SUBSET Codes, coins \in SUBSET config.coins :
        SaveListing(s, [mods |-> {}, coins |-> coins, coupons |-> {[is |-> "code", of |-> c] : c \in codes}])
  BY DEF SaveNewListing
<1> DEFINE draft == [mods |-> {}, coins |-> coins, coupons |-> {[is |-> "code", of |-> c] : c \in codes}]
           all == UNION {c.coins : c \in Configs}
<1>2. coins # {}
  BY <1>1 DEF SaveListing, CanSave
<1>3. config \in Configs
  BY DEF Types, StoreTypes
<1>4. coins \subseteq all
  BY <1>3
<1>5. {[is |-> "code", of |-> c] : c \in codes} \subseteq [is : {"code", "hash"}, of : Codes \cup {NoCode}]
  OBVIOUS
<1> HIDE DEF all
<1>6. draft \in [mods : SUBSET Moderators, coins : (SUBSET all) \ {{}},
                  coupons : SUBSET [is : {"code", "hash"}, of : Codes \cup {NoCode}]]
  BY <1>2, <1>4, <1>5
<1>7. draft \in Draft
  BY <1>6 DEF Draft, all
<1> QED BY <1>1, <1>7, SaveListingKeeps

LEMMA EditListingKeeps ==
  ASSUME Types, StoreOK, NEW s \in Slug, EditListing(s)
  PROVE  Types' /\ StoreOK' /\ writing' # None
<1> DEFINE codes == {r \in coupons : r.slug = s /\ r.hash \in dir.listings[s].coupons}
           Named(is) == {[is |-> is, of |-> IF is = "code" THEN r.code ELSE r.hash] : r \in codes}
           Edited(coins, is) == [dir.listings[s] EXCEPT !.coins = coins, !.coupons = Named(is)]
           all == UNION {c.coins : c \in Configs}
<1>1. PICK coins \in SUBSET config.coins, is \in {"code", "hash"} : SaveListing(s, Edited(coins, is))
  BY DEF EditListing
<1>2. Idle /\ s \in Indexed(dir)
  BY <1>1 DEF EditListing, SaveListing, Update
<1>3. dir.listings[s] \in Listings
  BY <1>2, IndexedListing
<1> DEFINE lst == dir.listings[s]
<1>4. Named(is) \subseteq [is : {"code", "hash"}, of : Codes \cup {NoCode}]
  <2>1. \A r \in codes : r.code \in Codes \cup {NoCode} /\ r.hash \in Codes \cup {NoCode}
    BY DEF Types, StoreTypes, Row
  <2> HIDE DEF codes
  <2> QED BY <2>1
<1>5. Edited(coins, is).coins = coins
  BY <1>3 DEF Listings
<1>6. coins # {}
  <2> HIDE DEF Edited
  <2> QED BY <1>1, <1>5 DEF SaveListing, CanSave
<1>7. coins \subseteq all
  BY DEF Types, StoreTypes
<1>8. Listings = [mods : SUBSET Moderators, coins : (SUBSET all) \ {{}},
                  coupons : SUBSET (Codes \cup {NoCode})]
  BY DEF Listings
<1>9. Draft = [mods : SUBSET Moderators, coins : (SUBSET all) \ {{}},
               coupons : SUBSET [is : {"code", "hash"}, of : Codes \cup {NoCode}]]
  BY DEF Draft
<1>10. Edited(coins, is) \in Draft
  <2> DEFINE drafted == Named(is)
  <2>1. Edited(coins, is) = [lst EXCEPT !.coins = coins, !.coupons = drafted]
    OBVIOUS
  <2> HIDE DEF all, drafted, Edited, lst
  <2>2. drafted \subseteq [is : {"code", "hash"}, of : Codes \cup {NoCode}] /\ lst \in Listings
    BY <1>3, <1>4 DEF drafted, lst
  <2> QED BY <1>6, <1>7, <1>8, <1>9, <2>1, <2>2
<1> HIDE DEF Edited
<1> QED BY <1>1, <1>10, SaveListingKeeps

LEMMA DeleteListingKeeps ==
  ASSUME Types, StoreOK, NEW s \in Slug, DeleteListing(s)
  PROVE  Types' /\ StoreOK' /\ writing' # None
<1> DEFINE d == [dir EXCEPT !.listings[s] = None, !.index[s] = None]
           gone == [dir.listings EXCEPT ![s] = None]
<1>1. Update(WithStats(d), {"index", "indexed"}, TRUE)
  BY DEF DeleteListing
<1>2. dir \in Dir /\ coupons \subseteq Row /\ rewritten \subseteq Slug /\ expired \subseteq Slug /\ Idle
  BY <1>1 DEF Types, StoreTypes, Update
<1>3. /\ dir.listings \in [Slug -> Listings \cup {None}] /\ dir.index = dir.listings
      /\ Coupled(dir.listings, coupons) /\ Known(coupons, rewritten)
      /\ starting # "coins" => barred # {} \/ Accepted(dir.listings, config.coins)
  BY <1>2, DirIs DEF StoreOK, Tidy, Data, Idle
<1>4. d \in Dir /\ d.listings = gone /\ d.index = gone
  <2>1. gone \in [Slug -> Listings \cup {None}]
    BY <1>3
  <2>2. d = [dir EXCEPT !.listings = gone, !.index = gone]
    BY <1>2, <1>3 DEF Dir
  <2> HIDE DEF d, gone
  <2> QED BY <1>2, <2>1, <2>2 DEF Dir
<1> HIDE DEF d
<1>5. WithStats(d) \in Dir /\ WithStats(d).listings = gone /\ Tidy(WithStats(d))
  BY <1>4, WithStatsTyped, CountedIsTidy
<1>6. /\ coupons' = {r \in coupons : r.slug # s} /\ rewritten' = rewritten \ {s}
      /\ prefs' = prefs /\ provider' = provider /\ starting' = starting /\ barred' = barred
      /\ expired' = expired \ {s}
  BY DEF DeleteListing
<1>7. Coupled(gone, coupons')
  <2>1. ASSUME NEW t \in Slug
        PROVE  {r.hash : r \in {k \in coupons' : k.slug = t}} = IF gone[t] = None THEN {} ELSE gone[t].coupons
    <3>1. CASE t = s
      BY <1>3, <1>6, <3>1
    <3>2. CASE t # s
      <4>1. {k \in coupons' : k.slug = t} = {k \in coupons : k.slug = t} /\ gone[t] = dir.listings[t]
        BY <1>3, <1>6, <3>2
      <4> QED BY <1>3, <4>1 DEF Coupled
    <3> QED BY <3>1, <3>2
  <2> QED BY <2>1 DEF Coupled
<1>8. Known(coupons', rewritten')
  BY <1>3, <1>6 DEF Known
<1>9. Accepted(dir.listings, config.coins) => Accepted(gone, config.coins)
  BY <1>3 DEF Accepted
<1> HIDE DEF gone
<1> QED BY <1>1, <1>2, <1>3, <1>5, <1>6, <1>7, <1>8, <1>9, UpdateKeeps DEF Types, StoreTypes

LEMMA ExpireKeeps ==
  ASSUME Types, StoreOK, NEW s \in Slug, Expire(s)
  PROVE  Types' /\ StoreOK'
<1>1. /\ expired' \subseteq Slug /\ free' \in 0..MaxFree
      /\ UNCHANGED <<dir, booted, up, publishVars, writing, coupons, prefs, config, provider,
                     starting, rewritten, barred, starts>>
  BY StoreAssumption DEF Expire, Types, StoreTypes
<1>2. Types'
  BY <1>1 DEF Types, StoreTypes, PubTypes, publishVars
<1>3. Data' = Data
  BY <1>1 DEF Data
<1> QED BY <1>1, <1>2, <1>3 DEF StoreOK

-----------------------------------------------------------------------------
(* updateAllListings *)

LEMMA AllUpdatedTyped ==
  ASSUME dir \in Dir, Tidy(dir), dir.index = dir.listings, NEW D \in SUBSET Slug, NEW new \in [D -> Listings]
  PROVE  /\ AllUpdated(new) \in Dir /\ Tidy(AllUpdated(new))
         /\ AllUpdated(new).listings = Merged(new, dir.listings)
<1> DEFINE merged == Merged(new, dir.listings)
           d == [dir EXCEPT !.listings = Merged(new, @), !.index = Merged(new, @)]
<1>1. merged \in [Slug -> Listings \cup {None}] /\ Merged(new, dir.index) = merged
  BY MergeTyped
<1>2. d = [dir EXCEPT !.listings = merged, !.index = merged]
  BY <1>1 DEF Dir
<1> HIDE DEF merged, d
<1>3. d \in Dir /\ d.listings = merged /\ d.index = merged
  BY <1>1, <1>2 DEF Dir
<1>4. CASE D # {}
  <2>1. AllUpdated(new) = WithStats(d)
    BY <1>4 DEF AllUpdated, d
  <2> QED BY <1>3, <2>1, WithStatsTyped, CountedIsTidy DEF merged
<1>5. CASE D = {}
  <2>1. AllUpdated(new) = dir
    BY <1>5 DEF AllUpdated
  <2>2. Merged(new, dir.listings) = dir.listings
    <3>1. \A s \in Slug : Merged(new, dir.listings)[s] = dir.listings[s]
      BY <1>5, DirIs DEF Merged
    <3>2. /\ dir.listings \in [Slug -> Listings \cup {None}]
          /\ Merged(new, dir.listings) \in [Slug -> Listings \cup {None}]
      BY <1>1, DirIs DEF merged
    <3> QED BY <3>1, <3>2
  <2> QED BY <2>1, <2>2
<1> QED BY <1>4, <1>5

LEMMA ReadBackTyped ==
  ASSUME coupons \subseteq Row, NEW listings \in [Slug -> Listings \cup {None}],
         Coupled(listings, coupons), Known(coupons, rewritten),
         NEW D \in SUBSET Slug, NEW new \in [D -> Listings]
  PROVE  /\ RowsReadBack(new) \subseteq Row
         /\ Coupled(Merged(new, listings), RowsReadBack(new))
         /\ Known(RowsReadBack(new), rewritten \cup D)
<1>0. PICK merged : merged = Merged(new, listings)
  OBVIOUS
<1>a. \A s \in Slug : merged[s] = IF s \in D THEN new[s] ELSE listings[s]
  BY <1>0 DEF Merged
<1> DEFINE rows == RowsReadBack(new)
           Of(s) == {[slug |-> s, hash |-> h, code |-> NoCode] : h \in new[s].coupons}
           kept == {r \in coupons : r.slug \notin D}
           fresh == UNION {Of(s) : s \in D}
<1>1. rows = kept \cup fresh
  BY DEF RowsReadBack
<1>2. \A s \in D : new[s] \in Listings /\ new[s].coupons \subseteq Codes \cup {NoCode}
  BY DEF Listings
<1>3. \A s \in D : \A r \in Of(s) : r \in Row /\ r.slug = s
  BY <1>2 DEF Row
<1>4. \A s \in D : {r.hash : r \in Of(s)} = new[s].coupons
  <2>1. ASSUME NEW s \in D, NEW h \in new[s].coupons PROVE \E r \in Of(s) : r.hash = h
    <3>1. [slug |-> s, hash |-> h, code |-> NoCode] \in Of(s)
      OBVIOUS
    <3> QED BY <3>1
  <2>2. ASSUME NEW s \in D, NEW r \in Of(s) PROVE r.hash \in new[s].coupons
    OBVIOUS
  <2> HIDE DEF Of
  <2> QED BY <2>1, <2>2
<1> HIDE DEF rows, Of
<1>5. rows \subseteq Row
  BY <1>1, <1>3
<1>6. Known(rows, rewritten \cup D)
  <2>1. ASSUME NEW r \in rows PROVE r.code = r.hash \/ r.slug \in rewritten \cup D
    <3>1. CASE r \in fresh
      BY <1>3, <3>1
    <3>2. CASE r \in kept
      BY <3>2 DEF Known
    <3> QED BY <1>1, <3>1, <3>2
  <2> QED BY <2>1 DEF Known
<1>7. ASSUME NEW t \in Slug
      PROVE  {r.hash : r \in {k \in rows : k.slug = t}} = IF merged[t] = None THEN {} ELSE merged[t].coupons
  <2>1. CASE t \in D
    <3>1. {k \in rows : k.slug = t} = Of(t)
      BY <1>1, <1>3, <2>1
    <3>2. merged[t] = new[t] /\ merged[t] # None
      BY <1>2, <1>a, <2>1, NothingAssumption
    <3> QED BY <1>4, <2>1, <3>1, <3>2
  <2>2. CASE t \notin D
    <3>1. {k \in rows : k.slug = t} = {k \in coupons : k.slug = t}
      BY <1>1, <1>3, <2>2
    <3>2. merged[t] = listings[t]
      BY <1>a, <2>2
    <3> QED BY <3>1, <3>2 DEF Coupled
  <2> QED BY <2>1, <2>2
<1>8. Coupled(merged, rows)
  BY <1>7 DEF Coupled
<1> QED BY <1>0, <1>5, <1>6, <1>8 DEF rows

\* Every listing that is not updated must be acceptable already, once Start has been
\* through the listings.
LEMMA UpdateAllKeeps ==
  ASSUME Types, StoreOK, NEW D \in SUBSET Slug, NEW new \in [D -> Listings],
         NEW publish \in BOOLEAN, UpdateAll(new, publish),
         prefs' \subseteq Moderators, provider' = provider, expired' = expired, barred' \subseteq Slug,
         starting' \in {"ready", "coins", "servers"},
         starting' # "coins" =>
           \/ starting # "coins" /\ barred' = barred
           \/ \A s \in Slug \ D :
               dir.listings[s] # None => dir.listings[s].coins \subseteq config.coins
  PROVE  Types' /\ StoreOK' /\ writing' # None
<1> DEFINE all == AllUpdated(new)
           rows == RowsReadBack(new)
<1>1. /\ Update(all, {"listings"}, publish) /\ \A s \in D : new[s].coins \subseteq config.coins
      /\ coupons' = rows /\ rewritten' = rewritten \cup D
  BY DEF UpdateAll, CanUpdateAll, CanSave
<1>2. dir \in Dir /\ coupons \subseteq Row /\ rewritten \subseteq Slug /\ expired \subseteq Slug /\ Idle
  BY <1>1 DEF Types, StoreTypes, Update
<1>3. /\ dir.listings \in [Slug -> Listings \cup {None}] /\ dir.index = dir.listings
      /\ Coupled(dir.listings, coupons) /\ Known(coupons, rewritten)
      /\ starting # "coins" => barred # {} \/ Accepted(dir.listings, config.coins)
      /\ Tidy(dir)
  BY <1>2, DirIs DEF StoreOK, Tidy, Data, Idle
<1>4. PICK merged : merged = Merged(new, dir.listings)
  OBVIOUS
<1>5. all \in Dir /\ Tidy(all) /\ all.listings = merged
  BY <1>2, <1>3, <1>4, AllUpdatedTyped
<1>6. \A s \in Slug : merged[s] = IF s \in D THEN new[s] ELSE dir.listings[s]
  BY <1>2, <1>4, MergeTyped
<1>7. rows \subseteq Row /\ Coupled(merged, rows) /\ Known(rows, rewritten \cup D)
  <2>1. PICK listings : listings = dir.listings
    OBVIOUS
  <2>2. listings \in [Slug -> Listings \cup {None}] /\ Coupled(listings, coupons)
    BY <1>3, <2>1
  <2>3. merged = Merged(new, listings)
    BY <1>4, <2>1
  <2> QED BY <1>2, <1>3, <2>2, <2>3, ReadBackTyped
<1> HIDE DEF all, rows
<1>8. starting' # "coins" => barred' # {} \/ Accepted(merged, config.coins)
  <2>1. SUFFICES ASSUME starting' # "coins", barred' = {}, NEW s \in Slug, merged[s] # None
                 PROVE  merged[s].coins \subseteq config.coins
    BY DEF Accepted
  <2>2. CASE s \in D
    BY <1>1, <1>6, <2>2
  <2>3. CASE s \notin D
    <3>1. merged[s] = dir.listings[s]
      BY <1>6, <2>3
    <3> QED BY <1>3, <2>1, <2>3, <3>1 DEF Accepted
  <2> QED BY <2>2, <2>3
<1> QED BY <1>1, <1>2, <1>5, <1>7, <1>8, UpdateKeeps DEF Types, StoreTypes

LEMMA WithModeratorsTyped ==
  ASSUME Types, StoreOK, Idle, NEW mods \in SUBSET Moderators
  PROVE  WithModerators(mods) \in [Indexed(dir) -> Listings] /\ Indexed(dir) \subseteq Slug
<1>1. ASSUME NEW s \in Indexed(dir) PROVE [dir.listings[s] EXCEPT !.mods = mods] \in Listings
  BY IndexedListing DEF Listings
<1> QED BY <1>1 DEF WithModerators, Indexed

LEMMA SetModeratorsOnListingsKeeps ==
  ASSUME Types, StoreOK, NEW mods \in SUBSET Moderators, SetModeratorsOnListings(mods)
  PROVE  Types' /\ StoreOK' /\ writing' # None
<1>1. UpdateAll(WithModerators(mods), TRUE) /\ UNCHANGED <<prefs, provider, starting, barred, expired>>
  BY DEF SetModeratorsOnListings
<1>2. Idle
  BY <1>1 DEF UpdateAll, Update
<1> QED BY <1>1, <1>2, WithModeratorsTyped, UpdateAllKeeps DEF Types, StoreTypes

LEMMA SavePreferencesKeeps ==
  ASSUME Types, StoreOK, NEW mods \in SUBSET Moderators, SavePreferences(mods)
  PROVE  Types' /\ StoreOK' /\ writing' # None
<1>1. /\ UpdateAll(IF dir.indexed THEN WithModerators(mods) ELSE <<>>, TRUE)
      /\ prefs' = mods /\ UNCHANGED <<provider, starting, barred, expired>>
  BY DEF SavePreferences
<1>2. Idle
  BY <1>1 DEF UpdateAll, Update
<1>3. CASE dir.indexed
  BY <1>1, <1>2, <1>3, WithModeratorsTyped, UpdateAllKeeps DEF Types, StoreTypes
<1>4. CASE ~dir.indexed
  <2>1. <<>> \in [{} -> Listings]
    OBVIOUS
  <2>2. UpdateAll(<<>>, TRUE)
    BY <1>1, <1>4
  <2> QED BY <1>1, <2>1, <2>2, UpdateAllKeeps DEF Types, StoreTypes
<1> QED BY <1>3, <1>4

-----------------------------------------------------------------------------
(* The profile, the images and the followers *)

\* A directory with another profile.
LEMMA NewProfile ==
  ASSUME NEW d \in Dir, NEW p \in Profile
  PROVE  LET new == [d EXCEPT !.profile = p] IN
         /\ new \in Dir /\ new.profile = p /\ p # None
         /\ new.listings = d.listings /\ new.index = d.index /\ new.indexed = d.indexed
         /\ new.images = d.images /\ new.followers = d.followers /\ new.following = d.following
         /\ Indexed(new) = Indexed(d)
BY NothingAssumption DEF Dir, Indexed

\* The counts stay as they are.
LEMMA SameCounts ==
  ASSUME NEW d \in Dir, Tidy(d), NEW p \in Profile, d.profile # None,
         p.listings = d.profile.listings, p.following = d.profile.following
  PROVE  Tidy([d EXCEPT !.profile = p])
<1> DEFINE new == [d EXCEPT !.profile = p]
<1>1. /\ new.profile = p /\ new.listings = d.listings /\ new.index = d.index
      /\ new.following = d.following /\ Indexed(new) = Indexed(d)
  BY NewProfile
<1> HIDE DEF new
<1>2. Tidy(new)
  BY <1>1 DEF Tidy
<1> QED BY <1>2 DEF new

LEMMA ZeroCounts == 0 \in 0..Cardinality(Slug) /\ 0 \in 0..Cardinality(Peers)
BY FS_CardinalityType, FiniteAssumption

LEMMA SetProfileKeeps ==
  ASSUME Types, StoreOK, NEW p \in Profiles, SetProfile(p)
  PROVE  Types' /\ StoreOK' /\ writing' # None
<1> DEFINE q == WithServers(p)
           d == [dir EXCEPT !.profile = q]
           new == [dir EXCEPT !.profile = WithStats(d).profile]
<1>1. Update(new, {}, TRUE) /\ UNCHANGED <<coupons, prefs, provider, starting, rewritten, barred, expired>>
  BY DEF SetProfile, Counted
<1>2. dir \in Dir /\ config \in Configs /\ Tidy(dir)
  BY <1>1 DEF Types, StoreTypes, Update, StoreOK, Data, Idle
<1>3. q \in Profile
  <2>1. config.servers \in {c.servers : c \in Configs}
    BY <1>2
  <2>2. p \in [tidy : BOOLEAN, moderator : BOOLEAN, terms : Terms, images : SUBSET Images]
    BY ProfilesAssumption
  <2> QED BY <2>1, <2>2, ZeroCounts DEF WithServers, Profile
<1> HIDE DEF q
<1>4. d \in Dir /\ d.profile # None /\ Indexed(d) = Indexed(dir) /\ d.following = dir.following
  BY <1>2, <1>3, NewProfile
<1>5. d.profile \in Profile
  BY <1>4, DirIs
<1> HIDE DEF d
<1>6. PICK counted : counted = WithStats(d).profile
  OBVIOUS
<1>7. /\ counted \in Profile /\ counted.listings = Cardinality(Indexed(dir))
      /\ counted.following = Cardinality(dir.following)
  <2>1. WithStats(d) \in Dir /\ counted # None
    BY <1>4, <1>6, WithStatsTyped
  <2>2. counted = [d.profile EXCEPT !.listings = Cardinality(Indexed(d)),
                                    !.followers = Cardinality(d.followers),
                                    !.following = Cardinality(d.following)]
    BY <1>4, <1>6, WithStatsTyped
  <2>3. counted \in Profile
    BY <1>6, <2>1, DirIs
  <2> QED BY <1>4, <1>5, <2>2, <2>3 DEF Profile
<1>8. new = [dir EXCEPT !.profile = counted]
  BY <1>6
<1> HIDE DEF new
<1>9. /\ new \in Dir /\ new.profile = counted /\ new.listings = dir.listings
      /\ new.index = dir.index /\ new.following = dir.following /\ Indexed(new) = Indexed(dir)
  BY <1>2, <1>7, <1>8, NewProfile
<1>10. Tidy(new)
  BY <1>2, <1>7, <1>9 DEF Tidy
<1> QED BY <1>1, <1>9, <1>10, SmallUpdateKeeps DEF Types, StoreTypes

\* The profile says that the node is a moderator, with the terms there are or with others.
LEMMA ModeratorProfile ==
  ASSUME dir \in Dir, dir.profile # None, Tidy(dir), NEW terms \in Terms
  PROVE  LET a == [dir EXCEPT !.profile.moderator = TRUE]
             b == [dir EXCEPT !.profile.moderator = TRUE, !.profile.terms = terms]
         IN  /\ a \in Dir /\ Tidy(a) /\ a.listings = dir.listings
             /\ b \in Dir /\ Tidy(b) /\ b.listings = dir.listings
<1> DEFINE p == [dir.profile EXCEPT !.moderator = TRUE]
           q == [dir.profile EXCEPT !.moderator = TRUE, !.terms = terms]
<1>1. dir.profile \in Profile
  BY DirIs
<1>2. /\ p \in Profile /\ p.listings = dir.profile.listings /\ p.following = dir.profile.following
      /\ q \in Profile /\ q.listings = dir.profile.listings /\ q.following = dir.profile.following
  BY <1>1 DEF Profile
<1>3. /\ [dir EXCEPT !.profile.moderator = TRUE] = [dir EXCEPT !.profile = p]
      /\ [dir EXCEPT !.profile.moderator = TRUE, !.profile.terms = terms] = [dir EXCEPT !.profile = q]
  BY <1>1 DEF Dir, Profile
<1> HIDE DEF p, q
<1>4. /\ Tidy([dir EXCEPT !.profile = p]) /\ [dir EXCEPT !.profile = p] \in Dir
      /\ [dir EXCEPT !.profile = p].listings = dir.listings
  BY <1>2, SameCounts, NewProfile
<1>5. /\ Tidy([dir EXCEPT !.profile = q]) /\ [dir EXCEPT !.profile = q] \in Dir
      /\ [dir EXCEPT !.profile = q].listings = dir.listings
  BY <1>2, SameCounts, NewProfile
<1> QED BY <1>3, <1>4, <1>5

LEMMA SetSelfAsModeratorKeeps ==
  ASSUME Types, StoreOK, NEW terms \in Terms, SetSelfAsModerator(terms)
  PROVE  Types' /\ StoreOK' /\ writing' # None
<1> DEFINE new == [dir EXCEPT !.profile.moderator = TRUE, !.profile.terms = terms]
<1>1. /\ Update(new, {}, TRUE) /\ dir.profile # None /\ provider' = TRUE
      /\ UNCHANGED <<coupons, prefs, starting, rewritten, barred, expired>>
  BY DEF SetSelfAsModerator
<1>2. dir \in Dir /\ Tidy(dir)
  BY <1>1 DEF Types, StoreTypes, Update, StoreOK, Data, Idle
<1>3. new \in Dir /\ Tidy(new) /\ new.listings = dir.listings
  BY <1>1, <1>2, ModeratorProfile
<1> HIDE DEF new
<1> QED BY <1>1, <1>3, SmallUpdateKeeps DEF Types, StoreTypes

LEMMA RemoveSelfAsModeratorKeeps ==
  ASSUME Types, StoreOK, RemoveSelfAsModerator
  PROVE  Types' /\ StoreOK' /\ writing' # None
<1> DEFINE new == [dir EXCEPT !.profile.moderator = TRUE]
<1>1. /\ Update(new, {}, TRUE) /\ dir.profile # None /\ provider' = FALSE
      /\ UNCHANGED <<coupons, prefs, starting, rewritten, barred, expired>>
  BY DEF RemoveSelfAsModerator
<1>2. dir \in Dir /\ Tidy(dir)
  BY <1>1 DEF Types, StoreTypes, Update, StoreOK, Data, Idle
<1>3. "fee" \in Terms
  BY DEF Terms
<1>4. new \in Dir /\ Tidy(new) /\ new.listings = dir.listings
  BY <1>1, <1>2, <1>3, ModeratorProfile
<1> HIDE DEF new
<1> QED BY <1>1, <1>4, SmallUpdateKeeps DEF Types, StoreTypes

LEMMA WithImageTyped ==
  ASSUME NEW d \in Dir, NEW i \in Images
  PROVE  /\ WithImage(d, i) \in Dir /\ WithImage(d, i).images = d.images \cup {i}
         /\ WithImage(d, i).listings = d.listings /\ WithImage(d, i).index = d.index
         /\ WithImage(d, i).indexed = d.indexed /\ WithImage(d, i).profile = d.profile
         /\ WithImage(d, i).followers = d.followers /\ WithImage(d, i).following = d.following
         /\ Indexed(WithImage(d, i)) = Indexed(d) /\ (Tidy(d) => Tidy(WithImage(d, i)))
<1>1. /\ WithImage(d, i) \in Dir /\ WithImage(d, i).images = d.images \cup {i}
      /\ WithImage(d, i).listings = d.listings /\ WithImage(d, i).index = d.index
      /\ WithImage(d, i).indexed = d.indexed /\ WithImage(d, i).profile = d.profile
      /\ WithImage(d, i).followers = d.followers /\ WithImage(d, i).following = d.following
  BY DEF WithImage, Dir
<1>2. Indexed(WithImage(d, i)) = Indexed(d)
  BY <1>1 DEF Indexed
<1> QED BY <1>1, <1>2 DEF Tidy

LEMMA ImageKeeps ==
  ASSUME Types, StoreOK, NEW i \in Images, SetProfileImage(i) \/ (SetProductImage /\ i = "product")
  PROVE  Types' /\ StoreOK' /\ writing' # None
<1> DEFINE d == WithImage(dir, i)
           p == [dir.profile EXCEPT !.images = @ \cup {i}]
           e == [d EXCEPT !.profile.images = @ \cup {i}]
<1>1. /\ UNCHANGED <<coupons, prefs, provider, starting, rewritten, barred, expired>>
      /\ \/ Update(d, {"images"}, FALSE)
         \/ dir.profile # None /\ Update(e, {"images"}, TRUE)
  BY DEF SetProfileImage, SetProductImage
<1>2. dir \in Dir /\ Tidy(dir)
  BY <1>1 DEF Types, StoreTypes, Update, StoreOK, Data, Idle
<1>3. d \in Dir /\ Tidy(d) /\ d.listings = dir.listings /\ d.profile = dir.profile
  BY <1>2, WithImageTyped
<1> HIDE DEF d
<1>4. dir.profile # None => e \in Dir /\ Tidy(e) /\ e.listings = dir.listings
  <2> SUFFICES ASSUME dir.profile # None
               PROVE  e \in Dir /\ Tidy(e) /\ e.listings = dir.listings
    OBVIOUS
  <2>1. d.profile \in Profile
    BY <1>3, DirIs
  <2>2. p \in Profile /\ p.listings = d.profile.listings /\ p.following = d.profile.following
    BY <1>3, <2>1 DEF Profile
  <2>3. e = [d EXCEPT !.profile = p]
    BY <1>3, <2>1 DEF Dir, Profile
  <2> HIDE DEF p, e
  <2> QED BY <1>3, <2>2, <2>3, SameCounts, NewProfile
<1> HIDE DEF e
<1>5. CASE Update(d, {"images"}, FALSE)
  BY <1>1, <1>3, <1>5, SmallUpdateKeeps DEF Types, StoreTypes
<1>6. CASE dir.profile # None /\ Update(e, {"images"}, TRUE)
  BY <1>1, <1>4, <1>6, SmallUpdateKeeps DEF Types, StoreTypes
<1> QED BY <1>1, <1>5, <1>6

LEMMA FollowTyped ==
  ASSUME NEW d \in Dir, NEW p \in Peers
  PROVE  LET a == [d EXCEPT !.following = IF p \in @ THEN @ \ {p} ELSE @ \cup {p}]
             b == [d EXCEPT !.followers = IF p \in @ THEN @ \ {p} ELSE @ \cup {p}]
         IN  /\ a \in Dir /\ a.listings = d.listings /\ a.index = d.index
             /\ a.indexed = d.indexed /\ a.profile = d.profile /\ a.images = d.images
             /\ b \in Dir /\ b.listings = d.listings /\ b.index = d.index
             /\ b.indexed = d.indexed /\ b.profile = d.profile /\ b.images = d.images
             /\ b.following = d.following
BY DEF Dir

LEMMA FollowNodeKeeps ==
  ASSUME Types, StoreOK, NEW p \in Peers, FollowNode(p)
  PROVE  Types' /\ StoreOK' /\ writing' # None
<1> DEFINE d == [dir EXCEPT !.following = IF p \in @ THEN @ \ {p} ELSE @ \cup {p}]
<1>1. /\ UNCHANGED <<coupons, prefs, provider, starting, rewritten, barred, expired>>
      /\ Update(WithStats(d), {"following"}, FALSE)
  BY DEF FollowNode
<1>2. dir \in Dir /\ Tidy(dir)
  BY <1>1 DEF Types, StoreTypes, Update, StoreOK, Data, Idle
<1>3. d \in Dir /\ d.listings = dir.listings /\ d.index = dir.index
  BY <1>2, FollowTyped
<1> HIDE DEF d
<1>4. WithStats(d) \in Dir /\ WithStats(d).listings = dir.listings /\ Tidy(WithStats(d))
  BY <1>2, <1>3, WithStatsTyped, CountedIsTidy DEF Tidy
<1> QED BY <1>1, <1>4, SmallUpdateKeeps DEF Types, StoreTypes

LEMMA HandleFollowKeeps ==
  ASSUME Types, StoreOK, NEW p \in Peers, HandleFollow(p)
  PROVE  Types' /\ StoreOK' /\ writing' # None
<1> DEFINE d == [dir EXCEPT !.followers = IF p \in @ THEN @ \ {p} ELSE @ \cup {p}]
<1>1. /\ UNCHANGED <<coupons, prefs, provider, starting, rewritten, barred, expired>>
      /\ Update(d, {"followers"}, FALSE)
  BY DEF HandleFollow
<1>2. dir \in Dir /\ Tidy(dir)
  BY <1>1 DEF Types, StoreTypes, Update, StoreOK, Data, Idle
<1>3. /\ d \in Dir /\ d.listings = dir.listings /\ d.index = dir.index
      /\ d.profile = dir.profile /\ d.following = dir.following
  BY <1>2, FollowTyped
<1> HIDE DEF d
<1>4. Tidy(d)
  BY <1>2, <1>3 DEF Tidy, Indexed
<1> QED BY <1>1, <1>3, <1>4, SmallUpdateKeeps DEF Types, StoreTypes

-----------------------------------------------------------------------------
(* Start and Stop *)

LEMMA StopKeeps ==
  ASSUME Types, StoreOK, NEW force \in BOOLEAN, Stop(force)
  PROVE  Types' /\ StoreOK'
<1>1. Types'
  BY DEF Stop, Types, PubTypes, StoreTypes, publishVars, storeVars
<1>2. UNCHANGED <<dir, writing, coupons, rewritten, starting, barred, expired, config>>
  BY DEF Stop, storeVars
<1>3. Data' = Data
  BY <1>2 DEF Data
<1>4. StoreOK'
  BY <1>2, <1>3 DEF StoreOK
<1> QED BY <1>1, <1>4

LEMMA StartKeeps ==
  ASSUME Types, StoreOK, NEW c \in Configs, Start(c)
  PROVE  Types' /\ StoreOK'
<1>1. StoreTypes'
  <2>1. /\ starts < MaxStarts /\ starts' = starts + 1 /\ config' = c
        /\ starting' = "coins" /\ barred' = {}
        /\ UNCHANGED <<dir, writing, coupons, prefs, provider, rewritten, expired, free>>
    BY DEF Start
  <2>2. starts' \in 0..MaxStarts
    BY <2>1, StoreAssumption DEF Types, StoreTypes
  <2> QED BY <2>1, <2>2 DEF Types, StoreTypes
<1>2. PubTypes'
  <2> DEFINE pub2 == [k \in Call |-> [NoPublish EXCEPT !.at = IF pub[k].at = "none" THEN @ ELSE "gone"]]
  <2>1. /\ pub' = pub2 /\ current' = 0 /\ up' = TRUE /\ booted' = FALSE
        /\ UNCHANGED <<calls, closed, record, pinned, late>>
    BY DEF Start
  <2>2. ASSUME NEW k \in Call
        PROVE  pub2[k] = [at |-> IF pub[k].at = "none" THEN "none" ELSE "gone", old |-> None, root |-> None]
    BY DEF NoPublish
  <2> HIDE DEF pub2
  <2>3. pub2 \in [Call -> PubState]
    <3>1. pub2 = [k \in Call |->
                    [at |-> IF pub[k].at = "none" THEN "none" ELSE "gone", old |-> None, root |-> None]]
      BY <2>2 DEF pub2, NoPublish
    <3> QED BY <3>1 DEF PubState, PubPlace
  <2>4. ASSUME NEW k \in Call
        PROVE  (k > calls => pub2[k].at = "none") /\ pub2[k].at \notin {"reads", "names"}
    <3>1. k > calls => pub[k].at = "none"
      BY DEF Types, PubTypes
    <3>2. pub2[k].at = IF pub[k].at = "none" THEN "none" ELSE "gone"
      <4>1. PICK how : how = IF pub[k].at = "none" THEN "none" ELSE "gone"
        OBVIOUS
      <4>2. pub2[k] = [at |-> how, old |-> None, root |-> None]
        BY <2>2, <4>1
      <4> QED BY <4>1, <4>2
    <3> QED BY <3>1, <3>2
  <2>5. 0 \in 0..calls
    BY DEF Types, PubTypes
  <2> QED BY <2>1, <2>3, <2>4, <2>5 DEF Types, PubTypes
<1>3. UNCHANGED <<dir, writing, coupons, rewritten>> /\ starting' = "coins"
  BY DEF Start
<1>4. Data' = Data
  BY <1>3 DEF Data
<1>5. StoreOK'
  BY <1>3, <1>4 DEF StoreOK
<1> QED BY <1>1, <1>2, <1>5 DEF Types

LEMMA RemoveDisabledCoinsKeeps ==
  ASSUME Types, StoreOK, RemoveDisabledCoins
  PROVE  Types' /\ StoreOK' /\ (writing' # None \/ UNCHANGED <<dir, publishVars, writing>>)
<1> DEFINE D == {t \in Indexed(dir) : ~(dir.listings[t].coins \subseteq config.coins)}
<1>1. /\ Idle /\ starting' = "servers" /\ prefs' = prefs /\ provider' = provider
      /\ expired' = expired /\ barred' = Barring
  BY DEF RemoveDisabledCoins
<1>2. /\ dir \in Dir /\ dir.index = dir.listings /\ D \subseteq Slug
      /\ \A s \in Slug \ D : dir.listings[s] # None => dir.listings[s].coins \subseteq config.coins
  BY <1>1 DEF Types, StoreTypes, StoreOK, Data, Idle, Tidy, Indexed
<1>3. Enabled = [s \in D |-> [dir.listings[s] EXCEPT !.coins = @ \cap config.coins]]
  BY DEF Enabled
<1>b. barred' \subseteq Slug
  BY <1>1, <1>2 DEF Barring
<1> HIDE DEF D
<1>4. DOMAIN Enabled = D
  BY <1>3
<1>5. CASE UpdateAll(Enabled, TRUE)
  <2>1. \A s \in D : Enabled[s].coins # {}
    BY <1>4, <1>5 DEF UpdateAll, CanUpdateAll, CanSave
  <2>2. ASSUME NEW s \in D PROVE Enabled[s] \in Listings
    <3> DEFINE lst == dir.listings[s]
               all == UNION {c.coins : c \in Configs}
    <3>1. lst \in Listings
      BY <1>1, IndexedListing DEF D
    <3>2. Listings = [mods : SUBSET Moderators, coins : (SUBSET all) \ {{}},
                      coupons : SUBSET (Codes \cup {NoCode})]
      BY DEF Listings
    <3>3. Enabled[s] = [lst EXCEPT !.coins = @ \cap config.coins]
      BY <1>3
    <3> HIDE DEF lst, all
    <3>4. Enabled[s].coins = lst.coins \cap config.coins
      BY <3>1, <3>2, <3>3
    <3>5. lst.coins \cap config.coins \in (SUBSET all) \ {{}}
      BY <2>1, <3>1, <3>2, <3>4
    <3> QED BY <3>1, <3>2, <3>3, <3>5
  <2>3. Enabled \in [D -> Listings]
    BY <1>3, <2>2
  <2>4. PICK new : new = Enabled
    OBVIOUS
  <2>5. new \in [D -> Listings] /\ UpdateAll(new, TRUE)
    BY <1>5, <2>3, <2>4
  <2> QED BY <1>1, <1>2, <1>b, <2>5, UpdateAllKeeps DEF Types, StoreTypes
<1>6. CASE /\ D = {} \/ ~CanUpdateAll(Enabled)
           /\ UNCHANGED <<dir, booted, up, publishVars, writing, coupons, config, rewritten, free, starts>>
  <2>1. D = {} \/ barred' # {}
    <3> SUFFICES ASSUME NEW s \in D, ~(CanSave(Enabled[s]) /\ s \notin expired)
                 PROVE  s \in Barring
      BY <1>1, <1>4, <1>6 DEF CanUpdateAll
    <3>1. s \in Indexed(dir) /\ ~(dir.listings[s].coins \subseteq config.coins)
      BY DEF D
    <3>2. Enabled[s].coins = dir.listings[s].coins \cap config.coins
      <4> DEFINE lst == dir.listings[s]
      <4>1. lst \in Listings
        BY <1>1, <3>1, IndexedListing
      <4>2. Enabled[s] = [lst EXCEPT !.coins = @ \cap config.coins]
        BY <1>3
      <4> HIDE DEF lst
      <4>3. Enabled[s].coins = lst.coins \cap config.coins
        BY <4>1, <4>2 DEF Listings
      <4> QED BY <4>3 DEF lst
    <3> QED BY <3>1, <3>2 DEF CanSave, Barring
  <2>2. Types'
    BY <1>1, <1>b, <1>6 DEF Types, StoreTypes, PubTypes, publishVars
  <2>3. D = {} => Accepted(dir.listings, config.coins)
    BY <1>2 DEF Accepted
  <2>4. Data' = Data /\ Data = dir
    BY <1>1, <1>6 DEF Data, Idle
  <2>5. StoreOK'
    BY <1>1, <1>6, <2>1, <2>3, <2>4 DEF StoreOK
  <2> QED BY <1>6, <2>2, <2>5
<1> QED BY <1>4, <1>5, <1>6 DEF RemoveDisabledCoins

LEMMA UpdateSNFServersKeeps ==
  ASSUME Types, StoreOK, UpdateSNFServers
  PROVE  Types' /\ StoreOK' /\ (writing' # None \/ UNCHANGED <<dir, publishVars, writing>>)
<1> DEFINE p == [dir.profile EXCEPT !.servers = config.servers]
           d == [dir EXCEPT !.profile.servers = config.servers]
<1>1. /\ Idle /\ starting = "servers" /\ starting' = "ready"
      /\ UNCHANGED <<coupons, prefs, provider, rewritten, barred, expired>>
      /\ \/ dir.profile # None /\ Update(WithStats(d), {}, TRUE)
         \/ UNCHANGED <<dir, booted, up, publishVars, writing, config, free, starts>>
  BY DEF UpdateSNFServers
<1>2. dir \in Dir /\ Tidy(dir) /\ config \in Configs
  BY <1>1 DEF Types, StoreTypes, StoreOK, Data, Idle
<1>3. CASE dir.profile # None /\ Update(WithStats(d), {}, TRUE)
  <2>1. dir.profile \in Profile
    BY <1>2, <1>3, DirIs
  <2>2. p \in Profile
    <3>1. config.servers \in {c.servers : c \in Configs}
      BY <1>2
    <3> QED BY <2>1, <3>1 DEF Profile
  <2>3. d = [dir EXCEPT !.profile = p]
    BY <1>2, <2>1 DEF Dir, Profile
  <2> HIDE DEF p, d
  <2>4. d \in Dir /\ d.listings = dir.listings /\ d.index = dir.index
    BY <1>2, <2>2, <2>3, NewProfile
  <2>5. WithStats(d) \in Dir /\ WithStats(d).listings = dir.listings /\ Tidy(WithStats(d))
    BY <1>2, <2>4, WithStatsTyped, CountedIsTidy DEF Tidy
  <2>6. PICK new : new = WithStats(d)
    OBVIOUS
  <2>7. new \in Dir /\ new.listings = dir.listings /\ Tidy(new) /\ Update(new, {}, TRUE)
    BY <1>3, <2>5, <2>6
  <2>8. /\ Coupled(new.listings, coupons) /\ Known(coupons, rewritten)
        /\ barred # {} \/ Accepted(new.listings, config.coins)
    BY <1>1, <2>7, UpdateBegins DEF StoreOK
  <2> QED BY <1>1, <2>7, <2>8, UpdateKeeps DEF Types, StoreTypes
<1>4. CASE UNCHANGED <<dir, booted, up, publishVars, writing, config, free, starts>>
  <2>1. Types'
    BY <1>1, <1>4 DEF Types, StoreTypes, PubTypes, publishVars
  <2>2. Data' = Data
    BY <1>4 DEF Data
  <2>3. StoreOK'
    BY <1>1, <1>4, <2>2 DEF StoreOK
  <2> QED BY <1>4, <2>1, <2>3
<1> QED BY <1>1, <1>3, <1>4

-----------------------------------------------------------------------------
(* Publishing *)

\* A call of Publish that is known to be somewhere has been made.
LEMMA Called ==
  ASSUME PubTypes, NEW c \in Call, pub[c].at # "none"
  PROVE  c \in 1..calls
BY CallsAssumption DEF PubTypes, Call

LEMMA PublishTyped ==
  ASSUME PubTypes, Publish, UNCHANGED <<booted, up>>
  PROVE  /\ PubTypes' /\ calls + 1 \in Call /\ current \in 0..calls
         /\ pub' = [pub EXCEPT ![calls + 1].at = "waits"]
<1>1. /\ calls < MaxCalls /\ calls' = calls + 1 /\ pub' = [pub EXCEPT ![calls + 1].at = "waits"]
      /\ UNCHANGED <<current, closed, record, pinned, late>>
  BY DEF Publish
<1>2. /\ calls \in Nat /\ calls + 1 \in Call /\ calls' \in 0..MaxCalls
      /\ current \in 0..calls' /\ closed \subseteq 1..calls'
  BY <1>1, CallsAssumption DEF PubTypes, Call
<1>3. pub' \in [Call -> PubState]
  <2>1. [pub[calls + 1] EXCEPT !.at = "waits"] \in PubState
    BY <1>2 DEF PubTypes, PubState, PubPlace
  <2> QED BY <1>1, <2>1 DEF PubTypes
<1>4. ASSUME NEW k \in Call
      PROVE  /\ k > calls' => pub'[k].at = "none"
             /\ pub'[k].at \in {"reads", "names"} => pub'[k].root \in Dir
  <2>1. CASE k = calls + 1
    <3>1. pub'[k] = [pub[k] EXCEPT !.at = "waits"] /\ pub[k] \in PubState
      BY <1>1, <2>1 DEF PubTypes
    <3> QED BY <1>1, <1>2, <2>1, <3>1 DEF PubState
  <2>2. CASE k # calls + 1
    <3>1. pub'[k] = pub[k]
      BY <1>1, <2>2 DEF PubTypes
    <3> QED BY <1>1, <1>2, <3>1 DEF PubTypes, Call
  <2> QED BY <2>1, <2>2
<1> QED BY <1>1, <1>2, <1>3, <1>4 DEF PubTypes

\* Where one call of Publish goes, and what it knows there.
Moves(c, at, old, root) ==
  pub' = [pub EXCEPT ![c] = [at |-> at, old |-> old, root |-> root]]

LEMMA MovesTyped ==
  ASSUME PubTypes, NEW c \in Call, pub[c].at # "none",
         NEW at \in PubPlace, NEW old \in Dir \cup {None}, NEW root \in Dir \cup {None},
         at \in {"reads", "names"} => root \in Dir, at # "none",
         Moves(c, at, old, root), calls' = calls, current' \in {current, c}, closed' \subseteq 1..calls,
         record' \in Dir \cup {None}, pinned' \subseteq Dir \cup {None},
         booted' = booted, up' = up, late' \in BOOLEAN
  PROVE  /\ PubTypes'
         /\ pub'[c] = [at |-> at, old |-> old, root |-> root]
         /\ \A k \in Call \ {c} : pub'[k] = pub[k]
<1>1. pub' \in [Call -> PubState]
  <2>1. [at |-> at, old |-> old, root |-> root] \in PubState
    BY DEF PubState
  <2> QED BY <2>1 DEF PubTypes, Moves
<1>2. pub'[c] = [at |-> at, old |-> old, root |-> root] /\ \A k \in Call \ {c} : pub'[k] = pub[k]
  BY DEF PubTypes, Moves
<1>3. c \in 1..calls
  BY Called
<1>4. current' \in 0..calls'
  BY <1>3 DEF PubTypes
<1>5. ASSUME NEW k \in Call
      PROVE  /\ k > calls' => pub'[k].at = "none"
             /\ pub'[k].at \in {"reads", "names"} => pub'[k].root \in Dir
  <2>1. CASE k = c
    BY <1>2, <1>3, <2>1 DEF PubTypes
  <2>2. CASE k # c
    BY <1>2, <2>2 DEF PubTypes
  <2> QED BY <2>1, <2>2
<1> QED BY <1>1, <1>2, <1>4, <1>5 DEF PubTypes

LEMMA EndMoves ==
  ASSUME PubTypes, NEW c \in Call, NEW how, End(c, how)
  PROVE  Moves(c, how, None, None)
<1>1. [NoPublish EXCEPT !.at = how] = [at |-> how, old |-> None, root |-> None]
  BY DEF NoPublish
<1> QED BY <1>1 DEF End, Moves

LEMMA GoMoves ==
  ASSUME PubTypes, NEW c \in Call, NEW at, Go(c, at)
  PROVE  Moves(c, at, pub[c].old, pub[c].root)
<1>1. pub \in [Call -> PubState] /\ pub[c] \in PubState
  BY DEF PubTypes
<1>2. [pub[c] EXCEPT !.at = at] = [at |-> at, old |-> pub[c].old, root |-> pub[c].root]
  BY <1>1 DEF PubState
<1>3. pub' = [pub EXCEPT ![c] = [pub[c] EXCEPT !.at = at]]
  BY <1>1 DEF Go
<1> QED BY <1>2, <1>3 DEF Moves

LEMMA RootMoves ==
  ASSUME PubTypes, NEW c \in Call, NEW at, NEW root, pub' = [pub EXCEPT ![c].at = at, ![c].root = root]
  PROVE  Moves(c, at, pub[c].old, root)
<1> DEFINE p == [pub[c] EXCEPT !.at = at]
           q == [pub EXCEPT ![c] = p]
           r == [at |-> at, old |-> pub[c].old, root |-> root]
<1>1. pub = [k \in Call |-> pub[k]] /\ pub[c] \in PubState
  BY DEF PubTypes
<1>2. p = [at |-> at, old |-> pub[c].old, root |-> pub[c].root]
  BY <1>1 DEF PubState
<1>3. [p EXCEPT !.root = root] = r
  <2>1. PICK old, before : p = [at |-> at, old |-> old, root |-> before] /\ old = pub[c].old
    BY <1>2
  <2>2. r = [at |-> at, old |-> old, root |-> root]
    BY <2>1
  <2> HIDE DEF p, r
  <2> QED BY <2>1, <2>2
<1>4. q[c] = p /\ DOMAIN q = Call
  BY <1>1
<1>5. pub' = [q EXCEPT ![c].root = root]
  OBVIOUS
<1>6. pub' = [q EXCEPT ![c] = [p EXCEPT !.root = root]]
  <2> HIDE DEF p, q
  <2> QED BY <1>4, <1>5
<1>7. pub' = [q EXCEPT ![c] = r]
  BY <1>3, <1>6
<1> HIDE DEF p, r
<1> QED BY <1>7 DEF Moves, r

LEMMA ReadTyped ==
  ASSUME PubTypes, dir \in Dir, NEW c \in Call, pub[c].at = "reads"
  PROVE  /\ Read(c) \in Dir /\ Read(c) = [dir EXCEPT !.images = pub[c].root.images,
                                               !.listings = pub[c].root.listings]
         /\ pub[c].root \in Dir
<1>1. pub[c].root \in Dir
  BY DEF PubTypes
<1> QED BY <1>1 DEF Dir, Read

\* Each step of a publish, as a move.
Step(c) ==
  \/ /\ booted /\ up /\ pub[c].at = "waits"
     /\ Moves(c, "starts", pub[c].old, pub[c].root) /\ current' = c
     /\ UNCHANGED <<closed, record, pinned, late>>
  \/ /\ pub[c].at = "starts"
     /\ Moves(c, IF record = None THEN "adds" ELSE "unpins", record, None)
     /\ UNCHANGED <<current, closed, record, pinned, late>>
  \/ /\ pub[c].at = "unpins" /\ Moves(c, "adds", pub[c].old, pub[c].root)
     /\ pinned' = pinned \ {pub[c].old} /\ late' = (late \/ Cancelled(c))
     /\ UNCHANGED <<current, closed, record>>
  \/ /\ pub[c].at = "adds" /\ ~Cancelled(c)
     /\ Moves(c, "reads", pub[c].old, dir)
     /\ UNCHANGED <<current, closed, record, pinned, late>>
  \/ /\ pub[c].at = "reads" /\ ~Cancelled(c) /\ pinned' = pinned \cup {Read(c)}
     /\ \/ Read(c) = pub[c].old /\ Moves(c, "ended", None, None)
        \/ Moves(c, "names", pub[c].old, Read(c))
     /\ UNCHANGED <<current, closed, record, late>>
  \/ /\ pub[c].at = "names" /\ ~Cancelled(c)
     /\ Moves(c, "ended", None, None) /\ record' = pub[c].root
     /\ UNCHANGED <<current, closed, pinned, late>>
  \/ /\ pub[c].at \in Working /\ Moves(c, "failed", None, None)
     /\ UNCHANGED <<current, closed, record, pinned, late>>

LEMMA StepsAreMoves ==
  ASSUME PubTypes, NEW c \in Call, TakePublish(c) \/ StepPublish(c)
  PROVE  Step(c) /\ UNCHANGED <<dir, calls, booted, up>>
<1>1. CASE TakePublish(c)
  <2>1. Moves(c, "starts", pub[c].old, pub[c].root)
    BY <1>1, GoMoves DEF TakePublish
  <2> QED BY <1>1, <2>1 DEF Step, TakePublish
<1>2. CASE ReadRecord(c)
  <2>1. Moves(c, IF record = None THEN "adds" ELSE "unpins", record, None)
    BY <1>2 DEF ReadRecord, Moves
  <2> QED BY <1>2, <2>1 DEF Step, ReadRecord
<1>3. CASE Unpin(c)
  <2>1. Moves(c, "adds", pub[c].old, pub[c].root)
    BY <1>3, GoMoves DEF Unpin
  <2> QED BY <1>3, <2>1 DEF Step, Unpin
<1>4. CASE ReadListings(c)
  <2>1. pub' = [pub EXCEPT ![c].at = "reads", ![c].root = dir]
    BY <1>4 DEF ReadListings
  <2>2. Moves(c, "reads", pub[c].old, dir)
    BY <2>1, RootMoves
  <2> QED BY <1>4, <2>2 DEF Step, ReadListings
<1>5. CASE AddRoot(c)
  <2>1. CASE Read(c) = pub[c].old
    <3>1. Moves(c, "ended", None, None)
      BY <1>5, <2>1, EndMoves DEF AddRoot
    <3> QED BY <1>5, <2>1, <3>1 DEF Step, AddRoot
  <2>2. CASE Read(c) # pub[c].old
    <3>1. pub' = [pub EXCEPT ![c].at = "names", ![c].root = Read(c)]
      BY <1>5, <2>2 DEF AddRoot
    <3>2. Moves(c, "names", pub[c].old, Read(c))
      BY <3>1, RootMoves
    <3> QED BY <1>5, <3>2 DEF Step, AddRoot
  <2> QED BY <2>1, <2>2
<1>6. CASE PublishRecord(c)
  <2>1. Moves(c, "ended", None, None)
    BY <1>6, EndMoves DEF PublishRecord
  <2> QED BY <1>6, <2>1 DEF Step, PublishRecord
<1>7. CASE PublishFails(c)
  <2>1. Moves(c, "failed", None, None)
    BY <1>7, EndMoves DEF PublishFails
  <2> QED BY <1>7, <2>1 DEF Step, PublishFails
<1> QED BY <1>1, <1>2, <1>3, <1>4, <1>5, <1>6, <1>7 DEF StepPublish

LEMMA StepTyped ==
  ASSUME PubTypes, dir \in Dir, NEW c \in Call, Step(c), UNCHANGED <<dir, calls, booted, up>>
  PROVE  PubTypes' /\ pub'[c].at # "waits" /\ \A k \in Call \ {c} : pub'[k] = pub[k]
<1>1. /\ pub[c] \in PubState /\ record \in Dir \cup {None} /\ pinned \subseteq Dir \cup {None}
      /\ late \in BOOLEAN /\ closed \subseteq 1..calls
  BY DEF PubTypes
<1>2. PICK at \in PubPlace \ {"none", "waits"}, old \in Dir \cup {None}, root \in Dir \cup {None} :
        Moves(c, at, old, root) /\ (at \in {"reads", "names"} => root \in Dir)
  <2>1. pub[c].old \in Dir \cup {None} /\ pub[c].root \in Dir \cup {None}
    BY <1>1 DEF PubState
  <2>2. {"starts", "adds", "unpins", "reads", "names", "ended", "failed"}
        \subseteq PubPlace \ {"none", "waits"}
    BY DEF PubPlace, Working
  <2>3. pub[c].at = "reads" => Read(c) \in Dir
    BY ReadTyped
  <2> QED BY <1>1, <2>1, <2>2, <2>3 DEF Step
<1>3. pub[c].at # "none" /\ current' \in {current, c} /\ closed' = closed
  BY DEF Step, Working
<1>4. late' \in BOOLEAN
  BY <1>1 DEF Step, Cancelled
<1>5. record' \in Dir \cup {None}
  <2>1. pub[c].at = "names" => pub[c].root \in Dir
    BY DEF PubTypes
  <2> QED BY <1>1, <2>1 DEF Step
<1>6. pinned' \subseteq Dir \cup {None}
  <2>1. pub[c].at = "reads" => Read(c) \in Dir
    BY ReadTyped
  <2> QED BY <1>1, <2>1 DEF Step
<1>7. at \in PubPlace /\ at # "none" /\ at # "waits" /\ pub[c] \in PubState /\ closed' \subseteq 1..calls
  BY <1>1, <1>2, <1>3
<1>8. /\ PubTypes' /\ pub'[c] = [at |-> at, old |-> old, root |-> root]
      /\ \A k \in Call \ {c} : pub'[k] = pub[k]
  <2>1. Moves(c, at, old, root) /\ (at \in {"reads", "names"} => root \in Dir)
    BY <1>2
  <2> QED BY <1>3, <1>4, <1>5, <1>6, <1>7, <2>1, MovesTyped
<1> QED BY <1>7, <1>8

LEMMA PublishingKeeps ==
  ASSUME Types, StoreOK, Publishing
  PROVE  Types' /\ StoreOK'
<1>1. PubTypes /\ dir \in Dir
  BY DEF Types, StoreTypes
<1>2. UNCHANGED storeVars /\ PublisherNext
  BY DEF Publishing
<1>3. PubTypes' /\ dir' = dir
  <2>1. CASE Bootstrap
    BY <1>1, <2>1 DEF Bootstrap, PubTypes, publishVars
  <2>2. CASE Republish
    BY <1>1, <2>2, PublishTyped DEF Republish
  <2>3. ASSUME NEW c \in Call, TakePublish(c) \/ StepPublish(c) PROVE PubTypes' /\ dir' = dir
    BY <1>1, <2>3, StepsAreMoves, StepTyped
  <2>4. ASSUME NEW c \in Call, CloseDone(c) PROVE PubTypes' /\ dir' = dir
    <3>1. pub[c].at # "none"
      BY <2>4 DEF CloseDone, Working
    <3>2. c \in 1..calls
      BY <1>1, <3>1, Called
    <3> QED BY <1>1, <2>4, <3>2 DEF CloseDone, PubTypes
  <2> QED BY <1>2, <2>1, <2>2, <2>3, <2>4 DEF PublisherNext
<1>4. StoreTypes'
  BY <1>2, <1>3 DEF Types, StoreTypes, storeVars
<1>5. Data' = Data
  BY <1>2, <1>3 DEF Data, storeVars
<1>6. StoreOK'
  BY <1>2, <1>5 DEF StoreOK, storeVars
<1> QED BY <1>3, <1>4, <1>6 DEF Types

LEMMA FinishUpdateKeeps ==
  ASSUME Types, StoreOK, FinishUpdate
  PROVE  Types' /\ StoreOK'
<1>1. /\ writing # None /\ dir' = writing.dir /\ writing' = None
      /\ Publish \/ UNCHANGED publishVars
      /\ UNCHANGED <<booted, up, coupons, prefs, config, provider, starting, rewritten, barred, expired,
                     free, starts>>
  BY DEF FinishUpdate
<1>2. writing \in Writing /\ dir' \in Dir
  BY <1>1 DEF Types, StoreTypes, Writing
<1>3. PubTypes'
  BY <1>1, PublishTyped DEF Types, PubTypes, publishVars
<1>4. StoreTypes'
  BY <1>1, <1>2 DEF Types, StoreTypes
<1>5. Data' = Data
  BY <1>1 DEF Data
<1>6. StoreOK'
  BY <1>1, <1>5 DEF StoreOK
<1> QED BY <1>3, <1>4, <1>6 DEF Types

-----------------------------------------------------------------------------
(* Type correctness, the consistent store and the coins *)

LEMMA ZeroInRange == \A n \in Nat : 0 \in 0..n
OBVIOUS

LEMMA InitOK == Init => Types /\ StoreOK
<1> SUFFICES ASSUME Init PROVE Types /\ StoreOK
  OBVIOUS
<1> DEFINE nothing == [s \in Slug |-> None]
<1>1. /\ dir = [listings |-> nothing, index |-> nothing, indexed |-> FALSE, profile |-> None,
                 images |-> {}, followers |-> {}, following |-> {}]
      /\ writing = None /\ coupons = {} /\ prefs = {} /\ config \in Configs /\ provider = FALSE
      /\ starting = "ready" /\ rewritten = {} /\ barred = {} /\ expired = {} /\ free = 0 /\ starts = 0
  BY DEF Init
<1>2. nothing \in [Slug -> Listings \cup {None}] /\ \A s \in Slug : nothing[s] = None
  OBVIOUS
<1> HIDE DEF nothing
<1>3. dir \in Dir
  BY <1>1, <1>2 DEF Dir
<1>4. PubTypes
  <2>1. pub = [c \in Call |-> NoPublish] /\ NoPublish \in PubState
    BY DEF Init, InitPublisher, NoPublish, PubState, PubPlace
  <2>2. \A c \in Call : pub[c].at = "none"
    BY <2>1 DEF NoPublish
  <2>3. /\ calls = 0 /\ current = 0 /\ closed = {} /\ record = None /\ pinned = {}
        /\ booted = FALSE /\ up = TRUE /\ late = FALSE
    BY DEF Init, InitPublisher
  <2>4. calls \in 0..MaxCalls /\ current \in 0..calls
    BY <2>3, ZeroInRange, CallsAssumption
  <2>5. \A c \in Call : pub[c].at \notin {"reads", "names"}
    BY <2>2
  <2> QED BY <2>1, <2>2, <2>3, <2>4, <2>5 DEF PubTypes
<1>5. StoreTypes
  <2>1. free \in 0..MaxFree /\ starts \in 0..MaxStarts
    BY <1>1, ZeroInRange, StoreAssumption
  <2> QED BY <1>1, <1>3, <2>1 DEF StoreTypes
<1>6. /\ Tidy(dir) /\ Data = dir
      /\ Known(coupons, rewritten) /\ Accepted(dir.listings, config.coins)
  BY <1>1, <1>2 DEF Tidy, Data, Known, Accepted
<1>7. Coupled(dir.listings, coupons)
  BY <1>1, <1>2 DEF Coupled
<1> QED BY <1>4, <1>5, <1>6, <1>7 DEF Types, StoreOK

LEMMA NextKeeps ==
  ASSUME Types, StoreOK, [Next]_vars
  PROVE  Types' /\ StoreOK'
<1>1. CASE UNCHANGED vars
  <2>1. Types'
    BY <1>1 DEF vars, publishVars, storeVars, Types, PubTypes, StoreTypes
  <2>2. Data' = Data
    BY <1>1 DEF vars, storeVars, Data
  <2>3. StoreOK'
    BY <1>1, <2>2 DEF StoreOK, vars, storeVars
  <2> QED BY <2>1, <2>3
<1>2. CASE Next
  <2>1. \A terms \in {p.terms : p \in Profiles} \ {"none"} : terms \in Terms
    BY ProfilesAssumption
  <2>2. \A i \in Images : SetProfileImage(i) => Types' /\ StoreOK'
    BY ImageKeeps
  <2>3. SetProductImage => Types' /\ StoreOK'
    BY ImageKeeps DEF SetProductImage
  <2> QED BY <1>2, <2>1, <2>2, <2>3, PublishingKeeps, FinishUpdateKeeps, SaveNewListingKeeps,
             EditListingKeeps, DeleteListingKeeps, ExpireKeeps, SetModeratorsOnListingsKeeps,
             SavePreferencesKeeps,
             SetProfileKeeps, SetSelfAsModeratorKeeps, RemoveSelfAsModeratorKeeps, FollowNodeKeeps,
             HandleFollowKeeps, StopKeeps, StartKeeps, RemoveDisabledCoinsKeeps, UpdateSNFServersKeeps
          DEF Next
<1> QED BY <1>1, <1>2

LEMMA Invariance == Spec => [](Types /\ StoreOK)
BY InitOK, NextKeeps, PTL DEF Spec

\* Every variable has its type: whatever is saved, read back, updated or published, the
\* files are a directory, and no listing is without a coin of some wallet.
THEOREM TypeCorrect == Spec => []TypeOK
<1>1. Types => TypeOK
  BY DEF Types, PubTypes, StoreTypes, TypeOK, PubState, PubPlace
<1> QED BY <1>1, Invariance, PTL

\* Whenever no update is being written, the index, the table of coupons and the counts of
\* the profile agree with the listings and the nodes followed.
THEOREM ConsistentStore == Spec => []StoreConsistent
<1>1. Types /\ StoreOK => StoreConsistent
  BY DEF StoreOK, StoreConsistent, Data, Tidy, Coupled, Known
<1> QED BY <1>1, Invariance, PTL

\* After Start no listing has a coin without a wallet, unless one that had such a coin
\* could not be saved without it: no coin was left, or the listing had expired.
THEOREM CoinsStayEnabled == Spec => []CoinsEnabled
<1>1. Types /\ StoreOK => CoinsEnabled
  BY DEF StoreOK, CoinsEnabled, Data, Tidy, Accepted, Indexed
<1> QED BY <1>1, Invariance, PTL

-----------------------------------------------------------------------------
(* What a directory shows to others *)

ShownImages(d) == IF d.profile = None THEN {} ELSE d.images \ {"product"}

ShownProfile(d) == IF d.profile = None THEN None ELSE [d.profile EXCEPT !.followers = 0, !.following = 0]

\* Public, in terms of what it shows.
Shown(d, e) ==
  /\ d.listings = e.listings /\ d.index = e.index /\ d.indexed = e.indexed
  /\ ShownImages(d) = ShownImages(e) /\ ShownProfile(d) = ShownProfile(e)

LEMMA PublicIs ==
  ASSUME NEW d \in Dir
  PROVE  Public(d) = [listings |-> d.listings, index |-> d.index, indexed |-> d.indexed,
                      profile |-> ShownProfile(d), images |-> ShownImages(d),
                      followers |-> {}, following |-> {}]
<1> DEFINE images == ShownImages(d)
           profile == ShownProfile(d)
<1>1. PICK f : f = [d EXCEPT !.followers = {}, !.following = {}]
  OBVIOUS
<1>2. f = [listings |-> d.listings, index |-> d.index, indexed |-> d.indexed,
           profile |-> d.profile, images |-> d.images, followers |-> {}, following |-> {}]
  <2>1. PICK a, b, c, p, i, g, h :
          d = [listings |-> a, index |-> b, indexed |-> c, profile |-> p, images |-> i,
               followers |-> g, following |-> h]
    BY DirIs
  <2>2. f = [listings |-> a, index |-> b, indexed |-> c, profile |-> p, images |-> i,
             followers |-> {}, following |-> {}]
    BY <1>1, <2>1
  <2> QED BY <2>1, <2>2
<1>3. Public(d) = [f EXCEPT !.images = images, !.profile = profile]
  BY <1>1, <1>2 DEF Public, ShownImages, ShownProfile
<1> HIDE DEF images, profile
<1>4. Public(d) = [listings |-> d.listings, index |-> d.index, indexed |-> d.indexed,
                   profile |-> profile, images |-> images, followers |-> {}, following |-> {}]
  BY <1>2, <1>3
<1> QED BY <1>4 DEF images, profile

LEMMA SamePublic ==
  ASSUME NEW d \in Dir, NEW e \in Dir
  PROVE  Public(d) = Public(e) <=> Shown(d, e)
<1> DEFINE Fields(x) == [listings |-> x.listings, index |-> x.index, indexed |-> x.indexed,
                         profile |-> ShownProfile(x), images |-> ShownImages(x),
                         followers |-> {}, following |-> {}]
<1>1. Public(d) = Fields(d) /\ Public(e) = Fields(e)
  BY PublicIs
<1>2. Fields(d) = Fields(e) <=> Shown(d, e)
  BY DEF Shown
<1> HIDE DEF Fields
<1> QED BY <1>1, <1>2

LEMMA ShownProfileIs ==
  ASSUME NEW d \in Dir
  PROVE  ShownProfile(d) = None <=> d.profile = None
<1>1. ASSUME d.profile # None PROVE ShownProfile(d) # None
  <2>1. d.profile \in Profile
    BY <1>1, DirIs
  <2>2. [d.profile EXCEPT !.followers = 0, !.following = 0] \in Profile
    BY <2>1, ZeroCounts DEF Profile
  <2> QED BY <1>1, <2>2, NothingAssumption DEF ShownProfile
<1> QED BY <1>1 DEF ShownProfile

\* A publish that read the images and the listings when they showed the same as now.
LEMMA ReadShows ==
  ASSUME PubTypes, dir \in Dir, NEW c \in Call, pub[c].at = "reads",
         Public(pub[c].root) = Public(dir)
  PROVE  Public(Read(c)) = Public(dir)
<1> DEFINE root == pub[c].root
           read == Read(c)
<1>1. root \in Dir /\ read \in Dir /\ read = [dir EXCEPT !.images = root.images, !.listings = root.listings]
  BY ReadTyped
<1>2. Shown(root, dir)
  BY <1>1, SamePublic
<1> HIDE DEF root, read
<1>3. /\ read.images = root.images /\ read.listings = root.listings /\ read.index = dir.index
      /\ read.indexed = dir.indexed /\ read.profile = dir.profile
  BY <1>1 DEF Dir
<1>4. dir.profile = None <=> root.profile = None
  BY <1>1, <1>2, ShownProfileIs DEF Shown
<1>5. ShownProfile(read) = ShownProfile(dir)
  BY <1>3 DEF ShownProfile
<1>6. ShownImages(read) = ShownImages(dir)
  BY <1>2, <1>3, <1>4 DEF ShownImages, Shown
<1>7. Shown(read, dir)
  BY <1>2, <1>3, <1>5, <1>6 DEF Shown
<1> QED BY <1>1, <1>7, SamePublic DEF read

-----------------------------------------------------------------------------
(* The invariant of publishing *)

\* A publish is going to be asked for.
Due == (\E c \in Call : pub[c].at = "waits") \/ (writing # None /\ writing.publish)

\* What the publish that is not cancelled knows: the record that there is; unless another
\* is due, that what it read is what there is to see; and that its root is pinned.
PublishOK ==
  current # 0 =>
    /\ pub[current].at \in {"unpins", "adds", "reads", "names"} => pub[current].old = record
    /\ ~Due => /\ pub[current].at \in {"reads", "names"} => Public(pub[current].root) = Public(dir)
               /\ pub[current].at = "ended" => Public(record) = Public(dir)
    /\ ~late => /\ pub[current].at = "names" => pub[current].root \in pinned
                /\ pub[current].at = "ended" => record \in pinned

\* An update that does not publish changes nothing that is shown.
WritingOK == writing # None /\ ~writing.publish => Public(writing.dir) = Public(dir)

\* A step of the publish that is current, or of another one.
LEMMA StepPublishes ==
  ASSUME PubTypes, dir \in Dir, PublishOK, NEW c \in Call, Step(c),
         UNCHANGED <<dir, calls, booted, up, writing>>
  PROVE  PublishOK'
<1>1. /\ PubTypes' /\ pub'[c].at # "waits" /\ \A k \in Call \ {c} : pub'[k] = pub[k]
  BY StepTyped
<1>2. \A at, old, root : Moves(c, at, old, root) =>
        pub'[c].at = at /\ pub'[c].old = old /\ pub'[c].root = root
  BY DEF Moves, PubTypes
<1>3. pub[c].at # "waits" => (Due' <=> Due)
  BY <1>1 DEF Due
<1>4. current \in Nat /\ (current # 0 => current \in Call)
  BY CallsAssumption DEF PubTypes, Call
<1>5. dir' = dir
  OBVIOUS
<1>6. CASE current' = 0
  BY <1>6 DEF PublishOK
<1>7. CASE current' # 0 /\ current' # c
  <2>1. current' = current /\ pub'[current] = pub[current] /\ record' = record
    BY <1>1, <1>4, <1>7 DEF Step, Cancelled
  <2>2. pub[c].at # "waits"
    BY <1>7 DEF Step, Working
  <2>3. ~late' => ~late /\ pinned \subseteq pinned'
    BY <1>7, <2>1 DEF Step, Cancelled
  <2> QED BY <1>3, <1>5, <2>1, <2>2, <2>3 DEF PublishOK
<1>8. CASE current' = c
  <2>1. CASE pub'[c].at \in {"starts", "failed"}
    BY <1>8, <2>1, <1>1 DEF PublishOK
  <2>2. CASE pub[c].at = "starts" /\ pub'[c].at \in {"adds", "unpins"}
    BY <1>2, <1>8, <2>2 DEF PublishOK, Step, Working
  <2>3. CASE pub[c].at = "unpins" /\ pub'[c].at = "adds"
    BY <1>2, <1>8, <2>3 DEF PublishOK, Step, Working
  <2>4. CASE pub[c].at = "adds" /\ pub'[c].at = "reads"
    BY <1>2, <1>5, <1>8, <2>4 DEF PublishOK, Step, Working
  <2>5. CASE pub[c].at = "reads" /\ pub'[c].at \in {"names", "ended"}
    BY <1>2, <1>3, <1>5, <1>8, <2>5, ReadShows DEF PublishOK, Step, Working
  <2>6. CASE pub[c].at = "names" /\ pub'[c].at = "ended"
    BY <1>2, <1>3, <1>5, <1>8, <2>6 DEF PublishOK, Step, Working
  <2> QED BY <1>2, <2>1, <2>2, <2>3, <2>4, <2>5, <2>6 DEF Step
<1> QED BY <1>6, <1>7, <1>8

\* An update that changes nothing of what is shown shows the same while it is written.
LEMMA PartlyShown ==
  ASSUME NEW d \in Dir, NEW new \in Dir, Shown(new, d), NEW e \in Dir, NEW first,
         e = [f \in DOMAIN d |-> IF f \in first THEN new[f] ELSE d[f]]
  PROVE  Shown(e, d)
<1>1. /\ e.listings \in {d.listings, new.listings} /\ e.index \in {d.index, new.index}
      /\ e.indexed \in {d.indexed, new.indexed} /\ e.profile \in {d.profile, new.profile}
      /\ e.images \in {d.images, new.images}
  BY DEF Dir
<1>2. new.profile = None <=> d.profile = None
  BY ShownProfileIs DEF Shown
<1>3. ShownProfile(e) = ShownProfile(d)
  BY <1>1 DEF Shown, ShownProfile
<1>4. ShownImages(e) = ShownImages(d)
  BY <1>1, <1>2 DEF Shown, ShownImages
<1> QED BY <1>1, <1>3, <1>4 DEF Shown

LEMMA AskingPublishes ==
  ASSUME PublishOK, NEW new, NEW first, Update(new, first, TRUE), writing' # None
  PROVE  PublishOK' /\ WritingOK'
<1>1. writing' = [dir |-> new, publish |-> TRUE] /\ UNCHANGED publishVars
  BY DEF Update
<1>2. Due' /\ writing'.publish
  BY <1>1 DEF Due
<1> QED BY <1>1, <1>2 DEF PublishOK, WritingOK, publishVars

LEMMA SilentUpdate ==
  ASSUME Types, PublishOK, NEW new \in Dir, NEW first, Update(new, first, FALSE),
         Shown(new, dir)
  PROVE  PublishOK' /\ WritingOK'
<1>1. /\ writing' = [dir |-> new, publish |-> FALSE] /\ UNCHANGED publishVars /\ writing = None
      /\ dir' = [f \in DOMAIN dir |-> IF f \in first THEN new[f] ELSE dir[f]]
  BY DEF Update, Idle
<1>2. dir \in Dir /\ dir' \in Dir
  BY UpdateBegins DEF Types, StoreTypes
<1>3. Shown(dir', dir)
  BY <1>1, <1>2, PartlyShown
<1>4. Public(dir') = Public(dir) /\ Public(new) = Public(dir)
  BY <1>2, <1>3, SamePublic
<1>5. Due' <=> Due
  BY <1>1 DEF Due, publishVars
<1>6. WritingOK'
  BY <1>1, <1>4 DEF WritingOK
<1>7. PublishOK'
  BY <1>1, <1>4, <1>5 DEF PublishOK, publishVars
<1> QED BY <1>6, <1>7

LEMMA ImagePublishes ==
  ASSUME Types, StoreOK, PublishOK, NEW i \in Images, SetProfileImage(i) \/ (SetProductImage /\ i = "product")
  PROVE  PublishOK' /\ WritingOK'
<1> DEFINE d == WithImage(dir, i)
<1>1. writing' # None
  BY ImageKeeps
<1>2. CASE SetProfileImage(i) /\ dir.profile # None
  BY <1>1, <1>2, AskingPublishes DEF SetProfileImage
<1>3. CASE Update(d, {"images"}, FALSE) /\ (dir.profile = None \/ i = "product")
  <2>1. dir \in Dir
    BY DEF Types, StoreTypes
  <2>2. /\ d \in Dir /\ d.images = dir.images \cup {i}
        /\ d.listings = dir.listings /\ d.index = dir.index
        /\ d.indexed = dir.indexed /\ d.profile = dir.profile
    BY <2>1, WithImageTyped
  <2> HIDE DEF d
  <2>3. Shown(d, dir)
    BY <1>3, <2>2 DEF Shown, ShownImages, ShownProfile
  <2> QED BY <1>3, <2>2, <2>3, SilentUpdate
<1> QED BY <1>2, <1>3 DEF SetProfileImage, SetProductImage

LEMMA FollowPublishes ==
  ASSUME Types, StoreOK, PublishOK, NEW p \in Peers, FollowNode(p) \/ HandleFollow(p)
  PROVE  PublishOK' /\ WritingOK'
<1>1. dir \in Dir
  BY DEF Types, StoreTypes
<1>2. CASE FollowNode(p)
  <2> DEFINE d == [dir EXCEPT !.following = IF p \in @ THEN @ \ {p} ELSE @ \cup {p}]
  <2>1. Update(WithStats(d), {"following"}, FALSE) /\ Tidy(dir)
    BY <1>2 DEF FollowNode, Update, Idle, StoreOK, Data
  <2>2. /\ d \in Dir /\ d.listings = dir.listings /\ d.index = dir.index
        /\ d.indexed = dir.indexed /\ d.profile = dir.profile /\ d.images = dir.images
    BY <1>1, FollowTyped
  <2> HIDE DEF d
  <2>3. PICK new : new = WithStats(d)
    OBVIOUS
  <2>4. /\ new \in Dir /\ new.listings = dir.listings /\ new.index = dir.index
        /\ new.indexed = dir.indexed /\ new.images = dir.images
        /\ (new.profile = None <=> dir.profile = None)
    BY <2>2, <2>3, WithStatsTyped
  <2>5. ShownProfile(new) = ShownProfile(dir)
    <3>1. CASE dir.profile = None
      BY <2>4, <3>1 DEF ShownProfile
    <3>2. CASE dir.profile # None
      <4>1. new.profile = [dir.profile EXCEPT !.listings = Cardinality(Indexed(d)),
                                              !.followers = Cardinality(d.followers),
                                              !.following = Cardinality(d.following)]
        BY <2>2, <2>3, <3>2, WithStatsTyped
      <4>2. Cardinality(Indexed(d)) = dir.profile.listings
        BY <2>1, <2>2, <3>2 DEF Tidy, Indexed
      <4>3. dir.profile \in Profile
        BY <1>1, <3>2, DirIs
      <4>4. [new.profile EXCEPT !.followers = 0, !.following = 0]
            = [dir.profile EXCEPT !.followers = 0, !.following = 0]
        BY <4>1, <4>2, <4>3 DEF Profile
      <4> QED BY <2>4, <3>2, <4>4 DEF ShownProfile
    <3> QED BY <3>1, <3>2
  <2>6. Shown(new, dir)
    BY <2>4, <2>5 DEF Shown, ShownImages
  <2> QED BY <2>1, <2>3, <2>4, <2>6, SilentUpdate
<1>3. CASE HandleFollow(p)
  <2> DEFINE d == [dir EXCEPT !.followers = IF p \in @ THEN @ \ {p} ELSE @ \cup {p}]
  <2>1. Update(d, {"followers"}, FALSE)
    BY <1>3 DEF HandleFollow
  <2>2. /\ d \in Dir /\ d.listings = dir.listings /\ d.index = dir.index
        /\ d.indexed = dir.indexed /\ d.profile = dir.profile /\ d.images = dir.images
    BY <1>1, FollowTyped
  <2> HIDE DEF d
  <2>3. Shown(d, dir)
    BY <2>2 DEF Shown, ShownImages, ShownProfile
  <2> QED BY <2>1, <2>2, <2>3, SilentUpdate
<1> QED BY <1>2, <1>3

LEMMA PublishingPublishes ==
  ASSUME Types, PublishOK, WritingOK, Publishing
  PROVE  PublishOK' /\ WritingOK'
<1>1. PubTypes /\ dir \in Dir
  BY DEF Types, StoreTypes
<1>2. writing' = writing /\ PublisherNext
  BY DEF Publishing, storeVars
<1>3. CASE Bootstrap
  BY <1>2, <1>3 DEF Bootstrap, publishVars, PublishOK, WritingOK, Due
<1>4. CASE Republish
  <2>1. dir' = dir /\ UNCHANGED <<current, record, pinned, late>>
    BY <1>4 DEF Republish, Publish
  <2>2. /\ PubTypes' /\ calls + 1 \in Call /\ current \in 0..calls /\ calls \in Nat
        /\ pub' = [pub EXCEPT ![calls + 1].at = "waits"]
    BY <1>1, <1>4, PublishTyped, CallsAssumption DEF Republish, PubTypes
  <2>3. pub'[calls + 1].at = "waits"
    BY <1>1, <2>2 DEF PubTypes, PubState
  <2>4. Due'
    BY <2>2, <2>3 DEF Due
  <2>5. current # 0 => pub'[current] = pub[current]
    <3>1. current # 0 => current \in Call /\ current # calls + 1
      BY <1>1, <2>2, CallsAssumption DEF PubTypes, Call
    <3> QED BY <1>1, <2>2, <3>1 DEF PubTypes
  <2> QED BY <1>2, <2>1, <2>4, <2>5 DEF PublishOK, WritingOK
<1>5. ASSUME NEW c \in Call, TakePublish(c) \/ StepPublish(c) PROVE PublishOK' /\ WritingOK'
  <2>1. Step(c) /\ UNCHANGED <<dir, calls, booted, up>>
    BY <1>1, <1>5, StepsAreMoves
  <2> QED BY <1>1, <1>2, <2>1, StepPublishes DEF WritingOK
<1>6. ASSUME NEW c \in Call, CloseDone(c) PROVE PublishOK' /\ WritingOK'
  <2>1. UNCHANGED <<dir, calls, pub, current, record, pinned, booted, up, late>>
    BY <1>6 DEF CloseDone
  <2> QED BY <1>2, <2>1 DEF PublishOK, WritingOK, Due
<1> QED BY <1>2, <1>3, <1>4, <1>5, <1>6 DEF PublisherNext

LEMMA FinishPublishes ==
  ASSUME Types, PublishOK, WritingOK, FinishUpdate
  PROVE  PublishOK' /\ WritingOK'
<1>1. writing # None /\ dir' = writing.dir /\ writing' = None /\ WritingOK'
  BY DEF FinishUpdate, WritingOK
<1>2. CASE writing.publish
  <2>1. Publish /\ UNCHANGED <<booted, up>> /\ UNCHANGED <<current, record, pinned, late>>
    BY <1>2 DEF FinishUpdate, Publish
  <2>2. /\ PubTypes /\ PubTypes' /\ calls + 1 \in Call /\ current \in 0..calls /\ calls \in Nat
        /\ pub' = [pub EXCEPT ![calls + 1].at = "waits"]
    BY <2>1, PublishTyped, CallsAssumption DEF Types, PubTypes
  <2>3. pub'[calls + 1].at = "waits"
    BY <2>2 DEF PubTypes, PubState
  <2>4. Due'
    BY <2>2, <2>3 DEF Due
  <2>5. current # 0 => pub'[current] = pub[current]
    <3>1. current # 0 => current \in Call /\ current # calls + 1
      BY <2>2, CallsAssumption DEF PubTypes, Call
    <3> QED BY <2>2, <3>1 DEF PubTypes
  <2> QED BY <1>1, <2>1, <2>4, <2>5 DEF PublishOK
<1>3. CASE ~writing.publish
  <2>1. UNCHANGED publishVars /\ Public(dir') = Public(dir)
    BY <1>1, <1>3 DEF FinishUpdate, WritingOK
  <2>2. Due' <=> Due
    BY <1>1, <1>3, <2>1 DEF Due, publishVars
  <2> QED BY <1>1, <2>1, <2>2 DEF PublishOK, publishVars
<1> QED BY <1>2, <1>3

LEMMA StartPublishes ==
  ASSUME WritingOK, NEW c \in Configs, Start(c)
  PROVE  PublishOK' /\ WritingOK'
<1>1. current' = 0 /\ UNCHANGED <<dir, writing>>
  BY DEF Start
<1> QED BY <1>1 DEF PublishOK, WritingOK

LEMMA ListingPublishes ==
  ASSUME Types, StoreOK, PublishOK,
         \/ SaveNewListing \/ \E s \in Slug : EditListing(s) \/ DeleteListing(s)
         \/ \E mods \in SUBSET Moderators : SetModeratorsOnListings(mods) \/ SavePreferences(mods)
  PROVE  PublishOK' /\ WritingOK'
<1>1. writing' # None
  BY SaveNewListingKeeps, EditListingKeeps, DeleteListingKeeps, SetModeratorsOnListingsKeeps,
     SavePreferencesKeeps
<1>2. \A s, draft : SaveListing(s, draft) => PublishOK' /\ WritingOK'
  BY <1>1, AskingPublishes DEF SaveListing
<1>3. \A new : UpdateAll(new, TRUE) => PublishOK' /\ WritingOK'
  BY <1>1, AskingPublishes DEF UpdateAll
<1>4. SaveNewListing => PublishOK' /\ WritingOK'
  BY <1>2 DEF SaveNewListing
<1>5. \A s \in Slug : EditListing(s) => PublishOK' /\ WritingOK'
  BY <1>2 DEF EditListing
<1>6. \A s \in Slug : DeleteListing(s) => PublishOK' /\ WritingOK'
  BY <1>1, AskingPublishes DEF DeleteListing
<1>7. \A mods : SetModeratorsOnListings(mods) \/ SavePreferences(mods) => PublishOK' /\ WritingOK'
  BY <1>3 DEF SetModeratorsOnListings, SavePreferences
<1> QED BY <1>4, <1>5, <1>6, <1>7

LEMMA ProfilePublishes ==
  ASSUME Types, StoreOK, PublishOK,
         \/ \E p \in Profiles : SetProfile(p)
         \/ \E terms \in Terms : SetSelfAsModerator(terms)
         \/ RemoveSelfAsModerator
  PROVE  PublishOK' /\ WritingOK'
<1>1. writing' # None
  BY SetProfileKeeps, SetSelfAsModeratorKeeps, RemoveSelfAsModeratorKeeps
<1>2. \A p \in Profiles : SetProfile(p) => PublishOK' /\ WritingOK'
  BY <1>1, AskingPublishes DEF SetProfile
<1>3. \A terms \in Terms : SetSelfAsModerator(terms) => PublishOK' /\ WritingOK'
  BY <1>1, AskingPublishes DEF SetSelfAsModerator
<1>4. RemoveSelfAsModerator => PublishOK' /\ WritingOK'
  BY <1>1, AskingPublishes DEF RemoveSelfAsModerator
<1> QED BY <1>2, <1>3, <1>4

LEMMA StartingPublishes ==
  ASSUME Types, StoreOK, PublishOK, WritingOK, RemoveDisabledCoins \/ UpdateSNFServers
  PROVE  PublishOK' /\ WritingOK'
<1>1. writing' # None \/ UNCHANGED <<dir, publishVars, writing>>
  BY RemoveDisabledCoinsKeeps, UpdateSNFServersKeeps
<1>2. CASE UNCHANGED <<dir, publishVars, writing>>
  BY <1>2 DEF PublishOK, WritingOK, Due, publishVars
<1>3. CASE writing' # None /\ \E new, first : Update(new, first, TRUE)
  BY <1>3, AskingPublishes
<1>4. UpdateSNFServers => \/ \E new, first : Update(new, first, TRUE)
                          \/ UNCHANGED <<dir, publishVars, writing>>
  BY DEF UpdateSNFServers
<1>5. RemoveDisabledCoins => \/ \E new, first : Update(new, first, TRUE)
                             \/ UNCHANGED <<dir, publishVars, writing>>
  BY DEF RemoveDisabledCoins, UpdateAll
<1> QED BY <1>1, <1>2, <1>3, <1>4, <1>5

LEMMA NextPublishes ==
  ASSUME Types, StoreOK, PublishOK, WritingOK, [Next]_vars
  PROVE  PublishOK' /\ WritingOK'
<1>1. CASE UNCHANGED vars
  BY <1>1 DEF vars, publishVars, storeVars, PublishOK, WritingOK, Due
<1>2. CASE Next
  <2>1. \A terms \in {p.terms : p \in Profiles} \ {"none"} : terms \in Terms
    BY ProfilesAssumption
  <2>2. \A i \in Images : SetProfileImage(i) => PublishOK' /\ WritingOK'
    BY ImagePublishes
  <2>3. SetProductImage => PublishOK' /\ WritingOK'
    BY ImagePublishes DEF SetProductImage
  <2>4. /\ \A force : Stop(force) => PublishOK' /\ WritingOK'
        /\ \A s : Expire(s) => PublishOK' /\ WritingOK'
    BY DEF Stop, Expire, publishVars, storeVars, PublishOK, WritingOK, Due
  <2> QED BY <1>2, <2>1, <2>2, <2>3, <2>4, PublishingPublishes, FinishPublishes, ListingPublishes,
             ProfilePublishes, FollowPublishes, StartPublishes, StartingPublishes
          DEF Next
<1> QED BY <1>1, <1>2

LEMMA PublishInvariance == Spec => [](PublishOK /\ WritingOK)
<1>1. Init => PublishOK /\ WritingOK
  BY DEF Init, InitPublisher, PublishOK, WritingOK
<1>2. Types /\ StoreOK /\ (PublishOK /\ WritingOK) /\ [Next]_vars => (PublishOK /\ WritingOK)'
  BY NextPublishes
<1> QED BY <1>1, <1>2, Invariance, PTL DEF Spec

LEMMA QuietIsNotDue ==
  ASSUME Types, Quiet
  PROVE  current # 0 /\ pub[current].at = "ended" /\ ~Due
<1>1. writing = None /\ \A c \in Call : pub[c].at # "waits"
  BY DEF Quiet
<1> QED BY <1>1 DEF Quiet, Due

\* When the publishes have come to rest, the last of them at its end, the record shows
\* the data as it is, however the publishes before it were cut short and however updates
\* were written while the directory was read.
THEOREM PublishedAtRest == Spec => []PublishedWhenQuiet
<1>1. Types /\ PublishOK => PublishedWhenQuiet
  BY QuietIsNotDue DEF PublishedWhenQuiet, PublishOK
<1> QED BY <1>1, Invariance, PublishInvariance, PTL

\* The root that the record then names is pinned, if no publish took away a pin after it
\* was superseded.
THEOREM PinnedAtRest == Spec => []PinnedWhenQuiet
<1>1. Types /\ PublishOK => PinnedWhenQuiet
  BY QuietIsNotDue DEF PinnedWhenQuiet, PublishOK
<1> QED BY <1>1, Invariance, PublishInvariance, PTL
=============================================================================
