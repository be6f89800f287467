------------------------------- MODULE Store -------------------------------
(***************************************************************************)
(* What a node makes public (core/listings.go, core/profile.go,            *)
(* core/preferences.go, core/moderation.go, core/images.go, core/follow.go *)
(* and Start and Stop of core/node.go), and when it is published.  An      *)
(* update changes tables and files together or not at all, which is the    *)
(* subject of Transactions; its files are written one after the other.     *)
(* Listings are told apart by what updates change: moderators, coins and   *)
(* coupons, a coupon by its code or the hash of it, which is written as    *)
(* the code too.                                                           *)
(***************************************************************************)
EXTENDS Publisher

CONSTANTS
  Profiles,    \* what the user may set: its texts, a moderator's terms and the images
  Images,      \* names of image files
  Slug,        \* the slugs generateListingSlug tries, in their order: 1..n
  Codes, NoCode, Moderators, Peers,
  Configs,     \* what a node is started with: its wallets and servers
  MaxFree,     \* bound: changes that publish nothing, and listings that expire
  MaxStarts    \* bound: restarts

ASSUME ImagesAssumption == Images \subseteq {"avatar", "header", "product"}

ASSUME StoreAssumption == MaxFree \in Nat /\ MaxStarts \in Nat /\ NoCode \notin Codes

ASSUME FiniteAssumption == IsFiniteSet(Slug) /\ IsFiniteSet(Peers)

Listings == [mods : SUBSET Moderators, coins : (SUBSET UNION {c.coins : c \in Configs}) \ {{}},
             coupons : SUBSET (Codes \cup {NoCode})]

\* A row of the table of coupons.
Row == [slug : Slug, hash : Codes \cup {NoCode}, code : Codes \cup {NoCode}]

\* A moderator's terms: none, with the fee they need, or without it.
Terms == {"none", "fee", "no fee"}

Profile == [tidy : BOOLEAN, moderator : BOOLEAN, terms : Terms, images : SUBSET Images,
            servers : {c.servers : c \in Configs}, listings : 0..Cardinality(Slug),
            followers : 0..Cardinality(Peers), following : 0..Cardinality(Peers)]

ASSUME ProfilesAssumption ==
  Profiles \subseteq [tidy : BOOLEAN, moderator : BOOLEAN, terms : Terms, images : SUBSET Images]

\* The files of the public data directory.
Dir == [listings : [Slug -> Listings \cup {None}], index : [Slug -> Listings \cup {None}],
        indexed : BOOLEAN, profile : Profile \cup {None}, images : SUBSET Images,
        followers : SUBSET Peers, following : SUBSET Peers]

\* The rest of an update: the directory it leaves, and whether it publishes it.
Writing == [dir : Dir, publish : BOOLEAN]

ASSUME NothingAssumption == None \notin Listings \cup Profile \cup Dir \cup Writing

VARIABLES
  writing,     \* the update whose files are being written
  coupons,     \* the table of coupon codes
  prefs,       \* the moderators of UserPreferences
  config,
  provider,    \* the block by which moderators are found is in the node's store
  starting,    \* how far Start has come
  rewritten,   \* listings last saved with the hash of a coupon
  barred,      \* listings for which Start could not remove the coins without a wallet
  expired,     \* listings whose expiry has passed
  free, starts

storeVars == <<writing, coupons, prefs, config, provider, starting, rewritten, barred, expired, free, starts>>

vars == <<dir, booted, up, publishVars, storeVars>>

\* The first Start finds nothing to do in an empty directory.
Init ==
  /\ InitPublisher
  /\ dir = [listings |-> [s \in Slug |-> None], index |-> [s \in Slug |-> None], indexed |-> FALSE,
            profile |-> None, images |-> {}, followers |-> {}, following |-> {}]
  /\ writing = None /\ coupons = {} /\ prefs = {} /\ config \in Configs /\ provider = FALSE
  /\ starting = "ready" /\ rewritten = {} /\ barred = {} /\ expired = {} /\ free = 0 /\ starts = 0

Indexed(d) == {s \in Slug : d.index[s] # None}

Idle == up /\ writing = None

\* An update writes its files, these first, and then publishes or does not.
Update(new, first, publish) ==
  /\ Idle
  /\ publish => calls < MaxCalls
  /\ IF publish THEN free' = free ELSE free < MaxFree /\ free' = free + 1
  /\ dir' = [f \in DOMAIN dir |-> IF f \in first THEN new[f] ELSE dir[f]]
  /\ writing' = [dir |-> new, publish |-> publish]
  /\ UNCHANGED <<booted, up, publishVars, config, starts>>

FinishUpdate ==
  /\ writing # None
  /\ dir' = writing.dir /\ writing' = None
  /\ IF writing.publish THEN Publish ELSE UNCHANGED publishVars
  /\ UNCHANGED <<booted, up, coupons, prefs, config, provider, starting, rewritten, barred, expired, free, starts>>

-----------------------------------------------------------------------------
(* Listings *)

\* updateAndSaveProfile
WithStats(d) ==
  IF d.profile = None THEN d
  ELSE [d EXCEPT !.profile.listings = Cardinality(Indexed(d)),
                 !.profile.followers = Cardinality(d.followers),
                 !.profile.following = Cardinality(d.following)]

\* saveListingToDB: a draft's coupon is a code, or a hash that was read back.
Saved(draft) == [draft EXCEPT !.coupons = {k.of : k \in draft.coupons}]

Rows(s, draft) ==
  {r \in coupons : r.slug # s} \cup
  {[slug |-> s, hash |-> k.of, code |-> IF k.is = "code" THEN k.of ELSE NoCode] : k \in draft.coupons}

\* Mutant: no coin needed.
CanSaveCoinless(draft) == draft.coins \subseteq config.coins

CanSave(draft) == draft.coins # {} /\ draft.coins \subseteq config.coins

\* The listing, its line of the index and the counts of the profile.
PutListing(s, draft) ==
  WithStats([dir EXCEPT !.listings[s] = Saved(draft), !.index[s] = Saved(draft), !.indexed = TRUE])

\* The draft has an expiry that is still to come.
SaveListing(s, draft) ==
  /\ CanSave(draft)
  /\ Update(PutListing(s, draft), {"listings"}, TRUE)
  /\ coupons' = Rows(s, draft) /\ expired' = expired \ {s}
  /\ rewritten' = IF \A k \in draft.coupons : k.is = "code" THEN rewritten \ {s} ELSE rewritten \cup {s}
  /\ UNCHANGED <<prefs, provider, starting, barred>>

\* generateListingSlug
FreeSlug(s) == s \notin Indexed(dir) /\ \A t \in 1..(s - 1) : t \in Indexed(dir)

SaveNewListing ==
  \E s \in Slug, codes \in SUBSET Codes, coins \in SUBSET config.coins :
    /\ FreeSlug(s)
    /\ SaveListing(s, [mods |-> {}, coins |-> coins, coupons |-> {[is |-> "code", of |-> c] : c \in codes}])

\* GetMyListingBySlug puts the codes back, and the user changes the coins; a listing as
\* others read it has the hashes.
EditListing(s) ==
  /\ s \in Indexed(dir)
  /\ LET codes == {r \in coupons : r.slug = s /\ r.hash \in dir.listings[s].coupons} IN
     \E coins \in SUBSET config.coins, is \in {"code", "hash"} :
       SaveListing(s, [dir.listings[s] EXCEPT !.coins = coins,
                         !.coupons = {[is |-> is, of |-> IF is = "code" THEN r.code ELSE r.hash] : r \in codes}])

DeleteListing(s) ==
  /\ s \in Indexed(dir)
  /\ Update(WithStats([dir EXCEPT !.listings[s] = None, !.index[s] = None]), {"index", "indexed"}, TRUE)
  /\ coupons' = {r \in coupons : r.slug # s} /\ rewritten' = rewritten \ {s} /\ expired' = expired \ {s}
  /\ UNCHANGED <<prefs, provider, starting, barred>>

\* Time passes.
Expire(s) ==
  /\ s \in Indexed(dir) \ expired /\ expired' = expired \cup {s}
  /\ free < MaxFree /\ free' = free + 1
  /\ UNCHANGED <<dir, booted, up, publishVars, writing, coupons, prefs, config, provider, starting,
                 rewritten, barred, starts>>

-----------------------------------------------------------------------------
(* updateAllListings: the listings that its function changes are saved as  *)
(* they were read back, with their expiry and the hashes of their coupons, *)
(* all or none                                                             *)

CanUpdateAll(new) == \A s \in DOMAIN new : CanSave(new[s]) /\ s \notin expired

\* The new listings, and the rest as they were.
Merged(new, old) == [s \in DOMAIN old |-> IF s \in DOMAIN new THEN new[s] ELSE old[s]]

\* Mutant: the index is left for the next save.
AllUpdatedNotIndexed(new) ==
  IF DOMAIN new = {} THEN dir ELSE WithStats([dir EXCEPT !.listings = Merged(new, @)])

\* Without a listing to change nothing is written, not even the counts.
AllUpdated(new) ==
  IF DOMAIN new = {} THEN dir
  ELSE WithStats([dir EXCEPT !.listings = Merged(new, @), !.index = Merged(new, @)])

RowsReadBack(new) ==
  {r \in coupons : r.slug \notin DOMAIN new} \cup
  UNION {{[slug |-> s, hash |-> h, code |-> NoCode] : h \in new[s].coupons} : s \in DOMAIN new}

UpdateAll(new, publish) ==
  /\ CanUpdateAll(new)
  /\ Update(AllUpdated(new), {"listings"}, publish)
  /\ coupons' = RowsReadBack(new) /\ rewritten' = rewritten \cup DOMAIN new

WithModerators(mods) == [s \in Indexed(dir) |-> [dir.listings[s] EXCEPT !.mods = mods]]

SetModeratorsOnListings(mods) ==
  Indexed(dir) # {} /\ UpdateAll(WithModerators(mods), TRUE) /\ UNCHANGED <<prefs, provider, starting, barred, expired>>

\* Published when the moderators change, whether or not there is a listing; otherwise
\* nothing closes the caller's done channel.
SavePreferences(mods) ==
  /\ mods # prefs /\ prefs' = mods
  /\ UpdateAll(IF dir.indexed THEN WithModerators(mods) ELSE <<>>, TRUE)
  /\ UNCHANGED <<provider, starting, barred, expired>>

-----------------------------------------------------------------------------
(* The profile *)

\* validateProfile: texts, lists, identifiers and hashes within their limits and well
\* formed; a moderator's terms, with the fee that their type asks for.
ValidProfile(p) ==
  /\ p.tidy
  /\ p.moderator => p.terms # "none"
  /\ p.terms # "no fee"

Counted(p) == WithStats([dir EXCEPT !.profile = p]).profile

\* The user's profile with the node's servers; its counts are written with it.
WithServers(p) ==
  [tidy |-> p.tidy, moderator |-> p.moderator, terms |-> p.terms, images |-> p.images,
   servers |-> config.servers, listings |-> 0, followers |-> 0, following |-> 0]

\* The caller's profile replaces the one there is.
SetProfile(p) ==
  /\ ValidProfile(p)
  /\ Update([dir EXCEPT !.profile = Counted(WithServers(p))], {}, TRUE)
  /\ UNCHANGED <<coupons, prefs, provider, starting, rewritten, barred, expired>>

\* Of the terms only the fee is looked at.
SetSelfAsModerator(terms) ==
  /\ dir.profile # None /\ terms # "no fee"
  /\ Update([dir EXCEPT !.profile.moderator = TRUE, !.profile.terms = terms], {}, TRUE)
  /\ provider' = TRUE
  /\ UNCHANGED <<coupons, prefs, starting, rewritten, barred, expired>>

\* The block is taken out, and the flag of the profile is set here too.
RemoveSelfAsModerator ==
  /\ dir.profile # None /\ provider
  /\ Update([dir EXCEPT !.profile.moderator = TRUE], {}, TRUE)
  /\ provider' = FALSE
  /\ UNCHANGED <<coupons, prefs, starting, rewritten, barred, expired>>

\* resizeAndAddImage: a file for each size.
WithImage(d, i) == [d EXCEPT !.images = @ \cup {i}]

\* SetAvatarImage, SetHeaderImage: without a profile nothing is published, nor done closed.
SetProfileImage(i) ==
  /\ i # "product"
  /\ IF dir.profile = None THEN Update(WithImage(dir, i), {"images"}, FALSE)
     ELSE Update([WithImage(dir, i) EXCEPT !.profile.images = @ \cup {i}], {"images"}, TRUE)
  /\ UNCHANGED <<coupons, prefs, provider, starting, rewritten, barred, expired>>

\* Published with the listing it is for.
SetProductImage ==
  /\ "product" \in Images
  /\ Update(WithImage(dir, "product"), {"images"}, FALSE)
  /\ UNCHANGED <<coupons, prefs, provider, starting, rewritten, barred, expired>>

FollowNode(p) ==
  /\ Update(WithStats([dir EXCEPT !.following = IF p \in @ THEN @ \ {p} ELSE @ \cup {p}]), {"following"}, FALSE)
  /\ UNCHANGED <<coupons, prefs, provider, starting, rewritten, barred, expired>>

\* handleFollowMessage and handleUnFollowMessage leave the profile alone.
HandleFollow(p) ==
  /\ Update([dir EXCEPT !.followers = IF p \in @ THEN @ \ {p} ELSE @ \cup {p}], {"followers"}, FALSE)
  /\ UNCHANGED <<coupons, prefs, provider, starting, rewritten, barred, expired>>

-----------------------------------------------------------------------------
(* Start and Stop *)

\* Without force only when no publish is active; what waits to be taken is left.
Stop(force) ==
  /\ Idle /\ (force \/ \A c \in Call : pub[c].at \notin Working)
  /\ up' = FALSE
  /\ UNCHANGED <<dir, booted, publishVars, storeVars>>

\* The process before is gone, with its publishes.
Start(c) ==
  /\ ~up /\ starts < MaxStarts /\ starts' = starts + 1
  /\ up' = TRUE /\ booted' = FALSE /\ config' = c /\ starting' = "coins" /\ barred' = {}
  /\ pub' = [k \in Call |-> [NoPublish EXCEPT !.at = IF pub[k].at = "none" THEN @ ELSE "gone"]] /\ current' = 0
  /\ UNCHANGED <<dir, calls, closed, record, pinned, late, writing, coupons, prefs, provider, rewritten, expired, free>>

\* Mutant: only the listings that no wallet is left for.
EnabledWhenNone ==
  [s \in {t \in Indexed(dir) : dir.listings[t].coins \cap config.coins = {}} |->
     [dir.listings[s] EXCEPT !.coins = config.coins]]

\* The listings that have a coin without a wallet, without it.
Enabled ==
  [s \in {t \in Indexed(dir) : ~(dir.listings[t].coins \subseteq config.coins)} |->
     [dir.listings[s] EXCEPT !.coins = @ \cap config.coins]]

\* Those of them that cannot be saved: no coin is left, or the listing has expired.
Barring ==
  {s \in Indexed(dir) : /\ ~(dir.listings[s].coins \subseteq config.coins)
                        /\ dir.listings[s].coins \cap config.coins = {} \/ s \in expired}

\* removeDisabledCoinsFromListings: one listing that cannot be saved, and all stay.
RemoveDisabledCoins ==
  /\ Idle /\ starting = "coins" /\ starting' = "servers" /\ barred' = Barring
  /\ UNCHANGED <<prefs, provider, expired>>
  /\ \/ DOMAIN Enabled # {} /\ UpdateAll(Enabled, TRUE)
     \/ /\ DOMAIN Enabled = {} \/ ~CanUpdateAll(Enabled)
        /\ UNCHANGED <<dir, booted, up, publishVars, writing, coupons, config, rewritten, free, starts>>

UpdateSNFServers ==
  /\ Idle /\ starting = "servers" /\ starting' = "ready"
  /\ UNCHANGED <<coupons, prefs, provider, rewritten, barred, expired>>
  /\ IF dir.profile # None /\ dir.profile.servers # config.servers
     THEN Update(WithStats([dir EXCEPT !.profile.servers = config.servers]), {}, TRUE)
     ELSE UNCHANGED <<dir, booted, up, publishVars, writing, config, free, starts>>

-----------------------------------------------------------------------------

\* A publish that an update has yet to ask for keeps its place under MaxCalls.
Publishing ==
  /\ PublisherNext /\ UNCHANGED storeVars
  /\ writing # None /\ writing.publish => calls' < MaxCalls

Next ==
  \/ Publishing \/ FinishUpdate
  \/ SaveNewListing \/ \E s \in Slug : EditListing(s) \/ DeleteListing(s) \/ Expire(s)
  \/ \E mods \in SUBSET Moderators : SetModeratorsOnListings(mods) \/ SavePreferences(mods)
  \/ \E p \in Profiles : SetProfile(p)
  \/ \E terms \in {p.terms : p \in Profiles} \ {"none"} : SetSelfAsModerator(terms)
  \/ RemoveSelfAsModerator
  \/ \E i \in Images : SetProfileImage(i)
  \/ SetProductImage
  \/ \E p \in Peers : FollowNode(p) \/ HandleFollow(p)
  \/ \E force \in BOOLEAN : Stop(force)
  \/ \E c \in Configs : Start(c)
  \/ RemoveDisabledCoins \/ UpdateSNFServers

Spec == Init /\ [][Next]_vars

\* The goroutines of a running node go on, and IPFS answers or fails.
FairSpec ==
  /\ Spec /\ WF_vars(FinishUpdate) /\ WF_vars(Bootstrap /\ UNCHANGED storeVars)
  /\ \A c \in Call : /\ WF_vars(TakePublish(c) /\ UNCHANGED storeVars)
                     /\ WF_vars(StepPublish(c) /\ UNCHANGED storeVars)
                     /\ WF_vars(CloseDone(c) /\ UNCHANGED storeVars)

-----------------------------------------------------------------------------
(* Properties *)

\* Every variable has its type.
TypeOK ==
  /\ dir \in Dir /\ writing \in Writing \cup {None}
  /\ calls \in 0..MaxCalls /\ current \in 0..calls /\ closed \subseteq 1..calls
  /\ \A c \in Call : pub[c].at \in Working \cup {"none", "waits", "ended", "failed", "gone"}
  /\ coupons \subseteq Row
  /\ prefs \subseteq Moderators /\ config \in Configs /\ provider \in BOOLEAN /\ rewritten \subseteq Slug
  /\ barred \subseteq Slug /\ expired \subseteq Slug
  /\ free \in 0..MaxFree /\ starts \in 0..MaxStarts

\* The index has a line for every listing and says what it is, the table of coupons has
\* the coupons of every listing and no other, and the profile counts the listings and
\* the nodes followed, after every update (listings.go, SaveListing: "update the listing
\* index and update the listing count in the profile").  The code of a coupon is only
\* forgotten when the listing was saved with its hash, by updateAllListings or the user.
StoreConsistent ==
  writing = None =>
    /\ dir.index = dir.listings
    /\ \A s \in Slug : {r.hash : r \in {k \in coupons : k.slug = s}}
                       = IF dir.listings[s] = None THEN {} ELSE dir.listings[s].coupons
    /\ dir.profile # None => /\ dir.profile.listings = Cardinality(Indexed(dir))
                             /\ dir.profile.following = Cardinality(dir.following)
    /\ \A r \in coupons : r.code = r.hash \/ r.slug \in rewritten

\* After Start no listing accepts a coin without a wallet (listings.go,
\* removeDisabledCoinsFromListings), unless one of those that had such a coin then had no
\* other, or had expired: no listing is cleaned up in that case.
CoinsEnabled ==
  up /\ starting # "coins" /\ writing = None =>
    barred # {} \/ \A s \in Indexed(dir) : dir.listings[s].coins \subseteq config.coins

\* All that was asked to be published has been, the last publish without an error.
Quiet ==
  /\ up /\ writing = None /\ current # 0 /\ pub[current].at = "ended"
  /\ \A c \in Call : pub[c].at \notin Working \cup {"waits"}

\* Whatever is not waiting for the next republish: follows, images of
\* products, and the others without a profile.
Public(d) ==
  LET profile == d.profile
  IN  [d EXCEPT !.followers = {}, !.following = {},
                !.images = IF profile = None THEN {} ELSE @ \ {"product"},
                !.profile = IF profile = None THEN None
                            ELSE [profile EXCEPT !.followers = 0, !.following = 0]]

\* "If a current publish is active it will be canceled and the new publish will supersede
\* it" (network.go:397): when the publishes have come to rest, the record names the data
\* as it is, although one publish was cut short by another, or read the directory while
\* an update was writing to it.
PublishedWhenQuiet == Quiet => Public(record) = Public(dir)

\* The root the record names is pinned then, though each publish takes away the pin of
\* the one before; unless a publish did so after it was superseded (network.go:109).
PinnedWhenQuiet == Quiet /\ ~late => record \in pinned

\* The done channel of a call is closed in the end, whatever becomes of the publish;
\* only a node that stops, or never gets to bootstrap, leaves those that were not taken.
DoneCloses ==
  \A c \in Call :
    (pub[c].at \in Working \cup {"waits"}) ~>
      (c \in closed \/ pub[c].at = "gone" \/ (pub[c].at = "waits" /\ ~up)
        \/ ~Online)
=============================================================================
