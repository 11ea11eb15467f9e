------------------------------ MODULE Settings ------------------------------
(***************************************************************************)
(* The settings database of the coordinator behind its REST resources:     *)
(* aliases with their cached lookup table, dashboards with the defaults a  *)
(* user gets, preferences and field overrides, the mapping schema with its *)
(* seeds and the line protocol discovery, API tokens, and the correlation  *)
(* scripts with the engine's cache.                                        *)
(*                                                                         *)
(* Requests run concurrently; every SQL statement is atomic, a handler is  *)
(* a sequence of them without a transaction.  A request whose client goes  *)
(* away is cancelled between two statements.  No table has a unique        *)
(* constraint on what the handlers look rows up by.  `topic' is the        *)
(* resource a behaviour is about: the resources share no state.            *)
(***************************************************************************)
EXTENDS Naturals, FiniteSets

CONSTANTS
    Users,      \* user names
    Boss,       \* the user who is an administrator
    Reqs,       \* requests in flight at once
    MaxTableRows \* bound on the rows there are at once

ASSUME SettingsAssumption ==
    /\ IsFiniteSet(Users) /\ Boss \in Users
    /\ IsFiniteSet(Reqs)
    /\ MaxTableRows \in Nat \ {0, 1}

Topics == {"alias", "dashboard", "preference", "mapping", "token", "script"}

\* The keys rows are looked up by; 1 and 2 are the seeded ones, in the order in
\* which they are seeded, and 3 is a line protocol table's.
StKeys == 1..3
Seeds == 1..2

\* What a row says: the seeded content, the content of an earlier release's seed,
\* what users wrote, or the columns a line protocol table has now.
Contents == {"seed", "legacy", "mine", "other", "columns"}

\* `on' is an alias's or a script's status, a dashboard's sharing, or whether a
\* token is active.
\* A row's guid is its key, its owner and a number among those with both.
RowRefs == StKeys \X Users \X (1..MaxTableRows)
StRows == [id : 1..MaxTableRows, key : StKeys, owner : Users, val : Contents, on : BOOLEAN]

VARIABLES
    topic,
    table,      \* the rows
    req,        \* request -> its step
    ipMap,      \* AliasService.ipMapCache, or the scripts the engine runs
    ipMapFresh  \* it is younger than its time to live

(* Observers. *)
VARIABLES
    outdated,   \* ipMap was built from rows that had changed when it was stored
    crossed,    \* users and keys of which a second row was inserted, and that no
                \* later upsert has written
    served,     \* users who have been given their defaults, and no seeding of theirs
                \* was disturbed since: cancelled, or met by a creation or deletion
    seen        \* what has happened, of the following

Sights ==
    {"revived",     \* a token became active by a request that said nothing of it
     "misused",     \* a user who is no administrator wrote another user's dashboard
     "trampled"}    \* a start replaced a script that a user had written

StCache == <<ipMap, ipMapFresh, outdated>>
StSeen == <<crossed, served, seen>>
stVars == <<topic, table, req, StCache, StSeen>>

NoMap == [built |-> FALSE, rows |-> {}]
NoReq == [op |-> "none", at |-> "none", user |-> Boss, key |-> 1, row |-> {},
          on |-> FALSE, val |-> "mine", snap |-> {}]

StTypeOK ==
    /\ topic \in Topics
    /\ table \subseteq StRows
    /\ ipMap.built \in BOOLEAN /\ ipMap.rows \subseteq StKeys \X Contents
    /\ \A r \in Reqs : req[r].key \in StKeys \cup {4} /\ req[r].row \subseteq RowRefs
    /\ {ipMapFresh, outdated} \subseteq BOOLEAN
    /\ seen \subseteq Sights
    /\ crossed \subseteq Users \X StKeys
    /\ served \subseteq Users

Row(i, k, u, v, on) == [id |-> i, key |-> k, owner |-> u, val |-> v, on |-> on]

SeedRows(v) == {Row(1, k, Boss, v, FALSE) : k \in Seeds}

\* EnsureSettingsSchema has run.  The start seeds mappings and scripts before the
\* server listens; a token and a shared dashboard may be there already.
StInit ==
    /\ topic \in Topics
    /\ \E v \in {"seed", "legacy"} :
          table = CASE topic = "mapping" -> SeedRows("seed")
                    [] topic = "script" -> SeedRows(v)
                    [] topic = "token" -> {Row(1, 1, Boss, "mine", TRUE)}
                    [] OTHER -> {}
    /\ req = [r \in Reqs |-> NoReq]
    /\ ipMap = NoMap
    /\ ipMapFresh = FALSE
    /\ outdated = FALSE
    /\ crossed = {}
    /\ served = IF topic = "mapping" THEN {Boss} ELSE {}
    /\ seen = {}

-----------------------------------------------------------------------------
(* Statements and requests. *)

Ref(row) == <<row.key, row.owner, row.id>>

\* newGUID: one that no row has and no request holds.
FreshIds(k, u) ==
    {i \in 1..MaxTableRows : /\ \A row \in table : Ref(row) # <<k, u, i>>
                        /\ \A r \in Reqs : <<k, u, i>> \notin req[r].row}
NewRow(k, u, v, on) ==
    Row(CHOOSE i \in FreshIds(k, u) : TRUE, k, u, v, on)

Insert(k, u, v, on) ==
    /\ Cardinality(table) < MaxTableRows /\ FreshIds(k, u) # {}
    /\ table' = table \cup {NewRow(k, u, v, on)}

\* UPDATE ... WHERE, DELETE ... WHERE
UpdateRows(which, change(_)) ==
    table' = (table \ which) \cup {change(row) : row \in which}

DeleteRows(which) == table' = table \ which

ByKey(k) == {row \in table : row.key = k}
OwnKey(u, k) == {row \in ByKey(k) : row.owner = u}

Begin(r, step) == req' = [req EXCEPT ![r] = step]
GoesTo(r, at) == req' = [req EXCEPT ![r].at = at]
Ends(r) == req' = [req EXCEPT ![r] = NoReq]
Free(r) == req[r] = NoReq
At(r, op, at) == req[r].op = op /\ req[r].at = at

See(c, what) == seen' = IF c THEN seen \cup {what} ELSE seen

\* Dashboards and mappings are given to users by requests of this kind; `on' says
\* that one was disturbed.
Resetting(r) == req[r].op \in {"reset", "mreset"}

Disturb(u, r) ==
    /\ served' = served \ {u}
    /\ req' = [o \in Reqs |-> IF o = r THEN NoReq
                             ELSE IF Resetting(o) /\ req[o].user = u
                                  THEN [req[o] EXCEPT !.on = TRUE] ELSE req[o]]

Serves(r) ==
    /\ Ends(r)
    /\ served' = IF req[r].on THEN served ELSE served \cup {req[r].user}

\* The client closes the connection: the request's context is cancelled.
Curtail(r) ==
    /\ Resetting(r)
    /\ Disturb(req[r].user, r)
    /\ UNCHANGED <<topic, table, StCache, crossed, seen>>

-----------------------------------------------------------------------------
(* Aliases: a write, then the invalidation of the lookup table. *)

ActiveRows == {row \in table : row.on}
ActiveEntries == {<<row.key, row.val>> : row \in ActiveRows}

Invalidates(r, k) == Begin(r, [NoReq EXCEPT !.op = "alias", !.at = "invalidate",
                                            !.key = k])

AliasCreate(r, k, on) ==
    /\ topic = "alias" /\ Free(r)
    /\ Insert(k, Boss, "mine", on)
    /\ Invalidates(r, k)
    /\ UNCHANGED <<topic, StCache, StSeen>>

AliasUpdate(r, k, on) ==
    /\ topic = "alias" /\ Free(r)
    /\ LET Set(row) == [row EXCEPT !.on = on] IN UpdateRows(ByKey(k), Set)
    /\ Invalidates(r, k)
    /\ UNCHANGED <<topic, StCache, StSeen>>

\* Mutant: a deletion leaves the lookup table alone.
AliasDeleteOnly(r, k) ==
    /\ topic = "alias" /\ Free(r)
    /\ DeleteRows(ByKey(k))
    /\ UNCHANGED <<topic, req, StCache, StSeen>>
AliasDelete(r, k) ==
    /\ topic = "alias" /\ Free(r)
    /\ DeleteRows(ByKey(k))
    /\ Invalidates(r, k)
    /\ UNCHANGED <<topic, StCache, StSeen>>

invalidateIPAliasMapCache(r) ==
    /\ At(r, "alias", "invalidate")
    /\ ipMap' = NoMap
    /\ ipMapFresh' = FALSE
    /\ outdated' = FALSE
    /\ Ends(r)
    /\ UNCHANGED <<topic, table, StSeen>>

\* A lookup that finds no fresh table reads the active rows ...
CachedIPAliasMap(r) ==
    /\ topic = "alias" /\ Free(r)
    /\ ~(ipMap.built /\ ipMapFresh)
    /\ Begin(r, [NoReq EXCEPT !.op = "alias", !.at = "built", !.snap = ActiveEntries])
    /\ UNCHANGED <<topic, table, StCache, StSeen>>

\* ... and stores what it built unless another lookup was faster.
StoreIPAliasMap(r) ==
    /\ At(r, "alias", "built")
    /\ IF ipMap.built /\ ipMapFresh
       THEN UNCHANGED StCache
       ELSE /\ ipMap' = [built |-> TRUE, rows |-> req[r].snap]
            /\ ipMapFresh' = TRUE
            /\ outdated' = (req[r].snap # ActiveEntries)
    /\ Ends(r)
    /\ UNCHANGED <<topic, table, StSeen>>

IPMapExpires ==
    /\ topic = "alias" /\ ipMapFresh
    /\ ipMapFresh' = FALSE
    /\ UNCHANGED <<topic, table, req, ipMap, outdated, StSeen>>

Aliases(r) ==
    \/ \E k \in Seeds : AliasDelete(r, k)
                        \/ \E on \in BOOLEAN : AliasCreate(r, k, on) \/ AliasUpdate(r, k, on)
    \/ invalidateIPAliasMapCache(r) \/ CachedIPAliasMap(r) \/ StoreIPAliasMap(r)

-----------------------------------------------------------------------------
(* Dashboards. *)

\* The user's own row, or else a shared one.
GetDashboard(u, k) ==
    IF OwnKey(u, k) # {} THEN OwnKey(u, k) ELSE {row \in ByKey(k) : row.on}

\* CreateDashboard looks for the user's row first.
V4DashboardsCreate(r, u, k) ==
    /\ topic = "dashboard" /\ Free(r)
    /\ OwnKey(u, k) = {}
    /\ Begin(r, [NoReq EXCEPT !.op = "create", !.at = "insert", !.user = u, !.key = k])
    /\ UNCHANGED <<topic, table, StCache, StSeen>>

CreateDashboard(r, on) ==
    /\ At(r, "create", "insert")
    /\ Insert(req[r].key, req[r].user, "mine", on)
    /\ IF \E o \in Reqs : Resetting(o) /\ req[o].user = req[r].user
       THEN Disturb(req[r].user, r)
       ELSE Ends(r) /\ UNCHANGED served
    /\ UNCHANGED <<topic, StCache, crossed, seen>>

\* A user who sees no dashboard gets the defaults.
V4DashboardsList(r, u) ==
    /\ topic = "dashboard" /\ Free(r)
    /\ \A row \in table : row.owner # u /\ ~row.on
    /\ Begin(r, [NoReq EXCEPT !.op = "reset", !.at = "delete", !.user = u])
    /\ UNCHANGED <<topic, table, StCache, StSeen>>

V4DashboardsReset(r) ==
    /\ topic = "dashboard" /\ Free(r)
    /\ Begin(r, [NoReq EXCEPT !.op = "reset", !.at = "delete", !.user = Boss])
    /\ UNCHANGED <<topic, table, StCache, StSeen>>

ResetDelete(r) ==
    /\ At(r, "reset", "delete")
    /\ DeleteRows({row \in table : row.owner = req[r].user})
    /\ GoesTo(r, "check")
    /\ UNCHANGED <<topic, StCache, StSeen>>

\* A default that is there already is an error, which ends the request.
ResetCheck(r) ==
    /\ At(r, "reset", "check")
    /\ IF OwnKey(req[r].user, req[r].key) = {} THEN GoesTo(r, "insert") ELSE Ends(r)
    /\ UNCHANGED <<topic, table, StCache, StSeen>>

\* Mutant: the defaults stop at the first.
ResetInsertFirst(r) ==
    /\ At(r, "reset", "insert")
    /\ Insert(req[r].key, req[r].user, "mine", FALSE)
    /\ Serves(r)
    /\ UNCHANGED <<topic, StCache, crossed, seen>>
ResetInsert(r) ==
    /\ At(r, "reset", "insert")
    /\ Insert(req[r].key, req[r].user, "mine", FALSE)
    /\ IF req[r].key + 1 \in Seeds
       THEN /\ req' = [req EXCEPT ![r].at = "check", ![r].key = @ + 1]
            /\ UNCHANGED served
       ELSE Serves(r)
    /\ UNCHANGED <<topic, StCache, crossed, seen>>

\* The handler merges the patch into the row it finds.
V4DashboardsUpdate(r, u, k) ==
    /\ topic = "dashboard" /\ Free(r)
    /\ GetDashboard(u, k) # {}
    /\ Begin(r, [NoReq EXCEPT !.op = "update", !.at = "loaded", !.user = u, !.key = k])
    /\ UNCHANGED <<topic, table, StCache, StSeen>>

canWriteDashboard(row, u) == row.owner = u \/ (u = Boss /\ row.on)

\* The service looks again, and this row it writes.
UpdateDashboardCheck(r) ==
    /\ At(r, "update", "loaded")
    /\ LET found == GetDashboard(req[r].user, req[r].key)
       IN \/ /\ \A row \in found : ~canWriteDashboard(row, req[r].user)
             /\ Ends(r)
          \/ \E row \in found :
                /\ canWriteDashboard(row, req[r].user)
                /\ Begin(r, [NoReq EXCEPT !.op = "update", !.at = "write",
                                          !.user = req[r].user, !.row = {Ref(row)}])
    /\ UNCHANGED <<topic, table, StCache, StSeen>>

\* Mutant: the row is found by the dashboard's id, which two users may share.
WrittenByKey(r) == {row \in table : \E ref \in req[r].row : row.key = ref[1]}
Written(r) == {row \in table : Ref(row) \in req[r].row}

\* `shared' may be part of the patch.
UpdateDashboard(r, on) ==
    /\ At(r, "update", "write")
    /\ LET Set(row) == [row EXCEPT !.on = on] IN UpdateRows(Written(r), Set)
    /\ See(\E row \in Written(r) : req[r].user \notin {row.owner, Boss}, "misused")
    /\ Ends(r)
    /\ UNCHANGED <<topic, StCache, crossed, served>>

V4DashboardsDelete(r, u, k) ==
    /\ topic = "dashboard" /\ Free(r)
    /\ OwnKey(u, k) # {}
    /\ DeleteRows(OwnKey(u, k))
    /\ Disturb(u, r)
    /\ UNCHANGED <<topic, StCache, crossed, seen>>

Dashboards(r) ==
    \/ \E u \in Users : V4DashboardsList(r, u)
    \/ \E u \in Users, k \in Seeds :
          \/ V4DashboardsCreate(r, u, k) \/ V4DashboardsUpdate(r, u, k)
          \/ V4DashboardsDelete(r, u, k)
    \/ \E on \in BOOLEAN : CreateDashboard(r, on) \/ UpdateDashboard(r, on)
    \/ V4DashboardsReset(r) \/ ResetDelete(r) \/ ResetCheck(r) \/ ResetInsert(r)
    \/ UpdateDashboardCheck(r)

-----------------------------------------------------------------------------
(* Preferences and field overrides: UPDATE, and INSERT if it found no row. *)

\* Mutant: one of the rows is updated.
PreferenceRowOne(u, k) ==
    IF OwnKey(u, k) = {} THEN {} ELSE {CHOOSE row \in OwnKey(u, k) : TRUE}
PreferenceRows(u, k) == OwnKey(u, k)

UpsertByCategory(r, u, k, v) ==
    /\ topic = "preference" /\ Free(r)
    /\ IF OwnKey(u, k) # {}
       THEN /\ LET Set(row) == [row EXCEPT !.val = v] IN UpdateRows(PreferenceRows(u, k), Set)
            /\ crossed' = crossed \ {<<u, k>>}
            /\ UNCHANGED req
       ELSE /\ Begin(r, [NoReq EXCEPT !.op = "upsert", !.at = "insert", !.user = u,
                                      !.key = k, !.val = v])
            /\ UNCHANGED <<table, crossed>>
    /\ UNCHANGED <<topic, StCache, served, seen>>

UpsertInsert(r) ==
    /\ At(r, "upsert", "insert")
    /\ Insert(req[r].key, req[r].user, req[r].val, FALSE)
    /\ Ends(r)
    /\ crossed' = IF OwnKey(req[r].user, req[r].key) = {} THEN crossed
                  ELSE crossed \cup {<<req[r].user, req[r].key>>}
    /\ UNCHANGED <<topic, StCache, served, seen>>

\* DELETE of one parameter, or of the user's whole category.
DeleteByCategoryAndParam(u, k) ==
    /\ topic = "preference" /\ OwnKey(u, k) # {}
    /\ DeleteRows(OwnKey(u, k))
    /\ UNCHANGED <<topic, req, StCache, StSeen>>

DeleteByCategory(u) ==
    /\ topic = "preference"
    /\ \E row \in table : row.owner = u
    /\ DeleteRows({row \in table : row.owner = u})
    /\ UNCHANGED <<topic, req, StCache, StSeen>>

Preferences(r) ==
    \/ \E u \in Users, k \in Seeds, v \in {"mine", "other"} : UpsertByCategory(r, u, k, v)
    \/ UpsertInsert(r)

-----------------------------------------------------------------------------
(* The mapping schema. *)

Unseen == UNCHANGED <<topic, StCache, StSeen>>

CreateMapping(k) ==
    /\ topic = "mapping"
    /\ Insert(k, Boss, "mine", FALSE)
    /\ UNCHANGED req /\ Unseen

UpdateMapping(k) ==
    /\ topic = "mapping" /\ ByKey(k) # {}
    /\ LET Set(row) == [row EXCEPT !.val = "mine"] IN UpdateRows(ByKey(k), Set)
    /\ UNCHANGED req /\ Unseen

DeleteMapping(r, k) ==
    /\ topic = "mapping" /\ Free(r) /\ ByKey(k) # {}
    /\ DeleteRows(ByKey(k))
    /\ Disturb(Boss, r)
    /\ UNCHANGED <<topic, StCache, crossed, seen>>

ResetMappings(r) ==
    /\ topic = "mapping" /\ Free(r)
    /\ DeleteRows(table)
    /\ Begin(r, [NoReq EXCEPT !.op = "mreset", !.at = "check"])
    /\ Unseen

\* Mutant: one row is enough for the seeding to be skipped.
SeedPresentAny(k) == table # {}
SeedPresent(k) == ByKey(k) # {}

SeedsNext(r) ==
    IF req[r].key + 1 \in Seeds
    THEN req' = [req EXCEPT ![r].at = "check", ![r].key = @ + 1] /\ UNCHANGED served
    ELSE Serves(r)

SeedCheck(r) ==
    /\ At(r, "mreset", "check")
    /\ IF SeedPresent(req[r].key) THEN SeedsNext(r)
       ELSE GoesTo(r, "insert") /\ UNCHANGED served
    /\ UNCHANGED <<topic, table, StCache, crossed, seen>>

SeedInsert(r) ==
    /\ At(r, "mreset", "insert")
    /\ Insert(req[r].key, Boss, "seed", FALSE)
    /\ SeedsNext(r)
    /\ UNCHANGED <<topic, StCache, crossed, seen>>

\* The discovery of line protocol tables, one goroutine: look, then write.
upsertMapping(r) ==
    /\ topic = "mapping" /\ Free(r)
    /\ \A o \in Reqs : req[o].op # "sync"
    /\ \/ ByKey(3) = {} /\ Begin(r, [NoReq EXCEPT !.op = "sync", !.at = "insert",
                                                  !.key = 3])
       \/ \E row \in ByKey(3) : /\ row.val # "columns"
                                /\ Begin(r, [NoReq EXCEPT !.op = "sync", !.at = "update",
                                                          !.key = 3])
    /\ UNCHANGED table /\ Unseen

upsertMappingWrite(r) ==
    /\ \/ At(r, "sync", "insert") /\ Insert(3, Boss, "columns", FALSE)
       \/ /\ At(r, "sync", "update")
          /\ LET Set(row) == [row EXCEPT !.val = "columns"] IN UpdateRows(ByKey(3), Set)
    /\ Ends(r)
    /\ Unseen

Mappings(r) ==
    \/ \E k \in StKeys : CreateMapping(k) \/ UpdateMapping(k) \/ DeleteMapping(r, k)
    \/ ResetMappings(r) \/ SeedCheck(r) \/ SeedInsert(r)
    \/ upsertMapping(r) \/ upsertMappingWrite(r)

-----------------------------------------------------------------------------
(* API tokens: the update reads the row, merges the payload and writes it. *)

\* A new token has a new guid.
TokenCreate(k, on) ==
    /\ topic = "token" /\ ByKey(k) = {}
    /\ \A r \in Reqs : Free(r) \/ req[r].key # k
    /\ Insert(k, Boss, "mine", on)
    /\ UNCHANGED req /\ Unseen

\* The payload renames the token ("other") or says whether it is active ("mine").
\* Mutant: what the payload does not say is not read back.
MergedActiveDefault(row, what, on) == IF what = "mine" THEN on ELSE TRUE
MergedActive(row, what, on) == IF what = "mine" THEN on ELSE row.on

V4AuthTokensUpdate(r, k, what, on) ==
    /\ topic = "token" /\ Free(r)
    /\ \E row \in ByKey(k) :
          Begin(r, [NoReq EXCEPT !.op = "token", !.at = "write", !.key = k, !.val = what,
                                 !.on = MergedActive(row, what, on)])
    /\ UNCHANGED table /\ Unseen

\* Another update of the row was between its read and its write.
TokenOverlap(r) == \E o \in Reqs \ {r} : req[o].op = "token" /\ req[o].key = req[r].key

TokenUpdate(r) ==
    /\ At(r, "token", "write")
    /\ LET Set(row) == [row EXCEPT !.on = req[r].on] IN UpdateRows(ByKey(req[r].key), Set)
    /\ See(/\ req[r].val = "other" /\ req[r].on
           /\ \E row \in ByKey(req[r].key) : ~row.on, "revived")
    /\ crossed' = IF TokenOverlap(r) THEN crossed \cup {<<Boss, req[r].key>>} ELSE crossed
    /\ Ends(r)
    /\ UNCHANGED <<topic, StCache, served>>

TokenDelete(k) ==
    /\ topic = "token" /\ ByKey(k) # {}
    /\ DeleteRows(ByKey(k))
    /\ UNCHANGED req /\ Unseen

Tokens(r) ==
    \/ \E k \in StKeys, on \in BOOLEAN : TokenCreate(k, on)
    \/ \E k \in StKeys, what \in {"mine", "other"}, on \in BOOLEAN :
          V4AuthTokensUpdate(r, k, what, on)
    \/ \E k \in StKeys : TokenDelete(k)
    \/ TokenUpdate(r)

-----------------------------------------------------------------------------
(* Correlation scripts: plain statements, the seeding at the start, the engine. *)

ScriptCreate(k, on) ==
    /\ topic = "script"
    /\ Insert(k, Boss, "mine", on)
    /\ UNCHANGED req /\ Unseen

ScriptUpdate(row, on) ==
    /\ topic = "script"
    /\ LET Set(x) == [x EXCEPT !.val = "mine", !.on = on] IN UpdateRows({row}, Set)
    /\ UNCHANGED req /\ Unseen

ScriptDelete(row) ==
    /\ topic = "script"
    /\ DeleteRows({row})
    /\ UNCHANGED req /\ Unseen

\* seedOne: a missing script is inserted, disabled; one that still is an earlier
\* release's is brought up to date and stays enabled or disabled.
\* Mutant: whatever the script says.
SeedUpgradesAny(row) == TRUE
SeedUpgrades(row) == row.val = "legacy"

seedDefaultCorrelationScript ==
    /\ topic = "script"
    /\ \A r \in Reqs : Free(r)
    /\ LET missing == {k \in Seeds : ByKey(k) = {}}
       IN /\ Cardinality(table) + Cardinality(missing) <= MaxTableRows
          /\ table' = {IF row.key \in Seeds /\ SeedUpgrades(row)
                       THEN [row EXCEPT !.val = "seed"] ELSE row : row \in table}
                      \cup {NewRow(k, Boss, "seed", FALSE) : k \in missing}
    /\ See(\E old \in table, new \in table' :
               Ref(old) = Ref(new) /\ old.val = "mine" /\ new.val # "mine", "trampled")
    /\ ipMap' = NoMap
    /\ UNCHANGED <<topic, req, ipMapFresh, outdated, crossed, served>>

\* One enabled script of each key; which of several is the order of the rows.
ReloadFromDB ==
    /\ topic = "script"
    /\ \E chosen \in SUBSET ActiveEntries :
          /\ {e[1] : e \in chosen} = {e[1] : e \in ActiveEntries}
          /\ \A x, y \in chosen : x[1] = y[1] => x = y
          /\ ipMap' = [built |-> TRUE, rows |-> chosen]
    /\ UNCHANGED <<topic, table, req, ipMapFresh, outdated, StSeen>>

Scripts ==
    \/ \E k \in Seeds, on \in BOOLEAN : ScriptCreate(k, on)
    \/ \E row \in table : ScriptDelete(row) \/ \E on \in BOOLEAN : ScriptUpdate(row, on)
    \/ seedDefaultCorrelationScript \/ ReloadFromDB

StNext ==
    \/ \E r \in Reqs : Curtail(r) \/ Aliases(r) \/ Dashboards(r) \/ Preferences(r)
                       \/ Mappings(r) \/ Tokens(r)
    \/ IPMapExpires
    \/ \E u \in Users : DeleteByCategory(u)
                        \/ \E k \in Seeds : DeleteByCategoryAndParam(u, k)
    \/ Scripts

-----------------------------------------------------------------------------
(* Properties. *)

\* While it is fresh the lookup table says what the alias rows say, unless a write
\* has yet to invalidate it or a lookup stored what it had read before a write.
AliasMapCurrent ==
    topic = "alias" /\ ipMap.built /\ ipMapFresh /\ ~outdated /\ ipMap.rows # ActiveEntries =>
        \E r \in Reqs : At(r, "alias", "invalidate")

\* A user whose dashboards were once seeded or reset has every default, however
\* many seedings overlapped, until one is disturbed.
DefaultDashboards ==
    topic = "dashboard" =>
        \A u \in served : \/ \A k \in Seeds : OwnKey(u, k) # {}
                          \/ \E r \in Reqs : Resetting(r) /\ req[r].user = u

\* A dashboard is written by its owner or by an administrator.
DashboardsOwn == "misused" \notin seen

\* Rows that overlapping upserts inserted twice agree again after the next upsert.
PreferencesAgree ==
    topic = "preference" =>
        \A x, y \in table : x.owner = y.owner /\ x.key = y.key =>
            x.val = y.val \/ <<x.owner, x.key>> \in crossed

\* Between resets every built-in mapping is there, however resets, discovery and
\* edits overlap, until one is deleted or a reset cancelled.
SeedMappings ==
    topic = "mapping" /\ served # {} =>
        \/ \A k \in Seeds : ByKey(k) # {}
        \/ \E r \in Reqs : Resetting(r)

\* A token that was switched off is switched on by a mere renaming only if two
\* updates overlapped.
TokenStaysOff == "revived" \in seen => crossed # {}

\* A start leaves scripts alone that a user wrote.
ScriptsKept == "trampled" \notin seen

SettingsSafe ==
    /\ AliasMapCurrent
    /\ DefaultDashboards
    /\ DashboardsOwn
    /\ PreferencesAgree
    /\ SeedMappings
    /\ TokenStaysOff
    /\ ScriptsKept
=============================================================================
