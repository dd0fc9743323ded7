---------------------------- MODULE CacheSelector ----------------------------
(***************************************************************************)
(* The selector with its cache of provider addresses: selector/cache/      *)
(* cache.go.  Callers (Select) read the cache, or fill it from the         *)
(* registry when it is empty or too old; the goroutine run keeps a watcher *)
(* open and applies its events (update); Close ends run.                   *)
(*                                                                         *)
(* The cache is a Go slice: update filters it and appends to it in place,  *)
(* so a slice handed to a caller may share its array with the cache.  A    *)
(* slice is [arr, len]: the whole backing array, and how much of it is     *)
(* used.  One service key is modelled (keys share nothing but the lock);   *)
(* a provider is named by its PrimitiveURL.                                *)
(*                                                                         *)
(* The registry is external: GetServices returns the providers in some     *)
(* order or an error, Watch opens or fails, a new watcher reports the      *)
(* providers it finds as Adds, and then every change in order, until it    *)
(* fails.                                                                  *)
(***************************************************************************)
EXTENDS Naturals, Integers, Sequences, FiniteSets, SequencesExt

CONSTANTS
  Urls,       \* the providers there may be
  Callers,    \* the goroutines that call Select
  TTL,        \* cacheSelector.ttl
  MaxNow,     \* bound: how far time goes
  MaxChanges, \* bound: how often providers come and go
  MaxLost,    \* bound: how often a watcher fails or its connection flickers
  None        \* an unused slot of an array, nothing held

ASSUME CacheAssumption ==
  /\ TTL \in Nat \ {0} /\ MaxNow \in Nat /\ MaxChanges \in Nat /\ MaxLost \in Nat
  /\ IsFiniteSet(Urls) /\ None \notin Urls

VARIABLES
  now,      \* the time
  prov,     \* the providers in the registry
  changes,  \* how often prov has changed
  lost,     \* how often the registry connection has failed
  valid,    \* watcher.Valid()
  cache,    \* c.cache[key], a slice
  ttls,     \* c.ttls[key]
  held,     \* [Callers -> the slice the last Select of the caller works on]
  run,      \* where the goroutine run is
  res,      \* the event watch has read and not yet applied
  events,   \* the events of the watcher, not yet read
  stopped,  \* w.Stop() was called on the watcher
  exit,     \* the channel c.exit is closed
  closing,  \* where Close is
  missed    \* history: providers that went away without the cache being told

cacheVars == <<cache, ttls>>
regVars   == <<prov, changes>>
linkVars  == <<lost, valid>>
watchVars == <<run, res, events, stopped>>
vars == <<now, prov, changes, lost, valid, cache, ttls, held, run, res, events,
          stopped, exit, closing, missed>>

Event == [act : {"Add", "Del"}, url : Urls]

-----------------------------------------------------------------------------
(***************************************************************************)
(* Slices.                                                                 *)
(***************************************************************************)
NilSlice == [arr |-> <<>>, len |-> 0]
Elems(sl) == SubSeq(sl.arr, 1, sl.len)
InSlice(u, sl) == \E i \in 1 .. sl.len : sl.arr[i] = u

\* append gives a full array twice its size.
Doubled(cap) == IF cap = 0 THEN 1 ELSE 2 * cap

\* The capacity of an array after n elements were appended to it, one by one.
GrownCap(n) ==
  LET cap[i \in 0 .. n] ==
        IF i = 0 THEN 0
        ELSE IF i <= cap[i - 1] THEN cap[i - 1]
        ELSE Doubled(cap[i - 1])
  IN cap[n]

Padded(s, cap) == [i \in 1 .. cap |-> IF i <= Len(s) THEN s[i] ELSE None]

\* Mutant: append never grows the array.
AppendUrlInPlace(sl, u) ==
  [arr |-> [sl.arr EXCEPT ![sl.len + 1] = u], len |-> sl.len + 1]

\* append(sl, u), in place when there is room.
AppendUrl(sl, u) ==
  IF sl.len < Len(sl.arr)
  THEN [arr |-> [sl.arr EXCEPT ![sl.len + 1] = u], len |-> sl.len + 1]
  ELSE [arr |-> Padded(Append(Elems(sl), u), Doubled(Len(sl.arr))),
        len |-> sl.len + 1]

\* filterServices: s = append(s[:i], s[i+1:]...) shifts the array in place.
filterServices(sl, i) ==
  IF i > sl.len THEN sl
  ELSE [arr |-> [j \in 1 .. Len(sl.arr) |->
                   IF i <= j /\ j < sl.len THEN sl.arr[j + 1] ELSE sl.arr[j]],
        len |-> sl.len - 1]

\* Mutant: only the first elements are compared, an off-by-one of the range.
FilterUrlShort(sl, u) ==
  IF \E i \in 1 .. sl.len - 1 : sl.arr[i] = u
  THEN filterServices(sl, CHOOSE i \in 1 .. sl.len - 1 : sl.arr[i] = u)
  ELSE sl

\* The loop of update: range fixes the slice's length at the start, but reads
\* the array that filterServices shifts under it.
FilterUrl(sl, u) ==
  LET after[i \in 0 .. sl.len] ==
        IF i = 0 THEN sl
        ELSE IF after[i - 1].arr[i] = u
        THEN filterServices(after[i - 1], i)
        ELSE after[i - 1]
  IN after[sl.len]

\* Mutant: copy returns the slice it is given.
CopySliceAlias(sl) == [own |-> FALSE, sl |-> sl]

\* cacheSelector.copy: a slice with an array of its own.
CopySlice(sl) ==
  [own |-> TRUE, sl |-> [arr |-> Padded(Elems(sl), GrownCap(sl.len)), len |-> sl.len]]

(***************************************************************************)
(* What callers hold.  own = FALSE: the slice shares the array of the      *)
(* cache.  Rebind gives the callers' slices when the cache's array has     *)
(* become arr; if the cache then drops the array, the callers keep it.     *)
(***************************************************************************)
Rebind(arr, dropped) ==
  [c \in Callers |->
     IF held[c] = None \/ held[c].own THEN held[c]
     ELSE [held[c] EXCEPT !.sl.arr = arr, !.own = dropped]]

Holding(how, s) == [own |-> s.own, sl |-> s.sl, how |-> how, first |-> Elems(s.sl)]

-----------------------------------------------------------------------------
(***************************************************************************)
(* The type invariant.                                                     *)
(***************************************************************************)
Slice == [arr : Seq(Urls \cup {None}), len : Nat]
IsSlice(sl) == sl \in Slice /\ sl.len <= Len(sl.arr)

HeldSlice == [own : BOOLEAN, sl : Slice, how : {"hit", "new", "old"},
              first : Seq(Urls \cup {None})]

TimeTypes ==
  /\ now \in 0 .. MaxNow /\ changes \in 0 .. MaxChanges /\ lost \in 0 .. MaxLost
  /\ ttls \in 0 .. MaxNow + TTL
  /\ prov \in SUBSET Urls /\ missed \in SUBSET Urls

\* A caller's slice that is not its own has the array of the cache.
SliceTypes ==
  /\ IsSlice(cache)
  /\ held \in [Callers -> HeldSlice \cup {None}]
  /\ \A c \in Callers : held[c] # None =>
       IsSlice(held[c].sl) /\ (~held[c].own => held[c].sl.arr = cache.arr)

RunTypes ==
  /\ run \in {"loop", "opening", "sleep", "next", "update", "done"}
  /\ res \in Event \cup {None} /\ (run = "update" => res \in Event)
  /\ events \in Seq(Event)
  /\ closing \in {"no", "cleared", "waiting", "done"}
  /\ valid \in BOOLEAN /\ stopped \in BOOLEAN /\ exit \in BOOLEAN

TypeOK == TimeTypes /\ SliceTypes /\ RunTypes

Init ==
  /\ now = 0 /\ prov \in SUBSET Urls /\ changes = 0 /\ lost = 0 /\ valid = TRUE
  /\ cache = NilSlice /\ ttls = 0
  /\ held = [c \in Callers |-> None]
  /\ run = "loop" /\ res = None /\ events = <<>> /\ stopped = FALSE
  /\ exit = FALSE /\ closing = "no" /\ missed = {}

-----------------------------------------------------------------------------
(***************************************************************************)
(* Time and the registry.                                                  *)
(***************************************************************************)
Tick ==
  /\ now < MaxNow
  /\ now' = now + 1
  /\ UNCHANGED <<regVars, linkVars, cacheVars, held, watchVars, exit, closing, missed>>

Watching == run \in {"next", "update"}

\* A provider registers, or its node goes away; an open watcher is told.
Change(u) ==
  /\ changes < MaxChanges
  /\ changes' = changes + 1
  /\ prov' = IF u \in prov THEN prov \ {u} ELSE prov \cup {u}
  /\ LET act == IF u \in prov THEN "Del" ELSE "Add" IN
       /\ events' = IF Watching THEN Append(events, [act |-> act, url |-> u]) ELSE events
       /\ missed' = IF act = "Add" THEN missed \ {u}
                    ELSE IF Watching THEN missed ELSE missed \cup {u}
  /\ UNCHANGED <<now, linkVars, cacheVars, held, run, res, stopped, exit, closing>>

\* The watcher's connection to the registry breaks and comes back.
Flicker ==
  /\ lost < MaxLost \/ ~valid
  /\ valid' = ~valid
  /\ lost' = IF valid THEN lost + 1 ELSE lost
  /\ UNCHANGED <<now, regVars, cacheVars, held, watchVars, exit, closing, missed>>

-----------------------------------------------------------------------------
(***************************************************************************)
(* Select: cacheSelector.get under the lock.                               *)
(***************************************************************************)
\* Ask the registry: cache a copy of its answer, return the answer itself.
\* Select gives ErrNoneAvailable when there is no provider.
Refresh(c) ==
  /\ \E s \in SetToSeqs(prov) :
       LET ss == [arr |-> Padded(s, GrownCap(Len(s))), len |-> Len(s)] IN
         /\ cache' = CopySlice(ss).sl
         /\ held' = [Rebind(cache.arr, TRUE) EXCEPT ![c] =
                       Holding("new", [own |-> TRUE, sl |-> ss])]
  /\ ttls' = now + TTL
  /\ missed' = {}

\* time.Since(ttl) < c.ttl; ttl is the time the entry was stored plus c.ttl.
Hit == cache.len > 0 /\ now - ttls < TTL

SelectHit(c) ==
  /\ Hit
  /\ held' = [held EXCEPT ![c] = Holding("hit", CopySlice(cache))]
  /\ UNCHANGED <<now, regVars, linkVars, cacheVars, watchVars, exit, closing, missed>>

SelectRefresh(c) ==
  /\ ~Hit
  /\ Refresh(c)
  /\ UNCHANGED <<now, regVars, linkVars, watchVars, exit, closing>>

\* The registry fails: go on with the old slice itself, if there is one.
SelectStale(c) ==
  /\ ~Hit
  /\ held' = [held EXCEPT ![c] =
       IF cache.len > 0 THEN Holding("old", [own |-> FALSE, sl |-> cache])
       ELSE None]
  /\ UNCHANGED <<now, regVars, linkVars, cacheVars, watchVars, exit, closing, missed>>

-----------------------------------------------------------------------------
(***************************************************************************)
(* The goroutine run and its watcher.                                      *)
(***************************************************************************)
\* The loop's quit check.
RunQuit ==
  /\ run = "loop"
  /\ run' = IF exit THEN "done" ELSE "opening"
  /\ UNCHANGED <<now, regVars, linkVars, cacheVars, held, res, events, stopped, exit,
                 closing, missed>>

\* Registry.Watch succeeds: the new watcher finds the providers there are.
WatchOk ==
  /\ run = "opening"
  /\ run' = "next"
  /\ stopped' = FALSE
  /\ valid' = TRUE
  /\ \E s \in SetToSeqs(prov) :
       events' = [i \in 1 .. Len(s) |-> [act |-> "Add", url |-> s[i]]]
  /\ UNCHANGED <<now, regVars, lost, cacheVars, held, res, exit, closing, missed>>

\* Registry.Watch fails.
WatchErr ==
  /\ run = "opening"
  /\ run' = IF exit THEN "done" ELSE "sleep"
  /\ UNCHANGED <<now, regVars, linkVars, cacheVars, held, res, events, stopped, exit,
                 closing, missed>>

Wake ==
  /\ run = "sleep"
  /\ run' = "loop"
  /\ UNCHANGED <<now, regVars, linkVars, cacheVars, held, res, events, stopped, exit,
                 closing, missed>>

\* The goroutine of watch: once c.exit is closed it stops the watcher.
StopWatcher ==
  /\ Watching /\ exit /\ ~stopped
  /\ stopped' = TRUE
  /\ UNCHANGED <<now, regVars, linkVars, cacheVars, held, run, res, events, exit,
                 closing, missed>>

\* Mutant: run returns when its watcher fails.
WatchEndsRun ==
  /\ run' = "done"
  /\ events' = <<>>
  /\ missed' = missed \cup {u \in Urls \ prov :
                              \E i \in 1 .. Len(events) : events[i].url = u}
  /\ UNCHANGED <<now, regVars, cacheVars, held, res, exit, closing>>

\* watch returns an error: its deferred function stops the watcher, whose
\* unread events are lost, and run sleeps.
WatchEnds ==
  /\ run' = "sleep"
  /\ events' = <<>>
  /\ missed' = missed \cup {u \in Urls \ prov :
                              \E i \in 1 .. Len(events) : events[i].url = u}
  /\ UNCHANGED <<now, regVars, cacheVars, held, res, exit, closing>>

\* w.Next reports that the watcher was stopped.
NextStopped ==
  /\ run = "next" /\ stopped
  /\ WatchEnds
  /\ UNCHANGED <<linkVars, stopped>>

\* w.Next reports that the connection to the registry is lost.
NextLost ==
  /\ run = "next" /\ lost < MaxLost
  /\ lost' = lost + 1
  /\ WatchEnds
  /\ UNCHANGED <<valid, stopped>>

\* w.Next gives an event; a Del is dropped while the connection is not valid.
NextEvent ==
  /\ run = "next" /\ events # <<>>
  /\ events' = Tail(events)
  /\ LET e == Head(events) IN
       IF e.act = "Del" /\ ~valid
       THEN /\ missed' = missed \cup ({e.url} \ prov)
            /\ UNCHANGED <<run, res>>
       ELSE run' = "update" /\ res' = e /\ UNCHANGED missed
  /\ UNCHANGED <<now, regVars, linkVars, cacheVars, held, stopped, exit, closing>>

\* Mutant: a Del that finds no entry left keeps the cache as it was.
SetKeepsLast(services) ==
  IF services.len > 0
  THEN cache' = services /\ ttls' = now + TTL
  ELSE UNCHANGED cacheVars

\* cacheSelector.set.
set(services) ==
  IF services.len > 0
  THEN cache' = services /\ ttls' = now + TTL
  ELSE cache' = NilSlice /\ ttls' = 0

\* cacheSelector.update, under the lock.
Update ==
  /\ run = "update"
  /\ run' = "next"
  /\ LET kept == FilterUrl(cache, res.url)
         services == IF res.act = "Add" THEN AppendUrl(kept, res.url) ELSE kept
         moved == services.len = 0 \/ Len(services.arr) # Len(kept.arr)
     IN /\ set(services)
        /\ held' = Rebind(IF moved THEN kept.arr ELSE services.arr, moved)
  /\ UNCHANGED <<now, regVars, linkVars, res, events, stopped, exit, closing, missed>>

-----------------------------------------------------------------------------
(***************************************************************************)
(* Close.                                                                  *)
(***************************************************************************)
CloseClear ==
  /\ closing = "no"
  /\ closing' = "cleared"
  /\ cache' = NilSlice
  /\ held' = Rebind(cache.arr, TRUE)
  /\ UNCHANGED <<now, regVars, linkVars, ttls, watchVars, exit, missed>>

\* Mutant: exit is taken for closed already.
CloseExitSkipped ==
  /\ closing = "cleared"
  /\ closing' = "waiting"
  /\ UNCHANGED <<now, regVars, linkVars, cacheVars, held, watchVars, exit, missed>>

CloseExit ==
  /\ closing = "cleared"
  /\ closing' = "waiting"
  /\ exit' = TRUE
  /\ UNCHANGED <<now, regVars, linkVars, cacheVars, held, watchVars, missed>>

\* c.wg.Wait(): run and the goroutine of its watch have ended.
CloseDone ==
  /\ closing = "waiting" /\ run = "done"
  /\ closing' = "done"
  /\ UNCHANGED <<now, regVars, linkVars, cacheVars, held, watchVars, exit, missed>>

-----------------------------------------------------------------------------
Select(c) == SelectHit(c) \/ SelectRefresh(c) \/ SelectStale(c)
RunStep == \/ RunQuit \/ WatchOk \/ WatchErr \/ Wake \/ NextStopped
           \/ NextEvent \/ Update

Next ==
  \/ Tick \/ Flicker \/ NextLost
  \/ \E u \in Urls : Change(u)
  \/ \E c \in Callers : Select(c)
  \/ RunStep \/ StopWatcher
  \/ CloseClear \/ CloseExit \/ CloseDone

Spec == Init /\ [][Next]_vars

\* Goroutines that can run do, the registry does not refuse for ever, and Go's
\* select does not prefer events over the end of the watcher for ever.
Fairness ==
  /\ WF_vars(RunStep) /\ WF_vars(StopWatcher)
  /\ SF_vars(WatchOk) /\ SF_vars(NextStopped)
  /\ WF_vars(CloseExit) /\ WF_vars(CloseDone)

FairSpec == Spec /\ Fairness

-----------------------------------------------------------------------------
(***************************************************************************)
(* Properties.                                                             *)
(***************************************************************************)
Pending == (IF run = "update" THEN <<res>> ELSE <<>>) \o events
PendingFor(u) == \E i \in 1 .. Len(Pending) : Pending[i].url = u

\* update, get, watch: once the events of a provider have been applied, an
\* open watcher's cache that was filled knows the provider exactly when it is
\* up, however refreshes and events interleave; only a provider whose Del was
\* lost with a watcher, or dropped with an invalid connection, may linger.
Settled ==
  Watching /\ closing = "no" =>
    \A u \in Urls : ~PendingFor(u) =>
      /\ u \in prov => InSlice(u, cache)
      /\ u \notin prov => ~InSlice(u, cache) \/ u \in missed

\* The elements of s that are not u, one after the other.
Without(s, u) ==
  LET kept[i \in 0 .. Len(s)] ==
        IF i = 0 THEN <<>>
        ELSE IF s[i] = u THEN kept[i - 1]
        ELSE Append(kept[i - 1], s[i])
  IN kept[Len(s)]

UpdatesExactly ==
  run = "update" /\ run' = "next" =>
    LET others == Without(Elems(cache), res.url)
    IN Elems(cache') = IF res.act = "Add" THEN Append(others, res.url) ELSE others

\* update, filterServices: the loop that shortens the slice it ranges over
\* removes the provider of the event, keeps the others in order, and adds it
\* at the end if the event says so.
UpdateExact == [][UpdatesExactly]_vars

\* copy: a slice that came from a hit or from the registry never changes in
\* its caller's hands, whatever update does to the cache in place.
CopiesStable ==
  \A c \in Callers : held[c] # None /\ held[c].how \in {"hit", "new"} =>
    Elems(held[c].sl) = held[c].first

\* Close, run, watch: Close returns, wherever run and its watcher are when
\* c.exit is closed.
CloseReturns == (closing = "cleared") ~> (closing = "done")

\* run, watch, update: a provider that stays up is in the cache in the end,
\* through lost watchers and failed Watch calls, unless the selector is closed.
Learned ==
  \A u \in Urls : <>[](u \in prov /\ closing = "no") => <>[](InSlice(u, cache))
=============================================================================
