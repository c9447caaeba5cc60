----------------------------- MODULE LivePortal -----------------------------
(* The coordinator of live portals (portal-overlay/src/runtime.ts) with its  *)
(* budget (portal-overlay/src/index.ts) and the provider's hosts.            *)
(*                                                                           *)
(* A portal shows a resource on a surface that its host mounts, moves and    *)
(* unmounts; each of these is awaited. A host answers by an event of its own *)
(* and callers act on events too, so what follows an answer runs to the next *)
(* request, or to the end of the call, before anything else does. The calls  *)
(* of one caller follow each other; the class has no lock, so those of       *)
(* several callers overlap while hosts are awaited. Geometry is reduced to   *)
(* whether the portal can be seen. Calls that throw before they change       *)
(* anything are left out.                                                    *)
EXTENDS SequencesExt

CONSTANTS Portals,     \* ids of resource_portal objects
          Resources,   \* what a portal shows: provider and providerResourceId
          Principals,  \* who may control a surface
          Callers,     \* threads of control that call the coordinator
          Limit,       \* the limit of the budget
          NoOne, Nothing

ASSUME PortalConstants ==
  /\ Limit \in Nat \ {0}
  /\ NoOne \notin Principals
  /\ Nothing \notin Resources

VARIABLES active,    \* the budget's portals, the one activated last at the end
          mounted,   \* #mounted: the resource of each mounted portal
          state,     \* #states
          surfaces,  \* the surfaces the hosts keep
          call,      \* what each caller awaits
          rejected   \* whether a host has rejected anything: history, for the properties

portalVars == <<active, mounted, state, surfaces, call, rejected>>

PortalState ==
  [mounted : BOOLEAN, visible : BOOLEAN, focused : BOOLEAN, controlOwner : Principals \cup {NoOne}]

Written(isMounted, isVisible) ==
  [mounted |-> isMounted, visible |-> isVisible, focused |-> FALSE, controlOwner |-> NoOne]

Off    == Written(FALSE, FALSE)
Hidden == Written(TRUE, FALSE)
Fresh  == Written(TRUE, TRUE)

\* The canvas object of a portal as a call sees it: gone (deleted or no longer live), or
\* what it shows and whether it can be seen.
Gone    == [shows |-> Nothing, visible |-> FALSE]
Objects == {Gone} \cup [shows : Resources, visible : BOOLEAN]

\* What a call awaits (at) for the portal it is about. surface is the one the host was asked
\* to mount or unmount, objects are the arguments, todo are the mounted portals it has yet
\* to visit, fresh says that the portal's former surface was unmounted on the way.
PortalCall ==
  [at : {"idle", "offscreen", "evict", "place", "mount", "replace", "update",
         "next", "leave", "sync", "syncEvict", "show"},
   portal : Portals \cup {Nothing},
   surface : (Portals \cup {Nothing}) \X (Resources \cup {Nothing}),
   objects : [Portals -> Objects],
   todo : SUBSET Portals,
   fresh : BOOLEAN]

NoCall == [at |-> "idle", portal |-> Nothing, surface |-> <<Nothing, Nothing>>,
           objects |-> [p \in Portals |-> Gone], todo |-> {}, fresh |-> FALSE]

PortalInit ==
  /\ active = <<>>
  /\ mounted = [p \in Portals |-> Nothing]
  /\ state = [p \in Portals |-> Off]
  /\ surfaces = {}
  /\ call = [c \in Callers |-> NoCall]
  /\ rejected = FALSE

Mounted == {p \in Portals : mounted[p] # Nothing}

\* No call is at a stage at which it awaits no host.
Yielded == \A c \in Callers : call[c].at \notin {"place", "next", "show"}

Awaits(c, stages) == Yielded /\ call[c].at \in stages
Returns(c)    == call' = [call EXCEPT ![c] = NoCall]
Goes(c, at)   == call' = [call EXCEPT ![c].at = at]
Writes(p, s)  == state' = [state EXCEPT ![p] = s]

\* Mutant of AfterUnmount: focus and owner are kept.
UnmountKeepsControl(p) == [state[p] EXCEPT !.mounted = FALSE, !.visible = FALSE]

\* What #unmount writes.
AfterUnmount(p) == Off

\* Mutant of Shown: the focus is set again.
ShownWithFocus(p) == [state[p] EXCEPT !.mounted = TRUE, !.visible = TRUE, !.focused = TRUE]

\* Mounted and visible; focus and control are those of the moment of the write.
Shown(p) == [state[p] EXCEPT !.mounted = TRUE, !.visible = TRUE]

----------------------------------------------------------------------------
(* LiveSurfaceBudget.                                                      *)

\* The map has one entry for each portal.
Without(p) ==
  IF Contains(active, p)
    THEN RemoveAt(active, CHOOSE i \in DOMAIN active : active[i] = p)
    ELSE active

Touched(p) == Append(Without(p), p)

\* At most one portal more than the limit, because each activation adds one.
Evicts(p)    == Len(Touched(p)) > Limit
Victim(p)    == Head(Touched(p))
Activated(p) == IF Evicts(p) THEN Tail(Touched(p)) ELSE Touched(p)

\* The slot is taken. An evicted surface is awaited at this stage; a portal that was not
\* mounted is only written off, at that stage's successor.
Evict(c, p, at, after, r) ==
  LET v == Victim(p) IN
  /\ Evicts(p)
  /\ active' = Activated(p)
  /\ \/ /\ v \in Mounted
        /\ call' = [call EXCEPT ![c] = [r EXCEPT !.at = at, !.surface = <<v, mounted[v]>>]]
        /\ UNCHANGED state
     \/ /\ v \notin Mounted
        /\ call' = [call EXCEPT ![c] = [r EXCEPT !.at = after]]
        /\ Writes(v, AfterUnmount(v))

----------------------------------------------------------------------------
(* activate().                                                             *)

\* The surface for the call r's portal: mounted, replaced if it shows another resource, or
\* moved.
Place(c, r) ==
  LET p == r.portal
      shows == r.objects[p].shows
  IN \/ /\ p \notin Mounted
        /\ call' = [call EXCEPT ![c] = [r EXCEPT !.at = "mount", !.surface = <<p, shows>>]]
        /\ UNCHANGED state
     \/ /\ p \in Mounted /\ mounted[p] # shows
        /\ call' = [call EXCEPT ![c] = [r EXCEPT !.at = "replace", !.surface = <<p, mounted[p]>>]]
        /\ Writes(p, Fresh)
     \/ /\ mounted[p] = shows
        /\ call' = [call EXCEPT ![c] = [r EXCEPT !.at = "update"]]
        /\ UNCHANGED state

Asked(p, o) == [NoCall EXCEPT !.portal = p, !.objects[p] = o]

Activate(c, p, o) ==
  /\ Awaits(c, {"idle"}) /\ o.visible
  /\ \/ Evict(c, p, "evict", "place", Asked(p, o))
     \/ /\ ~Evicts(p)
        /\ active' = Activated(p)
        /\ Place(c, Asked(p, o))
  /\ UNCHANGED <<mounted, surfaces>>

ActivateOffscreen(c, p, o) ==
  /\ Awaits(c, {"idle"}) /\ o # Gone /\ ~o.visible
  /\ \/ /\ p \in Mounted
        /\ call' = [call EXCEPT ![c] = [Asked(p, o) EXCEPT !.at = "offscreen"]]
        /\ UNCHANGED <<active, state>>
     \/ /\ p \notin Mounted
        /\ active' = Without(p)
        /\ Writes(p, Off)
        /\ UNCHANGED call
  /\ UNCHANGED <<mounted, surfaces>>

PlaceAfterEviction(c) ==
  /\ call[c].at = "place"
  /\ Place(c, call[c])
  /\ UNCHANGED <<active, mounted, surfaces>>

----------------------------------------------------------------------------
(* syncGeometry(), deactivate() and deactivateAll(): a walk over mounted   *)
(* portals, in an order that is left open.                                 *)

Sync(c, objects) ==
  /\ Awaits(c, {"idle"})
  /\ call' = [call EXCEPT ![c] = [NoCall EXCEPT !.at = "next", !.objects = objects, !.todo = Mounted]]
  /\ UNCHANGED <<active, mounted, state, surfaces>>

\* As if p alone were mounted and its object gone.
Deactivate(c, p) ==
  /\ Awaits(c, {"idle"})
  /\ call' = [call EXCEPT ![c] = [NoCall EXCEPT !.at = "next", !.todo = {p}]]
  /\ UNCHANGED <<active, mounted, state, surfaces>>

VisitNothing(c) ==
  /\ call[c].todo = {}
  /\ Returns(c)
  /\ UNCHANGED <<active, mounted, state, surfaces>>

Visit(c, p) ==
  LET o == call[c].objects[p]
      r == [call[c] EXCEPT !.portal = p, !.todo = @ \ {p}]
      leaves == o = Gone \/ (p \in Mounted /\ mounted[p] # o.shows)
  IN
  /\ p \in call[c].todo
  /\ \/ /\ leaves /\ p \in Mounted
        /\ active' = Without(p)
        /\ call' = [call EXCEPT ![c] = [r EXCEPT !.at = "leave", !.surface = <<p, mounted[p]>>]]
     \/ /\ leaves /\ p \notin Mounted
        /\ active' = Without(p)
        /\ call' = [call EXCEPT ![c] = [r EXCEPT !.at = "next"]]
     \/ /\ ~leaves
        /\ call' = [call EXCEPT ![c] = [r EXCEPT !.at = IF p \in Mounted THEN "sync" ELSE "next"]]
        /\ UNCHANGED active
  /\ UNCHANGED <<mounted, state, surfaces>>

Walk(c) ==
  /\ call[c].at = "next"
  /\ VisitNothing(c) \/ \E p \in Portals : Visit(c, p)

Show(c) ==
  /\ call[c].at = "show"
  /\ Writes(call[c].portal, Shown(call[c].portal))
  /\ Goes(c, "next")
  /\ UNCHANGED <<active, mounted, surfaces>>

----------------------------------------------------------------------------
(* The host resolves what a caller awaits.                                 *)

MountResolves(c) ==
  LET p == call[c].portal IN
  /\ Awaits(c, {"mount"})
  /\ mounted' = [mounted EXCEPT ![p] = call[c].surface[2]]
  /\ surfaces' = surfaces \cup {call[c].surface}
  /\ Writes(p, IF call[c].fresh THEN Fresh ELSE Shown(p))
  /\ Returns(c)
  /\ UNCHANGED active

UnmountResolves(c) ==
  LET q == call[c].surface[1] IN
  /\ Awaits(c, {"evict", "syncEvict", "leave", "replace"})
  /\ mounted' = [mounted EXCEPT ![q] = Nothing]
  /\ surfaces' = surfaces \ {call[c].surface}
  /\ Writes(q, AfterUnmount(q))
  /\ \/ call[c].at = "evict" /\ Goes(c, "place")
     \/ call[c].at = "syncEvict" /\ Goes(c, "show")
     \/ call[c].at = "leave" /\ Goes(c, "next")
     \/ /\ call[c].at = "replace"
        /\ call' = [call EXCEPT ![c].at = "mount", ![c].fresh = TRUE,
                                ![c].surface = <<q, call[c].objects[q].shows>>]
  /\ UNCHANGED active

UpdateResolves(c) ==
  LET p == call[c].portal IN
  \/ /\ Awaits(c, {"update"})
     /\ Writes(p, Shown(p))
     /\ Returns(c)
     /\ UNCHANGED <<active, mounted, surfaces>>
  \/ /\ Awaits(c, {"offscreen"})
     /\ active' = Without(p)
     /\ Writes(p, Hidden)
     /\ Returns(c)
     /\ UNCHANGED <<mounted, surfaces>>

SyncResolves(c) ==
  LET p == call[c].portal
      visible == call[c].objects[p].visible
  IN
  /\ Awaits(c, {"sync"})
  /\ \/ /\ ~visible
        /\ active' = Without(p)
        /\ Writes(p, Hidden)
        /\ Goes(c, "next")
     \/ /\ visible /\ (Contains(active, p) \/ ~Evicts(p))
        /\ active' = IF Contains(active, p) THEN active ELSE Activated(p)
        /\ Writes(p, Shown(p))
        /\ Goes(c, "next")
     \/ /\ visible /\ ~Contains(active, p)
        /\ Evict(c, p, "syncEvict", "show", call[c])
  /\ UNCHANGED <<mounted, surfaces>>

----------------------------------------------------------------------------
(* The host rejects, and so does the call. What the host failed to mount   *)
(* is not there; what it failed to unmount is.                             *)

MountRejects(c) ==
  LET p == call[c].portal IN
  /\ Awaits(c, {"mount"})
  /\ active' = Without(p)
  /\ mounted' = [mounted EXCEPT ![p] = Nothing]
  /\ Writes(p, Off)
  /\ Returns(c)
  /\ UNCHANGED surfaces

\* The catch clauses after update() and after the unmount of a replaced surface.
OperationRejects(c) ==
  LET p == call[c].portal IN
  /\ Awaits(c, {"replace", "update", "sync"})
  /\ active' = Without(p)
  /\ Writes(p, Hidden)
  /\ Returns(c)
  /\ UNCHANGED <<mounted, surfaces>>

\* Mutant of PassesRejection: the surface whose unmount failed is forgotten.
PassesRejectionForgetting(c) ==
  /\ Awaits(c, {"offscreen", "evict", "syncEvict", "leave"})
  /\ Returns(c)
  /\ mounted' = [q \in Portals |-> IF q = call[c].surface[1] THEN Nothing ELSE mounted[q]]
  /\ UNCHANGED <<active, state, surfaces>>

\* Where no catch clause is.
PassesRejection(c) ==
  /\ Awaits(c, {"offscreen", "evict", "syncEvict", "leave"})
  /\ Returns(c)
  /\ UNCHANGED <<active, mounted, state, surfaces>>

----------------------------------------------------------------------------
(* The calls that await nothing.                                           *)

CanInteract(p) == state[p].mounted /\ state[p].visible

SetFocused(p, focused) ==
  /\ Yielded
  /\ focused => CanInteract(p)
  /\ Writes(p, [state[p] EXCEPT !.focused = focused])
  /\ UNCHANGED <<active, mounted, surfaces, call>>

AcquireControl(p, x) ==
  /\ Yielded /\ CanInteract(p)
  /\ state[p].controlOwner \in {NoOne, x}
  /\ Writes(p, [state[p] EXCEPT !.controlOwner = x])
  /\ UNCHANGED <<active, mounted, surfaces, call>>

\* releaseControl, which is for the owner, and revokeControl, which is not.
GiveUpControl(p) ==
  /\ Yielded /\ state[p].controlOwner # NoOne
  /\ Writes(p, [state[p] EXCEPT !.controlOwner = NoOne])
  /\ UNCHANGED <<active, mounted, surfaces, call>>

----------------------------------------------------------------------------
Begins(c) ==
  \/ \E p \in Portals, o \in Objects : Activate(c, p, o) \/ ActivateOffscreen(c, p, o)
  \/ \E p \in Portals : Deactivate(c, p)
  \/ \E objects \in [Portals -> Objects] : Sync(c, objects)

Continues(c) == PlaceAfterEviction(c) \/ Walk(c) \/ Show(c)

Resolves(c) ==
  MountResolves(c) \/ UnmountResolves(c) \/ UpdateResolves(c) \/ SyncResolves(c)

Rejects(c) ==
  MountRejects(c) \/ OperationRejects(c) \/ PassesRejection(c)

Interacts(p) ==
  \/ \E focused \in BOOLEAN : SetFocused(p, focused)
  \/ \E x \in Principals : AcquireControl(p, x)
  \/ GiveUpControl(p)

PortalNext ==
  \/ \E c \in Callers : (Begins(c) \/ Continues(c) \/ Resolves(c)) /\ UNCHANGED rejected
  \/ \E c \in Callers : Rejects(c) /\ rejected' = TRUE
  \/ \E p \in Portals : Interacts(p) /\ UNCHANGED rejected

PortalSpec == PortalInit /\ [][PortalNext]_portalVars

----------------------------------------------------------------------------
PortalTypeOK ==
  /\ active \in Seq(Portals) /\ Len(active) <= Limit
  /\ mounted \in [Portals -> Resources \cup {Nothing}]
  /\ state \in [Portals -> PortalState]
  /\ surfaces \subseteq Portals \X Resources
  /\ call \in [Callers -> PortalCall]
  /\ rejected \in BOOLEAN

Quiet == \A c \in Callers : call[c].at = "idle"
Visible == {p \in Portals : state[p].visible}

\* Nobody has focus on or controls a portal that state() does not call mounted and visible,
\* whatever overlaps and fails.
InteractionNeedsView ==
  \A p \in Portals :
    state[p].focused \/ state[p].controlOwner # NoOne => state[p].mounted /\ state[p].visible

\* A principal that gave up control, or lost it, gets it back only by acquiring it: no call
\* that completes later restores an owner, or a focus, it had seen before.
NothingComesBack ==
  [][\A p \in Portals :
       /\ state'[p].controlOwner \notin {NoOne, state[p].controlOwner} =>
            \E x \in Principals : AcquireControl(p, x)
       /\ state'[p].focused /\ ~state[p].focused => SetFocused(p, TRUE)]_portalVars

\* With one caller: the surfaces the hosts keep are those of #mounted, and state() says so
\* at any time: no failure of a host leaks a surface or loses track of one.
SurfacesAccounted ==
  /\ surfaces = {<<p, mounted[p]>> : p \in Mounted}
  /\ \A p \in Portals : state[p].mounted <=> p \in Mounted

\* With one caller: whoever controls a portal controls the resource that was shown when
\* control was acquired; a replaced surface starts without an owner.
ControlStaysWithResource ==
  [][\A p \in Portals :
       mounted'[p] \notin {Nothing, mounted[p]} => state'[p].controlOwner = NoOne]_portalVars

\* With one caller and until a host rejects: between calls the visible portals are those in
\* the budget.
VisibleIsActive == ~rejected /\ Quiet => Visible = ToSet(active)

\* "Activation is explicit and LRU-budgeted": the budget bounds the live surfaces, not only
\* its own list. What can be seen between calls is at most the limit.
LiveWithinLimit == Quiet => Cardinality(Visible \cap Mounted) <= Limit

\* With one caller and until a host rejects, it does.
VisibleWithinBudget == ~rejected => LiveWithinLimit

\* With one caller: a principal that controls a portal controls a surface that exists.
ControlHasSurface ==
  Quiet => \A p \in Portals : state[p].controlOwner # NoOne => p \in Mounted

\* "must be mounted and visible before control can be acquired": the same of any number of
\* callers, while no host has rejected anything.
ControlGrantedOnSurfaces == ~rejected => ControlHasSurface
=============================================================================
