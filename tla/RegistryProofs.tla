--------------------------- MODULE RegistryProofs ---------------------------
(***************************************************************************)
(* Proofs about the workspace registry, for any number of requests,        *)
(* collections, handles and configurations.  The invariant IInv of module  *)
(* Registry is inductive; what the registry promises follows from it.      *)
(***************************************************************************)
EXTENDS Registry, TLAPS, FiniteSetTheorems

\* Counting ---------------------------------------------------------------

\* Subsets of the requests and of the handles are finite.
LEMMA FiniteCounted ==
  /\ \A h : IsFiniteSet(Holders(h))
  /\ IsFiniteSet(DiscardingHandles)
<1>1. \A h : Holders(h) \subseteq Callers
  BY DEF Holders
<1>2. DiscardingHandles \subseteq Handles
  BY DEF DiscardingHandles
<1> QED
  BY <1>1, <1>2, FS_Subset, RegistryAssumption

\* A handle whose reference count is zero is held by no request.
LEMMA UnreferencedIsUnheld ==
  ASSUME RefsAgree, NEW h \in Handles, refs[h] = 0
  PROVE  Holders(h) = {}
BY FiniteCounted, FS_EmptySet DEF RefsAgree

\* discards is zero exactly when no discard is closing a service.
LEMMA NoDiscards ==
  ASSUME DiscardsAgree
  PROVE  discards = 0 <=> DiscardingHandles = {}
BY FiniteCounted, FS_EmptySet DEF DiscardsAgree

\* A handle whose reference count is one is held by one request.
LEMMA SoleHolder ==
  ASSUME RefsAgree, NEW h \in Handles, refs[h] = 1, NEW p \in Holders(h)
  PROVE  Holders(h) = {p}
<1>1. Cardinality(Holders(h) \ {p}) = 0 /\ IsFiniteSet(Holders(h) \ {p})
  BY FiniteCounted, FS_RemoveElement DEF RefsAgree
<1> QED
  BY <1>1, FS_EmptySet

LEMMA RefsKept ==
  ASSUME RefsAgree, refs' = refs,
         \A h \in Handles : Holders(h)' = Holders(h)
  PROVE  RefsAgree'
BY DEF RefsAgree

LEMMA DiscardsKept ==
  ASSUME DiscardsAgree, discards' = discards,
         DiscardingHandles' = DiscardingHandles
  PROVE  DiscardsAgree'
BY DEF DiscardsAgree

LEMMA RefsUp ==
  ASSUME RefsAgree, refs \in [Handles -> Nat],
         NEW h \in Handles, NEW p, p \notin Holders(h),
         refs' = [refs EXCEPT ![h] = @ + 1],
         \A g \in Handles : Holders(g)' = IF g = h THEN Holders(h) \cup {p} ELSE Holders(g)
  PROVE  RefsAgree'
<1>1. Cardinality(Holders(h) \cup {p}) = Cardinality(Holders(h)) + 1
  BY FiniteCounted, FS_AddElement
<1> QED
  BY <1>1 DEF RefsAgree

LEMMA RefsDown ==
  ASSUME RefsAgree, refs \in [Handles -> Nat],
         NEW h \in Handles, NEW p, p \in Holders(h),
         refs' = [refs EXCEPT ![h] = @ - 1],
         \A g \in Handles : Holders(g)' = IF g = h THEN Holders(h) \ {p} ELSE Holders(g)
  PROVE  RefsAgree'
<1>1. Cardinality(Holders(h) \ {p}) = Cardinality(Holders(h)) - 1
  BY FiniteCounted, FS_RemoveElement
<1> QED
  BY <1>1 DEF RefsAgree

LEMMA DiscardsUp ==
  ASSUME DiscardsAgree, NEW h, h \notin DiscardingHandles,
         discards' = discards + 1,
         DiscardingHandles' = DiscardingHandles \cup {h}
  PROVE  DiscardsAgree'
BY FiniteCounted, FS_AddElement DEF DiscardsAgree

LEMMA DiscardsDown ==
  ASSUME DiscardsAgree, NEW h \in DiscardingHandles,
         discards' = discards - 1,
         DiscardingHandles' = DiscardingHandles \ {h}
  PROVE  DiscardsAgree' /\ discards' \in Nat
<1>1. Cardinality(DiscardingHandles \ {h}) = Cardinality(DiscardingHandles) - 1
  BY FiniteCounted, FS_RemoveElement
<1>2. Cardinality(DiscardingHandles') \in Nat
  BY FiniteCounted, FS_RemoveElement, FS_CardinalityType
<1> QED
  BY <1>1, <1>2 DEF DiscardsAgree

\* The steps ----------------------------------------------------------------

LEMMA RequestKeeps ==
  ASSUME IInv, NEW p \in Callers, NEW id \in Ids, Request(p, id)
  PROVE  IInv'
<1> USE RegistryAssumption DEF IInv, closing, mapVars, handleVars, callerVars,
   reloadVars, closeVars
<1>1. TypeOK'
  BY DEF TypeOK, Request
<1>2. MapsAgree' /\ ReservationsAgree'
  BY DEF MapsAgree, ReservationsAgree, Request
<1>3. RequestsAgree' /\ ServicesAgree'
  BY DEF TypeOK, RequestsAgree, ServicesAgree, Request
<1>4. ReloadAgrees' /\ RuntimeAgrees'
  BY DEF ReloadAgrees, RuntimeAgrees, Request, OpenIds, OpeningIds, DiscardingHandles
<1>r. \A g \in Handles : Holders(g)' = Holders(g)
  BY DEF Request, Holders
<1>5. RefsAgree'
  BY <1>r, RefsKept DEF Request
<1>d. DiscardingHandles' = DiscardingHandles
  BY DEF Request, DiscardingHandles
<1>6. DiscardsAgree'
  BY <1>d, DiscardsKept DEF Request
<1> QED BY <1>1, <1>2, <1>3, <1>4, <1>5, <1>6

LEMMA RefuseClosingKeeps ==
  ASSUME IInv, NEW p \in Callers, RefuseClosing(p)
  PROVE  IInv'
<1> USE RegistryAssumption DEF IInv, closing, mapVars, handleVars, callerVars,
   reloadVars, closeVars
<1>1. TypeOK'
  BY DEF TypeOK, RefuseClosing, AnswerError
<1>2. MapsAgree' /\ ReservationsAgree'
  BY DEF MapsAgree, ReservationsAgree, RefuseClosing, AnswerError
<1>3. RequestsAgree' /\ ServicesAgree'
  BY DEF TypeOK, RequestsAgree, ServicesAgree, RefuseClosing, AnswerError
<1>4. ReloadAgrees' /\ RuntimeAgrees'
  BY DEF ReloadAgrees, RuntimeAgrees, RefuseClosing, AnswerError, OpenIds, OpeningIds,
     DiscardingHandles
<1>r. \A g \in Handles : Holders(g)' = Holders(g)
  BY DEF RefuseClosing, AnswerError, Holders
<1>5. RefsAgree'
  BY <1>r, RefsKept DEF RefuseClosing, AnswerError
<1>d. DiscardingHandles' = DiscardingHandles
  BY DEF RefuseClosing, AnswerError, DiscardingHandles
<1>6. DiscardsAgree'
  BY <1>d, DiscardsKept DEF RefuseClosing, AnswerError
<1> QED BY <1>1, <1>2, <1>3, <1>4, <1>5, <1>6

LEMMA RefuseUnknownKeeps ==
  ASSUME IInv, NEW p \in Callers, RefuseUnknown(p)
  PROVE  IInv'
<1> USE RegistryAssumption DEF IInv, closing, mapVars, handleVars, callerVars,
   reloadVars, closeVars
<1>1. TypeOK'
  BY DEF TypeOK, RefuseUnknown, AnswerError
<1>2. MapsAgree' /\ ReservationsAgree'
  BY DEF MapsAgree, ReservationsAgree, RefuseUnknown, AnswerError
<1>3. RequestsAgree' /\ ServicesAgree'
  BY DEF TypeOK, RequestsAgree, ServicesAgree, RefuseUnknown, AnswerError
<1>4. ReloadAgrees' /\ RuntimeAgrees'
  BY DEF ReloadAgrees, RuntimeAgrees, RefuseUnknown, AnswerError
<1>r. \A g \in Handles : Holders(g)' = Holders(g)
  BY DEF RefuseUnknown, AnswerError, Holders
<1>5. RefsAgree'
  BY <1>r, RefsKept DEF RefuseUnknown, AnswerError
<1>d. DiscardingHandles' = DiscardingHandles
  BY DEF RefuseUnknown, AnswerError, DiscardingHandles
<1>6. DiscardsAgree'
  BY <1>d, DiscardsKept DEF RefuseUnknown, AnswerError
<1> QED BY <1>1, <1>2, <1>3, <1>4, <1>5, <1>6

LEMMA RefuseFullKeeps ==
  ASSUME IInv, NEW p \in Callers, RefuseFull(p)
  PROVE  IInv'
<1> USE RegistryAssumption DEF IInv, closing, mapVars, handleVars, callerVars,
   reloadVars, closeVars
<1>1. TypeOK'
  BY DEF TypeOK, RefuseFull, AnswerError
<1>2. MapsAgree' /\ ReservationsAgree'
  BY DEF MapsAgree, ReservationsAgree, RefuseFull, AnswerError
<1>3. RequestsAgree' /\ ServicesAgree'
  BY DEF TypeOK, RequestsAgree, ServicesAgree, RefuseFull, AnswerError, MustOpen
<1>4. ReloadAgrees' /\ RuntimeAgrees'
  BY DEF ReloadAgrees, RuntimeAgrees, RefuseFull, AnswerError, OpenIds, OpeningIds,
     DiscardingHandles
<1>r. \A g \in Handles : Holders(g)' = Holders(g)
  BY DEF RefuseFull, AnswerError, MustOpen, Holders
<1>5. RefsAgree'
  BY <1>r, RefsKept DEF RefuseFull, AnswerError
<1>d. DiscardingHandles' = DiscardingHandles
  BY DEF RefuseFull, AnswerError, DiscardingHandles
<1>6. DiscardsAgree'
  BY <1>d, DiscardsKept DEF RefuseFull, AnswerError
<1> QED BY <1>1, <1>2, <1>3, <1>4, <1>5, <1>6

LEMMA BorrowKeeps ==
  ASSUME IInv, NEW p \in Callers, Borrow(p)
  PROVE  IInv'
<1> USE RegistryAssumption DEF IInv, closing, mapVars, handleVars, callerVars,
   reloadVars, closeVars
<1>1. TypeOK'
  BY DEF TypeOK, RequestsAgree, Borrow, Touch, Forget, OpenIds
<1>2. MapsAgree' /\ ReservationsAgree'
  BY DEF MapsAgree, ReservationsAgree, Borrow
<1>3. RequestsAgree' /\ ServicesAgree'
  BY DEF TypeOK, MapsAgree, RequestsAgree, ServicesAgree, Borrow
<1>4. ReloadAgrees' /\ RuntimeAgrees'
  BY DEF ReloadAgrees, RuntimeAgrees, Borrow
<1>r. /\ open[want[p]] \in Handles /\ p \notin Holders(open[want[p]])
      /\ \A g \in Handles : Holders(g)' = IF g = open[want[p]] THEN Holders(open[want[p]]) \cup {p} ELSE Holders(g)
  BY DEF TypeOK, RequestsAgree, Borrow, Holders
<1>5. RefsAgree'
  BY <1>r, RefsUp DEF TypeOK, Borrow
<1>d. DiscardingHandles' = DiscardingHandles
  BY DEF Borrow, DiscardingHandles
<1>6. DiscardsAgree'
  BY <1>d, DiscardsKept DEF Borrow
<1> QED BY <1>1, <1>2, <1>3, <1>4, <1>5, <1>6

LEMMA AwaitOpeningKeeps ==
  ASSUME IInv, NEW p \in Callers, AwaitOpening(p)
  PROVE  IInv'
<1> USE RegistryAssumption DEF IInv, closing, mapVars, handleVars, callerVars,
   reloadVars, closeVars
<1>1. TypeOK'
  BY DEF TypeOK, AwaitOpening
<1>2. MapsAgree' /\ ReservationsAgree'
  BY DEF MapsAgree, ReservationsAgree, AwaitOpening, MustOpen
<1>3. RequestsAgree' /\ ServicesAgree'
  BY DEF RequestsAgree, ServicesAgree, AwaitOpening, MustOpen
<1>4. ReloadAgrees' /\ RuntimeAgrees'
  BY DEF ReloadAgrees, RuntimeAgrees, AwaitOpening, OpenIds, OpeningIds, DiscardingHandles
<1>r. \A g \in Handles : Holders(g)' = Holders(g)
  BY DEF AwaitOpening, MustOpen, Holders
<1>5. RefsAgree'
  BY <1>r, RefsKept DEF AwaitOpening
<1>d. DiscardingHandles' = DiscardingHandles
  BY DEF AwaitOpening, DiscardingHandles
<1>6. DiscardsAgree'
  BY <1>d, DiscardsKept DEF AwaitOpening
<1> QED BY <1>1, <1>2, <1>3, <1>4, <1>5, <1>6

LEMMA ReserveKeeps ==
  ASSUME IInv, NEW p \in Callers, Reserve(p)
  PROVE  IInv'
<1> USE RegistryAssumption DEF IInv, closing, mapVars, handleVars, callerVars,
   reloadVars, closeVars
<1>1. TypeOK'
  BY DEF TypeOK, RequestsAgree, Reserve, TakeReservation, MustOpen, Specs
<1>2. MapsAgree' /\ ReservationsAgree'
  BY DEF TypeOK, MapsAgree, ReservationsAgree, RequestsAgree, Reserve, TakeReservation,
     MustOpen
<1>3. RequestsAgree' /\ ServicesAgree'
  BY DEF RequestsAgree, ServicesAgree, Reserve, TakeReservation, MustOpen
<1>4. ReloadAgrees' /\ RuntimeAgrees'
  BY DEF ReloadAgrees, RuntimeAgrees, Reserve, TakeReservation, MustOpen
<1>r. \A g \in Handles : Holders(g)' = Holders(g)
  BY DEF Reserve, TakeReservation, MustOpen, Holders
<1>5. RefsAgree'
  BY <1>r, RefsKept DEF Reserve
<1>d. DiscardingHandles' = DiscardingHandles
  BY DEF Reserve, DiscardingHandles
<1>6. DiscardsAgree'
  BY <1>d, DiscardsKept DEF Reserve
<1> QED BY <1>1, <1>2, <1>3, <1>4, <1>5, <1>6

LEMMA ReserveByEvictingKeeps ==
  ASSUME IInv, NEW p \in Callers, ReserveByEvicting(p)
  PROVE  IInv'
<1> USE RegistryAssumption DEF IInv, closing, mapVars, handleVars, callerVars,
   reloadVars, closeVars
<1>e. PICK old \in IdleIds :
        /\ open' = [open EXCEPT ![old] = None]
        /\ stage' = [stage EXCEPT ![open[old]] = "detached"]
        /\ mine' = [mine EXCEPT ![p] = open[old]]
  BY DEF ReserveByEvicting
<1>h. Holders(open[old]) = {} /\ open[old] \in Handles
  BY UnreferencedIsUnheld DEF IdleIds, OpenIds, TypeOK
<1>1. TypeOK'
  BY DEF TypeOK, RequestsAgree, ReserveByEvicting, TakeReservation, MustOpen, IdleIds,
     OpenIds, Stages, Specs, Forget
<1>2. MapsAgree' /\ ReservationsAgree'
  BY <1>e, <1>h DEF TypeOK, MapsAgree, ReservationsAgree, RequestsAgree,
     ReserveByEvicting, TakeReservation, MustOpen, IdleIds, OpenIds
<1>3. RequestsAgree' /\ ServicesAgree'
  BY <1>e, <1>h DEF TypeOK, MapsAgree, RequestsAgree, ServicesAgree, ReserveByEvicting,
     TakeReservation, MustOpen, IdleIds, OpenIds, Holders
<1>4. ReloadAgrees' /\ RuntimeAgrees'
  BY <1>e, <1>h DEF ReloadAgrees, RuntimeAgrees, ReserveByEvicting, IdleIds
<1>r. \A g \in Handles : Holders(g)' = Holders(g)
  BY <1>e DEF ReserveByEvicting, TakeReservation, MustOpen, Holders
<1>5. RefsAgree'
  BY <1>r, RefsKept DEF ReserveByEvicting
<1>d. DiscardingHandles' = DiscardingHandles
  BY <1>e DEF MapsAgree, IdleIds, OpenIds, DiscardingHandles
<1>6. DiscardsAgree'
  BY <1>d, DiscardsKept DEF ReserveByEvicting
<1> QED BY <1>1, <1>2, <1>3, <1>4, <1>5, <1>6

LEMMA BeginInitKeeps ==
  ASSUME IInv, NEW p \in Callers, NEW h \in Handles, BeginInit(p, h)
  PROVE  IInv'
<1> USE RegistryAssumption DEF IInv, closing, mapVars, handleVars, callerVars,
   reloadVars, closeVars
<1>1. TypeOK'
  BY DEF TypeOK, BeginInit, Stages
<1>2. MapsAgree' /\ ReservationsAgree'
  BY DEF MapsAgree, ReservationsAgree, BeginInit
<1>3. RequestsAgree' /\ ServicesAgree'
  BY DEF TypeOK, RequestsAgree, ServicesAgree, BeginInit
<1>4. ReloadAgrees' /\ RuntimeAgrees'
  BY DEF ReloadAgrees, RuntimeAgrees, BeginInit, OpenIds, OpeningIds, DiscardingHandles
<1>r. \A g \in Handles : Holders(g)' = Holders(g)
  BY DEF BeginInit, Holders
<1>5. RefsAgree'
  BY <1>r, RefsKept DEF BeginInit
<1>d. DiscardingHandles' = DiscardingHandles
  BY DEF BeginInit, DiscardingHandles
<1>6. DiscardsAgree'
  BY <1>d, DiscardsKept DEF BeginInit
<1> QED BY <1>1, <1>2, <1>3, <1>4, <1>5, <1>6

LEMMA OpenFailsKeeps ==
  ASSUME IInv, NEW p \in Callers, OpenFails(p)
  PROVE  IInv'
<1> USE RegistryAssumption DEF IInv, closing, mapVars, handleVars, callerVars,
   reloadVars, closeVars
<1>1. TypeOK'
  BY DEF TypeOK, MapsAgree, ReservationsAgree, RequestsAgree, ServicesAgree,
     RuntimeAgrees, OpenFails, EndReservation, Vacate, Stages, Specs
<1>2. MapsAgree' /\ ReservationsAgree'
  BY DEF TypeOK, MapsAgree, ReservationsAgree, RequestsAgree, OpenFails, EndReservation,
     Vacate
<1>3a. RequestsAgree'
  BY DEF TypeOK, ReservationsAgree, RequestsAgree, OpenFails, EndReservation, Vacate
<1>3b. ServicesAgree'
  <2> USE DEF TypeOK, RequestsAgree, ServicesAgree, OpenFails, EndReservation, Vacate
  <2>1. \A h \in Handles : stage'[h] = "starting" =>
          \E q \in Callers : pc'[q] = "starting" /\ mine'[q] = h
    OBVIOUS
  <2>2. \A h \in Handles : stage'[h] = "detached" =>
          h \in dropping' \/ \E q \in Callers : pc'[q] = "reserved" /\ mine'[q] = h
    OBVIOUS
  <2>3. \A h \in dropping' : /\ stage'[h] \in {"detached", "discarding", "discarded"}
                             /\ home'[h] \in Ids /\ opening'[home'[h]] = Reload
    BY DEF ReservationsAgree
  <2> QED BY <2>1, <2>2, <2>3
<1>3. RequestsAgree' /\ ServicesAgree'
  BY <1>3a, <1>3b
<1>4. ReloadAgrees' /\ RuntimeAgrees'
  BY DEF TypeOK, ReloadAgrees, RuntimeAgrees, OpenFails, EndReservation, Vacate,
     OpenIds, OpeningIds, DiscardingHandles
<1>r. \A g \in Handles : Holders(g)' = Holders(g)
  BY DEF OpenFails, EndReservation, Holders
<1>5. RefsAgree'
  BY <1>r, RefsKept DEF OpenFails
<1>d. DiscardingHandles' = DiscardingHandles
  BY DEF TypeOK, RequestsAgree, OpenFails, Vacate, DiscardingHandles
<1>6. DiscardsAgree'
  BY <1>d, DiscardsKept DEF OpenFails
<1> QED BY <1>1, <1>2, <1>3, <1>4, <1>5, <1>6

LEMMA OpenSucceedsKeeps ==
  ASSUME IInv, NEW p \in Callers, OpenSucceeds(p)
  PROVE  IInv'
<1> USE RegistryAssumption DEF IInv, closing, mapVars, handleVars, callerVars,
   reloadVars, closeVars
<1>1. TypeOK'
  BY DEF TypeOK, RequestsAgree, OpenSucceeds, EndReservation, Stages, Touch, Forget, OpenIds
<1>2. MapsAgree' /\ ReservationsAgree'
  BY DEF TypeOK, MapsAgree, ReservationsAgree, RequestsAgree, OpenSucceeds, EndReservation
<1>3. RequestsAgree' /\ ServicesAgree'
  BY DEF TypeOK, MapsAgree, ReservationsAgree, RequestsAgree, ServicesAgree,
     OpenSucceeds, EndReservation
<1>4. ReloadAgrees' /\ RuntimeAgrees'
  BY DEF ReloadAgrees, RuntimeAgrees, OpenSucceeds
<1>r. /\ mine[p] \in Handles /\ p \notin Holders(mine[p])
      /\ \A g \in Handles : Holders(g)' = IF g = mine[p] THEN Holders(mine[p]) \cup {p} ELSE Holders(g)
  BY DEF TypeOK, RequestsAgree, OpenSucceeds, EndReservation, Holders
<1>5. RefsAgree'
  BY <1>r, RefsUp DEF TypeOK, OpenSucceeds
<1>d. DiscardingHandles' = DiscardingHandles
  BY DEF RequestsAgree, OpenSucceeds, DiscardingHandles
<1>6. DiscardsAgree'
  BY <1>d, DiscardsKept DEF OpenSucceeds
<1> QED BY <1>1, <1>2, <1>3, <1>4, <1>5, <1>6

LEMMA OpenTooLateKeeps ==
  ASSUME IInv, NEW p \in Callers, OpenTooLate(p)
  PROVE  IInv'
<1> USE RegistryAssumption DEF IInv, closing, mapVars, handleVars, callerVars,
   reloadVars, closeVars
<1>1. TypeOK'
  BY DEF TypeOK, RequestsAgree, OpenTooLate, EndReservation, Stages
<1>2. MapsAgree' /\ ReservationsAgree'
  BY DEF TypeOK, MapsAgree, ReservationsAgree, RequestsAgree, OpenTooLate, EndReservation
<1>3. RequestsAgree' /\ ServicesAgree'
  BY DEF TypeOK, ReservationsAgree, RequestsAgree, ServicesAgree, OpenTooLate,
     EndReservation
<1>4. ReloadAgrees' /\ RuntimeAgrees'
  BY DEF ReservationsAgree, ReloadAgrees, RuntimeAgrees, OpenTooLate, OpeningIds
<1>r. \A g \in Handles : Holders(g)' = Holders(g)
  BY DEF OpenTooLate, EndReservation, Holders
<1>5. RefsAgree'
  BY <1>r, RefsKept DEF OpenTooLate
<1>d. mine[p] \notin DiscardingHandles /\ DiscardingHandles' = DiscardingHandles \cup {mine[p]}
  BY DEF TypeOK, RequestsAgree, OpenTooLate, DiscardingHandles
<1>6. DiscardsAgree'
  BY <1>d, DiscardsUp DEF OpenTooLate
<1> QED BY <1>1, <1>2, <1>3, <1>4, <1>5, <1>6

LEMMA ReleaseKeeps ==
  ASSUME IInv, NEW p \in Callers, Release(p)
  PROVE  IInv'
<1> USE RegistryAssumption DEF IInv, closing, mapVars, handleVars, callerVars,
   reloadVars, closeVars
<1>h. /\ mine[p] \in Handles /\ want[p] \in Ids /\ p \in Holders(mine[p])
      /\ open[want[p]] = mine[p] /\ stage[mine[p]] = "open"
  BY DEF Release, TypeOK, RequestsAgree, Holders
<1>n. refs[mine[p]] \in Nat /\ refs[mine[p]] # 0
  BY <1>h, UnreferencedIsUnheld DEF TypeOK
<1>s. \A g \in Handles : Holders(g)' = IF g = mine[p] THEN Holders(mine[p]) \ {p} ELSE Holders(g)
  BY <1>h DEF Release, TypeOK, Holders
<1>t. refs' = [refs EXCEPT ![mine[p]] = @ - 1]
  BY <1>h, <1>n DEF Release
<1>5. RefsAgree'
  BY <1>h, <1>s, <1>t, RefsDown DEF TypeOK
<1>l. ASSUME refs[mine[p]] = 1
      PROVE  \A q \in Callers : pc[q] = "holding" /\ mine[q] = mine[p] => q = p
  BY <1>h, <1>l, SoleHolder DEF Holders
<1>1. TypeOK'
  BY <1>h, <1>n DEF TypeOK, Stages, Release, Touch, Forget, OpenIds
<1>2. MapsAgree' /\ ReservationsAgree'
  BY <1>h, <1>n DEF TypeOK, MapsAgree, ReservationsAgree, Release
<1>3. RequestsAgree' /\ ServicesAgree'
  BY <1>h, <1>n, <1>l DEF TypeOK, RequestsAgree, ServicesAgree, Release
<1>4. ReloadAgrees' /\ RuntimeAgrees'
  BY <1>h DEF ReloadAgrees, RuntimeAgrees, OpenIds, Release
<1>6. DiscardsAgree'
  <2>1. CASE refs[mine[p]] = 1 /\ closing
    <3>1. mine[p] \notin DiscardingHandles /\ DiscardingHandles' = DiscardingHandles \cup {mine[p]}
      BY <2>1, <1>h, <1>n DEF Release, TypeOK, DiscardingHandles
    <3> QED
      BY <3>1, <2>1, <1>h, <1>n, DiscardsUp DEF Release
  <2>2. CASE ~(refs[mine[p]] = 1 /\ closing)
    BY <2>2, <1>h, <1>n, DiscardsKept DEF Release, DiscardingHandles
  <2> QED BY <2>1, <2>2
<1> QED BY <1>1, <1>2, <1>3, <1>4, <1>5, <1>6

LEMMA IndexStartsKeeps ==
  ASSUME IInv, NEW h \in Handles, IndexStarts(h)
  PROVE  IInv'
<1> USE RegistryAssumption DEF IInv, closing, mapVars, handleVars, callerVars,
   reloadVars, closeVars
<1>1. TypeOK'
  BY DEF TypeOK, IndexStarts
<1>2. MapsAgree' /\ ReservationsAgree'
  BY DEF MapsAgree, ReservationsAgree, IndexStarts
<1>3. RequestsAgree' /\ ServicesAgree'
  BY DEF RequestsAgree, ServicesAgree, IndexStarts
<1>4. ReloadAgrees' /\ RuntimeAgrees'
  BY DEF ReloadAgrees, RuntimeAgrees, IndexStarts, OpenIds, OpeningIds, DiscardingHandles
<1>r. \A g \in Handles : Holders(g)' = Holders(g)
  BY DEF IndexStarts, Holders
<1>5. RefsAgree'
  BY <1>r, RefsKept DEF IndexStarts
<1>d. DiscardingHandles' = DiscardingHandles
  BY DEF IndexStarts, DiscardingHandles
<1>6. DiscardsAgree'
  BY <1>d, DiscardsKept DEF IndexStarts
<1> QED BY <1>1, <1>2, <1>3, <1>4, <1>5, <1>6

LEMMA IndexEndsKeeps ==
  ASSUME IInv, NEW h \in Handles, IndexEnds(h)
  PROVE  IInv'
<1> USE RegistryAssumption DEF IInv, closing, mapVars, handleVars, callerVars,
   reloadVars, closeVars
<1>1. TypeOK'
  BY DEF TypeOK, IndexEnds
<1>2. MapsAgree' /\ ReservationsAgree'
  BY DEF MapsAgree, ReservationsAgree, IndexEnds
<1>3. RequestsAgree' /\ ServicesAgree'
  BY DEF RequestsAgree, ServicesAgree, IndexEnds
<1>4. ReloadAgrees' /\ RuntimeAgrees'
  BY DEF ReloadAgrees, RuntimeAgrees, IndexEnds, OpenIds, OpeningIds, DiscardingHandles
<1>r. \A g \in Handles : Holders(g)' = Holders(g)
  BY DEF IndexEnds, Holders
<1>5. RefsAgree'
  BY <1>r, RefsKept DEF IndexEnds
<1>d. DiscardingHandles' = DiscardingHandles
  BY DEF IndexEnds, DiscardingHandles
<1>6. DiscardsAgree'
  BY <1>d, DiscardsKept DEF IndexEnds
<1> QED BY <1>1, <1>2, <1>3, <1>4, <1>5, <1>6

LEMMA BeginDiscardKeeps ==
  ASSUME IInv, NEW h \in Handles, BeginDiscard(h)
  PROVE  IInv'
<1> USE RegistryAssumption DEF IInv, closing, mapVars, handleVars, callerVars,
   reloadVars, closeVars
<1>1. TypeOK'
  BY DEF TypeOK, BeginDiscard, Stages
<1>2. MapsAgree' /\ ReservationsAgree'
  BY DEF MapsAgree, ReservationsAgree, BeginDiscard
<1>3. RequestsAgree' /\ ServicesAgree'
  BY DEF RequestsAgree, ServicesAgree, BeginDiscard
<1>4. ReloadAgrees' /\ RuntimeAgrees'
  BY DEF ReservationsAgree, ServicesAgree, ReloadAgrees, RuntimeAgrees, BeginDiscard,
     OpeningIds
<1>r. \A g \in Handles : Holders(g)' = Holders(g)
  BY DEF BeginDiscard, Holders
<1>5. RefsAgree'
  BY <1>r, RefsKept DEF BeginDiscard
<1>d. h \notin DiscardingHandles /\ DiscardingHandles' = DiscardingHandles \cup {h}
  BY DEF TypeOK, BeginDiscard, DiscardingHandles
<1>6. DiscardsAgree'
  BY <1>d, DiscardsUp DEF BeginDiscard
<1> QED BY <1>1, <1>2, <1>3, <1>4, <1>5, <1>6

LEMMA CloseServiceKeeps ==
  ASSUME IInv, NEW h \in Handles, CloseService(h)
  PROVE  IInv'
<1> USE RegistryAssumption DEF IInv, closing, mapVars, handleVars, callerVars,
   reloadVars, closeVars
<1>d. h \in DiscardingHandles /\ DiscardingHandles' = DiscardingHandles \ {h}
  BY DEF CloseService, TypeOK, DiscardingHandles
<1>c. DiscardsAgree' /\ discards' \in Nat
  BY <1>d, DiscardsDown DEF CloseService
<1>1. TypeOK'
  BY <1>c DEF TypeOK, CloseService, Stages
<1>2. MapsAgree' /\ ReservationsAgree'
  BY DEF MapsAgree, ReservationsAgree, CloseService
<1>3. RequestsAgree' /\ ServicesAgree'
  BY DEF RequestsAgree, ServicesAgree, CloseService
<1>4. ReloadAgrees' /\ RuntimeAgrees'
  BY DEF ReloadAgrees, RuntimeAgrees, CloseService, DiscardingHandles
<1>r. \A g \in Handles : Holders(g)' = Holders(g)
  BY DEF CloseService, Holders
<1>5. RefsAgree'
  BY <1>r, RefsKept DEF CloseService
<1>6. DiscardsAgree'
  BY <1>c
<1> QED BY <1>1, <1>2, <1>3, <1>4, <1>5, <1>6

LEMMA FinishDiscardKeeps ==
  ASSUME IInv, NEW h \in Handles, FinishDiscard(h)
  PROVE  IInv'
<1> USE RegistryAssumption DEF IInv, closing, mapVars, handleVars, callerVars,
   reloadVars, closeVars
<1>1. TypeOK'
  BY DEF TypeOK, FinishDiscard, Vacate, Stages
<1>2. MapsAgree' /\ ReservationsAgree'
  BY DEF MapsAgree, ReservationsAgree, FinishDiscard, Vacate
<1>3. RequestsAgree' /\ ServicesAgree'
  BY DEF RequestsAgree, ServicesAgree, FinishDiscard, Vacate
<1>4. ReloadAgrees' /\ RuntimeAgrees'
  BY NoDiscards DEF TypeOK, ReloadAgrees, RuntimeAgrees, FinishDiscard, Vacate, Drained,
     OpenIds, OpeningIds, DiscardingHandles
<1>r. \A g \in Handles : Holders(g)' = Holders(g)
  BY DEF RequestsAgree, FinishDiscard, Holders
<1>5. RefsAgree'
  BY <1>r, RefsKept DEF FinishDiscard
<1>d. DiscardingHandles' = DiscardingHandles
  BY DEF FinishDiscard, Vacate, DiscardingHandles
<1>6. DiscardsAgree'
  BY <1>d, DiscardsKept DEF FinishDiscard
<1> QED BY <1>1, <1>2, <1>3, <1>4, <1>5, <1>6

LEMMA ReloadLoadKeeps ==
  ASSUME IInv, NEW s \in Snapshots, ReloadLoad(s)
  PROVE  IInv'
<1> USE RegistryAssumption DEF IInv, closing, mapVars, handleVars, callerVars,
   reloadVars, closeVars
<1>1. TypeOK'
  BY DEF TypeOK, ReloadLoad
<1>2. MapsAgree' /\ ReservationsAgree'
  BY DEF MapsAgree, ReservationsAgree, ReloadLoad
<1>3. RequestsAgree' /\ ServicesAgree'
  BY DEF RequestsAgree, ServicesAgree, ReloadLoad
<1>4. ReloadAgrees' /\ RuntimeAgrees'
  BY DEF ReloadAgrees, RuntimeAgrees, ReloadLoad
<1>r. \A g \in Handles : Holders(g)' = Holders(g)
  BY DEF ReloadLoad, Holders
<1>5. RefsAgree'
  BY <1>r, RefsKept DEF ReloadLoad
<1>d. DiscardingHandles' = DiscardingHandles
  BY DEF ReloadLoad, DiscardingHandles
<1>6. DiscardsAgree'
  BY <1>d, DiscardsKept DEF ReloadLoad
<1> QED BY <1>1, <1>2, <1>3, <1>4, <1>5, <1>6

LEMMA ReloadRefusedKeeps ==
  ASSUME IInv, ReloadRefused
  PROVE  IInv'
<1> USE RegistryAssumption DEF IInv, closing, mapVars, handleVars, callerVars,
   reloadVars, closeVars
<1>1. TypeOK'
  BY DEF TypeOK, ReloadRefused
<1>2. MapsAgree' /\ ReservationsAgree'
  BY DEF MapsAgree, ReservationsAgree, ReloadRefused
<1>3. RequestsAgree' /\ ServicesAgree'
  BY DEF RequestsAgree, ServicesAgree, ReloadRefused
<1>4. ReloadAgrees' /\ RuntimeAgrees'
  BY DEF ReloadAgrees, RuntimeAgrees, ReloadRefused, OpenIds, OpeningIds, DiscardingHandles
<1>r. \A g \in Handles : Holders(g)' = Holders(g)
  BY DEF ReloadRefused, Holders
<1>5. RefsAgree'
  BY <1>r, RefsKept DEF ReloadRefused
<1>d. DiscardingHandles' = DiscardingHandles
  BY DEF ReloadRefused, DiscardingHandles
<1>6. DiscardsAgree'
  BY <1>d, DiscardsKept DEF ReloadRefused
<1> QED BY <1>1, <1>2, <1>3, <1>4, <1>5, <1>6

LEMMA ReloadApplyKeeps ==
  ASSUME IInv, ReloadApply
  PROVE  IInv'
<1> USE RegistryAssumption DEF IInv, closing, mapVars, handleVars, callerVars,
   reloadVars, closeVars
<1>h. \A id \in Changed \cap OpenIds : open[id] \in Handles /\ Holders(open[id]) = {}
  BY UnreferencedIsUnheld DEF ReloadApply, InUse, OpenIds, TypeOK
<1>1. TypeOK'
  BY DEF TypeOK, ReloadAgrees, ReloadApply, OpenIds, Stages, Forget
<1>2. MapsAgree' /\ ReservationsAgree'
  BY DEF TypeOK, MapsAgree, ReservationsAgree, RequestsAgree, ServicesAgree,
     ReloadAgrees, RuntimeAgrees, ReloadApply, Changed, InUse, OpenIds
<1>3a. RequestsAgree'
  BY <1>h DEF TypeOK, MapsAgree, RequestsAgree, ReloadApply, OpenIds, Holders
<1>3b. ServicesAgree'
  BY <1>h DEF MapsAgree, ServicesAgree, ReloadAgrees, ReloadApply, OpenIds
<1>3. RequestsAgree' /\ ServicesAgree'
  BY <1>3a, <1>3b
<1>4. ReloadAgrees' /\ RuntimeAgrees'
  BY DEF ReloadAgrees, RuntimeAgrees, ReloadApply
<1>r. \A g \in Handles : Holders(g)' = Holders(g)
  BY DEF ReloadApply, Holders
<1>5. RefsAgree'
  BY <1>r, RefsKept DEF ReloadApply
<1>d. DiscardingHandles' = DiscardingHandles
  BY DEF MapsAgree, ReloadApply, OpenIds, DiscardingHandles
<1>6. DiscardsAgree'
  BY <1>d, DiscardsKept DEF ReloadApply
<1> QED BY <1>1, <1>2, <1>3, <1>4, <1>5, <1>6

LEMMA ReloadEndsKeeps ==
  ASSUME IInv, ReloadEnds
  PROVE  IInv'
<1> USE RegistryAssumption DEF IInv, closing, mapVars, handleVars, callerVars,
   reloadVars, closeVars
<1>1. TypeOK'
  BY DEF TypeOK, ReloadEnds
<1>2. MapsAgree' /\ ReservationsAgree'
  BY DEF MapsAgree, ReservationsAgree, ReloadEnds
<1>3. RequestsAgree' /\ ServicesAgree'
  BY DEF RequestsAgree, ServicesAgree, ReloadEnds
<1>4. ReloadAgrees' /\ RuntimeAgrees'
  BY DEF ReloadAgrees, RuntimeAgrees, ReloadEnds, OpenIds, OpeningIds, DiscardingHandles
<1>r. \A g \in Handles : Holders(g)' = Holders(g)
  BY DEF ReloadEnds, Holders
<1>5. RefsAgree'
  BY <1>r, RefsKept DEF ReloadEnds
<1>d. DiscardingHandles' = DiscardingHandles
  BY DEF ReloadEnds, DiscardingHandles
<1>6. DiscardsAgree'
  BY <1>d, DiscardsKept DEF ReloadEnds
<1> QED BY <1>1, <1>2, <1>3, <1>4, <1>5, <1>6

LEMMA CloseFlagKeeps ==
  ASSUME IInv, CloseFlag
  PROVE  IInv'
<1> USE RegistryAssumption DEF IInv, closing, mapVars, handleVars, callerVars,
   reloadVars, closeVars
<1>1. TypeOK'
  BY DEF TypeOK, CloseFlag
<1>2. MapsAgree' /\ ReservationsAgree'
  BY DEF MapsAgree, ReservationsAgree, CloseFlag
<1>3. RequestsAgree' /\ ServicesAgree'
  BY DEF RequestsAgree, ServicesAgree, CloseFlag
<1>4. ReloadAgrees' /\ RuntimeAgrees'
  BY DEF ReloadAgrees, RuntimeAgrees, CloseFlag
<1>r. \A g \in Handles : Holders(g)' = Holders(g)
  BY DEF CloseFlag, Holders
<1>5. RefsAgree'
  BY <1>r, RefsKept DEF CloseFlag
<1>d. DiscardingHandles' = DiscardingHandles
  BY DEF CloseFlag, DiscardingHandles
<1>6. DiscardsAgree'
  BY <1>d, DiscardsKept DEF CloseFlag
<1> QED BY <1>1, <1>2, <1>3, <1>4, <1>5, <1>6

LEMMA CloseCancelKeeps ==
  ASSUME IInv, CloseCancel
  PROVE  IInv'
<1> USE RegistryAssumption DEF IInv, closing, mapVars, handleVars, callerVars,
   reloadVars, closeVars
<1>1. TypeOK'
  BY DEF TypeOK, CloseCancel
<1>2. MapsAgree' /\ ReservationsAgree'
  BY DEF MapsAgree, ReservationsAgree, CloseCancel
<1>3. RequestsAgree' /\ ServicesAgree'
  BY DEF RequestsAgree, ServicesAgree, CloseCancel
<1>4. ReloadAgrees' /\ RuntimeAgrees'
  BY DEF ReloadAgrees, RuntimeAgrees, CloseCancel, OpenIds, OpeningIds, DiscardingHandles
<1>r. \A g \in Handles : Holders(g)' = Holders(g)
  BY DEF CloseCancel, Holders
<1>5. RefsAgree'
  BY <1>r, RefsKept DEF CloseCancel
<1>d. DiscardingHandles' = DiscardingHandles
  BY DEF CloseCancel, DiscardingHandles
<1>6. DiscardsAgree'
  BY <1>d, DiscardsKept DEF CloseCancel
<1> QED BY <1>1, <1>2, <1>3, <1>4, <1>5, <1>6

LEMMA CloseSweepKeeps ==
  ASSUME IInv, CloseSweep
  PROVE  IInv'
<1> USE RegistryAssumption DEF IInv, closing, mapVars, handleVars, callerVars,
   reloadVars, closeVars
<1>h. \A id \in IdleIds : open[id] \in Handles /\ Holders(open[id]) = {}
  BY UnreferencedIsUnheld DEF IdleIds, OpenIds, TypeOK
<1>1. TypeOK'
  BY DEF TypeOK, CloseSweep, Stages, Forget
<1>2. MapsAgree' /\ ReservationsAgree'
  BY DEF TypeOK, MapsAgree, ReservationsAgree, CloseSweep, IdleIds, OpenIds
<1>3. RequestsAgree' /\ ServicesAgree'
  BY <1>h DEF TypeOK, MapsAgree, RequestsAgree, ServicesAgree, CloseSweep, IdleIds,
     OpenIds, Holders
<1>4. ReloadAgrees' /\ RuntimeAgrees'
  BY DEF ReloadAgrees, RuntimeAgrees, CloseSweep, OpenIds, OpeningIds, DiscardingHandles
<1>r. \A g \in Handles : Holders(g)' = Holders(g)
  BY DEF CloseSweep, Holders
<1>5. RefsAgree'
  BY <1>r, RefsKept DEF CloseSweep
<1>d. DiscardingHandles' = DiscardingHandles
  BY DEF MapsAgree, CloseSweep, IdleIds, OpenIds, DiscardingHandles
<1>6. DiscardsAgree'
  BY <1>d, DiscardsKept DEF CloseSweep
<1> QED BY <1>1, <1>2, <1>3, <1>4, <1>5, <1>6

LEMMA SweepOneKeeps ==
  ASSUME IInv, NEW h \in Handles, SweepOne(h)
  PROVE  IInv'
<1> USE RegistryAssumption DEF IInv, closing, mapVars, handleVars, callerVars,
   reloadVars, closeVars
<1>1. TypeOK'
  BY DEF TypeOK, SweepOne, Vacate, Stages
<1>2. MapsAgree' /\ ReservationsAgree'
  BY DEF MapsAgree, ReservationsAgree, SweepOne, Vacate
<1>3. RequestsAgree' /\ ServicesAgree'
  BY DEF RequestsAgree, ServicesAgree, SweepOne, Vacate
<1>4. ReloadAgrees' /\ RuntimeAgrees'
  BY DEF ReloadAgrees, RuntimeAgrees, SweepOne, Vacate, OpenIds, OpeningIds,
     DiscardingHandles
<1>r. \A g \in Handles : Holders(g)' = Holders(g)
  BY DEF SweepOne, Holders
<1>5. RefsAgree'
  BY <1>r, RefsKept DEF SweepOne
<1>d. DiscardingHandles' = DiscardingHandles
  BY DEF SweepOne, Vacate, DiscardingHandles
<1>6. DiscardsAgree'
  BY <1>d, DiscardsKept DEF SweepOne
<1> QED BY <1>1, <1>2, <1>3, <1>4, <1>5, <1>6

LEMMA CloseEndsKeeps ==
  ASSUME IInv, CloseEnds
  PROVE  IInv'
<1> USE RegistryAssumption DEF IInv, closing, mapVars, handleVars, callerVars,
   reloadVars, closeVars
<1>1. TypeOK'
  BY DEF TypeOK, CloseEnds
<1>2. MapsAgree' /\ ReservationsAgree'
  BY DEF MapsAgree, ReservationsAgree, CloseEnds
<1>3. RequestsAgree' /\ ServicesAgree'
  BY DEF RequestsAgree, ServicesAgree, CloseEnds
<1>4. ReloadAgrees' /\ RuntimeAgrees'
  BY NoDiscards DEF ReloadAgrees, RuntimeAgrees, CloseEnds, Drained, OpenIds,
     OpeningIds, DiscardingHandles
<1>r. \A g \in Handles : Holders(g)' = Holders(g)
  BY DEF CloseEnds, Holders
<1>5. RefsAgree'
  BY <1>r, RefsKept DEF CloseEnds
<1>d. DiscardingHandles' = DiscardingHandles
  BY DEF CloseEnds, DiscardingHandles
<1>6. DiscardsAgree'
  BY <1>d, DiscardsKept DEF CloseEnds
<1> QED BY <1>1, <1>2, <1>3, <1>4, <1>5, <1>6

LEMMA StutterKeeps ==
  ASSUME IInv, UNCHANGED vars
  PROVE  IInv'
BY DEF IInv, TypeOK, MapsAgree, ReservationsAgree, RequestsAgree, ServicesAgree,
       ReloadAgrees, RefsAgree, DiscardsAgree, RuntimeAgrees, Holders,
       DiscardingHandles, OpenIds, OpeningIds, closing, vars, mapVars, handleVars,
       callerVars, reloadVars, closeVars

\* The invariant ------------------------------------------------------------

LEMMA InitEstablishes == Init => IInv
<1> SUFFICES ASSUME Init PROVE IInv
  OBVIOUS
<1> USE RegistryAssumption DEF Init
<1>1. (\A h \in Handles : Holders(h) = {}) /\ DiscardingHandles = {}
  BY DEF Holders, DiscardingHandles
<1>2. RefsAgree /\ DiscardsAgree
  BY <1>1, FS_EmptySet DEF RefsAgree, DiscardsAgree
<1>3. TypeOK /\ MapsAgree /\ ReservationsAgree /\ RequestsAgree
  BY DEF TypeOK, Stages, MapsAgree, ReservationsAgree, RequestsAgree
<1>4. ServicesAgree /\ ReloadAgrees /\ RuntimeAgrees
  BY DEF ServicesAgree, ReloadAgrees, RuntimeAgrees
<1> QED BY <1>2, <1>3, <1>4 DEF IInv

LEMMA StepKeeps == IInv /\ [Next]_vars => IInv'
<1> SUFFICES ASSUME IInv, [Next]_vars PROVE IInv'
  OBVIOUS
<1>1. ASSUME NEW p \in Callers, \E id \in Ids : Request(p, id) PROVE IInv'
  BY <1>1, RequestKeeps
<1>2. ASSUME NEW p \in Callers, Answering(p) PROVE IInv'
  BY <1>2, RefuseClosingKeeps, RefuseUnknownKeeps, RefuseFullKeeps, BorrowKeeps,
     AwaitOpeningKeeps, ReserveKeeps, ReserveByEvictingKeeps DEF Answering
<1>3. ASSUME NEW p \in Callers, Opening(p) PROVE IInv'
  <2>1. FreshHandles \subseteq Handles
    BY DEF FreshHandles
  <2> QED
    BY <1>3, <2>1, BeginInitKeeps, OpenFailsKeeps, OpenSucceedsKeeps, OpenTooLateKeeps
    DEF Opening
<1>4. ASSUME NEW p \in Callers, Release(p) PROVE IInv'
  BY <1>4, ReleaseKeeps
<1>5. ASSUME NEW h \in Handles,
             IndexStarts(h) \/ IndexEnds(h) \/ Discarding(h) \/ SweepOne(h)
      PROVE  IInv'
  BY <1>5, IndexStartsKeeps, IndexEndsKeeps, BeginDiscardKeeps, CloseServiceKeeps,
     FinishDiscardKeeps, SweepOneKeeps DEF Discarding
<1>6. ASSUME NEW s \in Snapshots, ReloadLoad(s) PROVE IInv'
  BY <1>6, ReloadLoadKeeps
<1>7. CASE Reloading
  BY <1>7, ReloadRefusedKeeps, ReloadApplyKeeps, ReloadEndsKeeps DEF Reloading
<1>8. CASE CloseFlag \/ Closing
  BY <1>8, CloseFlagKeeps, CloseCancelKeeps, CloseSweepKeeps, CloseEndsKeeps DEF Closing
<1>9. CASE UNCHANGED vars
  BY <1>9, StutterKeeps
<1> QED
  BY <1>1, <1>2, <1>3, <1>4, <1>5, <1>6, <1>7, <1>8, <1>9 DEF Next

\* The inductive invariant of the registry holds throughout.
THEOREM RegistryInvariant == Spec => []IInv
BY InitEstablishes, StepKeeps, PTL DEF Spec

\* Every variable keeps its type.
THEOREM TypeCorrect == Spec => []TypeOK
<1>1. IInv => TypeOK
  BY DEF IInv
<1> QED BY <1>1, RegistryInvariant, PTL

\* A service that a request holds is the open one and stays so until the
\* request releases it, whatever is evicted, reloaded or closed meanwhile.
THEOREM HeldServiceStaysOpen == Spec => []HeldServiceIsOpen
<1>1. IInv => HeldServiceIsOpen
  BY DEF IInv, RequestsAgree, HeldServiceIsOpen
<1> QED BY <1>1, RegistryInvariant, PTL

\* No request is served by a service built from a replaced registration.
THEOREM RegistrationIsCurrent == Spec => []ServesCurrentRegistration
<1>1. IInv => ServesCurrentRegistration
  BY DEF IInv, MapsAgree, ServesCurrentRegistration, OpenIds
<1> QED BY <1>1, RegistryInvariant, PTL

\* A collection never has two services that are starting or open, and none
\* while a reload reserves it.
THEOREM ServiceIsUnique == Spec => []OneActiveService
<1>1. ASSUME IInv PROVE OneActiveService
  <2> SUFFICES ASSUME NEW id \in Ids,
                      NEW g \in Handles, home[g] = id, stage[g] \in {"starting", "open"}
               PROVE  /\ \A h \in Handles : home[h] = id /\ stage[h] \in {"starting", "open"} => g = h
                      /\ opening[id] # Reload
    BY DEF OneActiveService
  <2> USE RegistryAssumption DEF IInv, MapsAgree, ReservationsAgree, RequestsAgree,
     ServicesAgree
  <2>1. CASE stage[g] = "open"
    BY <1>1, <2>1
  <2>2. CASE stage[g] = "starting"
    BY <1>1, <2>2
  <2> QED BY <2>1, <2>2
<1> QED BY <1>1, RegistryInvariant, PTL

\* When the runtime is torn down no service is starting, open or being
\* discarded: only those that Close itself closes may still be there.
THEOREM RuntimeIsTornDownLast == Spec => []RuntimeAfterDrain
<1>1. ASSUME IInv, runtimeDone, NEW h \in Handles, stage[h] \notin {"free", "discarded"}
      PROVE  stage[h] = "sweeping"
  <2> USE RegistryAssumption DEF IInv, RuntimeAgrees, OpenIds, OpeningIds
  <2>1. stage[h] # "open"
    BY <1>1 DEF MapsAgree
  <2>2. stage[h] # "starting"
    BY <1>1 DEF ServicesAgree, ReservationsAgree
  <2>3. stage[h] # "detached"
    BY <1>1 DEF ServicesAgree, ReservationsAgree
  <2>4. stage[h] # "discarding"
    BY <1>1 DEF DiscardingHandles
  <2> QED
    BY <1>1, <2>1, <2>2, <2>3, <2>4 DEF TypeOK, Stages
<1>2. IInv => RuntimeAfterDrain
  BY <1>1 DEF RuntimeAfterDrain, Live
<1> QED BY <1>2, RegistryInvariant, PTL

---------------------------------------------------------------------------
\* Slots --------------------------------------------------------------------

\* A set whose every element is some f[s] has no more elements than S.
LEMMA ImageBound ==
  ASSUME NEW S, IsFiniteSet(S), NEW T, NEW f, \A t \in T : \E s \in S : f[s] = t
  PROVE  Cardinality(T) <= Cardinality(S)
<1> DEFINE R == {f[s] : s \in S}  g == [s \in S |-> f[s]]
<1>1. g \in Surjection(S, R)
  BY DEF Surjection
<1>2. IsFiniteSet(R) /\ Cardinality(R) <= Cardinality(S)
  BY <1>1, FS_Surjection
<1>3. T \in SUBSET R
  OBVIOUS
<1>4. Cardinality(T) <= Cardinality(R) /\ IsFiniteSet(T)
  BY <1>2, <1>3, FS_Subset
<1> QED BY <1>2, <1>4, FS_CardinalityType

\* Disjoint sets count separately.
LEMMA DisjointSum ==
  ASSUME NEW S, NEW T, IsFiniteSet(S), IsFiniteSet(T), S \cap T = {}
  PROVE  IsFiniteSet(S \cup T) /\ Cardinality(S \cup T) = Cardinality(S) + Cardinality(T)
<1>1. /\ IsFiniteSet(S \cup T)
      /\ Cardinality(S \cup T) = Cardinality(S) + Cardinality(T) - Cardinality(S \cap T)
  BY FS_Union
<1>2. Cardinality(S \cap T) = 0
  BY FS_EmptySet
<1>3. Cardinality(S) \in Nat /\ Cardinality(T) \in Nat
  BY FS_CardinalityType
<1> QED BY <1>1, <1>2, <1>3

\* An element added.
LEMMA OneMore ==
  ASSUME NEW S, NEW x, IsFiniteSet(S)
  PROVE  Cardinality(S \cup {x}) <= Cardinality(S) + 1
<1>1. Cardinality(S) \in Nat
  BY FS_CardinalityType
<1>2. Cardinality(S \cup {x}) = IF x \in S THEN Cardinality(S) ELSE Cardinality(S) + 1
  BY FS_AddElement
<1> QED BY <1>1, <1>2

\* An element removed.
LEMMA OneLess ==
  ASSUME NEW S, NEW x, IsFiniteSet(S)
  PROVE  Cardinality(S \ {x}) <= Cardinality(S)
<1>1. S \ {x} \in SUBSET S
  OBVIOUS
<1> QED BY <1>1, FS_Subset

\* The services and the pledges can be counted.
LEMMA SlotsCounted ==
  /\ IsFiniteSet(Live) /\ IsFiniteSet(Pledged)
  /\ Cardinality(Live) \in Nat /\ Cardinality(Pledged) \in Nat
<1>1. Live \in SUBSET Handles /\ Pledged \in SUBSET Callers
  BY DEF Live, Pledged
<1> QED BY <1>1, FS_Subset, FS_CardinalityType, RegistryAssumption

\* So can those of the next state.
LEMMA SlotsCountedNext ==
  /\ IsFiniteSet(Live') /\ IsFiniteSet(Pledged')
  /\ Cardinality(Live') \in Nat /\ Cardinality(Pledged') \in Nat
<1>1. Live' \in SUBSET Handles /\ Pledged' \in SUBSET Callers
  BY DEF Live, Pledged
<1> QED BY <1>1, FS_Subset, FS_CardinalityType, RegistryAssumption

\* A limit is a number.
LEMMA LimitsAreNat == \A limit \in Limits : limit \in Nat
BY RegistryAssumption DEF Limits

\* While the registry is not closing, every service and every pledge has an
\* open or reserved workspace of its own.
LEMMA SlotsAreWorkspaces ==
  ASSUME IInv, SlotsAgree, ~closing
  PROVE  Cardinality(Live) + Cardinality(Pledged) <= Occupied
<1> USE RegistryAssumption DEF IInv
<1> DEFINE A == {id \in OpeningIds : opening[id] \in Pledged}
           B == (OpenIds \cup OpeningIds) \ A
           at == [id \in Ids |-> IF open[id] # None THEN open[id]
                  ELSE IF opening[id] = Reload THEN CHOOSE h \in dropping : home[h] = id
                  ELSE mine[opening[id]]]
<1>1. OpenIds \in SUBSET Ids /\ OpeningIds \in SUBSET Ids /\ OpenIds \cap OpeningIds = {}
  BY DEF OpenIds, OpeningIds, MapsAgree
<1>2. IsFiniteSet(OpenIds) /\ IsFiniteSet(OpeningIds)
  BY <1>1, FS_Subset
<1>3. Occupied = Cardinality(OpenIds \cup OpeningIds) /\ IsFiniteSet(OpenIds \cup OpeningIds)
  BY <1>1, <1>2, DisjointSum DEF Occupied
<1>4. /\ IsFiniteSet(A) /\ IsFiniteSet(B)
      /\ Occupied = Cardinality(A) + Cardinality(B)
      /\ Cardinality(A) \in Nat /\ Cardinality(B) \in Nat
  <2>1. A \in SUBSET (OpenIds \cup OpeningIds) /\ B \in SUBSET (OpenIds \cup OpeningIds)
    OBVIOUS
  <2>2. IsFiniteSet(A) /\ IsFiniteSet(B)
    BY <1>3, <2>1, FS_Subset
  <2>3. A \cup B = OpenIds \cup OpeningIds /\ A \cap B = {}
    OBVIOUS
  <2> HIDE DEF A, B
  <2>4. Cardinality(A \cup B) = Cardinality(A) + Cardinality(B)
    BY <2>2, <2>3, DisjointSum
  <2> QED BY <1>3, <2>2, <2>3, <2>4, FS_CardinalityType
<1>5. Cardinality(Pledged) <= Cardinality(A)
  <2>1. \A p \in Pledged : \E id \in A : opening[id] = p
    BY DEF Pledged, ReservationsAgree, OpeningIds
  <2> HIDE DEF A
  <2> QED BY <1>4, <2>1, ImageBound
<1>6. ASSUME NEW h \in Live PROVE \E id \in B : at[id] = h
  <2>0. h \in Handles /\ stage[h] \notin {"free", "discarded", "sweeping"}
    BY <1>6 DEF Live, SlotsAgree
  <2>1. CASE stage[h] = "open"
    <3>1. home[h] \in Ids /\ open[home[h]] = h /\ opening[home[h]] = None
      BY <2>0, <2>1 DEF MapsAgree
    <3>2. home[h] \in B /\ at[home[h]] = h
      BY <2>0, <3>1 DEF OpenIds, OpeningIds
    <3> QED BY <3>2
  <2>2. ASSUME NEW p \in Callers, pc[p] \in {"reserved", "starting"}, mine[p] = h, p \notin Pledged
        PROVE  \E id \in B : at[id] = h
    <3>1. want[p] \in Ids /\ opening[want[p]] = p
      BY <2>2 DEF ReservationsAgree
    <3>2. open[want[p]] = None
      BY <3>1 DEF MapsAgree
    <3>3. want[p] \in B /\ at[want[p]] = h
      BY <2>2, <3>1, <3>2 DEF OpeningIds
    <3> QED BY <3>3
  <2>3. CASE stage[h] = "starting"
    <3>1. PICK p \in Callers : pc[p] = "starting" /\ mine[p] = h
      BY <2>0, <2>3 DEF ServicesAgree
    <3> QED BY <2>2, <3>1 DEF Pledged
  <2>4. CASE stage[h] \in {"detached", "discarding"}
    <3>1. CASE h \in dropping
      <4>1. home[h] \in Ids /\ opening[home[h]] = Reload
        BY <3>1 DEF ServicesAgree
      <4>2. open[home[h]] = None
        BY <4>1 DEF MapsAgree
      <4>3. (CHOOSE g \in dropping : home[g] = home[h]) = h
        BY <3>1 DEF SlotsAgree
      <4>4. home[h] \in B
        BY <4>1 DEF OpeningIds, Pledged
      <4>5. at[home[h]] = h
        BY <4>1, <4>2, <4>3
      <4> QED BY <4>4, <4>5
    <3>2. CASE \E p \in Callers : pc[p] = "reserved" /\ mine[p] = h
      <4>1. PICK p \in Callers : pc[p] = "reserved" /\ mine[p] = h
        BY <3>2
      <4>2. p \notin Pledged
        BY <2>0, <4>1 DEF Pledged
      <4> QED BY <2>2, <4>1, <4>2
    <3> QED BY <2>0, <2>4, <3>1, <3>2 DEF ServicesAgree, SlotsAgree
  <2> QED BY <2>0, <2>1, <2>3, <2>4 DEF TypeOK, Stages
<1>7. Cardinality(Live) <= Cardinality(B)
  <2> HIDE DEF B, at
  <2> QED BY <1>4, <1>6, ImageBound
<1> HIDE DEF A, B
<1> QED BY <1>4, <1>5, <1>7, SlotsCounted

\* No more services and pledges than before are still within the limit.
LEMMA SlotsStillSuffice ==
  ASSUME SlotsSuffice,
         Cardinality(Live') + Cardinality(Pledged') <= Cardinality(Live) + Cardinality(Pledged)
  PROVE  SlotsSuffice'
<1>1. PICK limit \in Limits : Cardinality(Live) + Cardinality(Pledged) <= limit
  BY DEF SlotsSuffice
<1>2. Cardinality(Live') + Cardinality(Pledged') <= limit
  BY <1>1, SlotsCounted, SlotsCountedNext, LimitsAreNat
<1> QED BY <1>2 DEF SlotsSuffice, Limits

\* Steps that touch no service and no reservation.
LEMMA SlotsKept ==
  ASSUME SlotInv, UNCHANGED <<stage, home, dropping>>, closing => closing',
         \A p \in Callers : /\ pc'[p] = "reserved" <=> pc[p] = "reserved"
                            /\ pc[p] = "reserved" => mine'[p] = mine[p]
  PROVE  SlotsAgree' /\ SlotsSuffice'
<1>1. SlotsAgree'
  BY DEF SlotInv, SlotsAgree
<1>2. Live' = Live
  BY DEF Live
<1>3. Pledged' = Pledged
  BY DEF Pledged
<1>4. Cardinality(Live') + Cardinality(Pledged') <= Cardinality(Live) + Cardinality(Pledged)
  BY <1>2, <1>3, SlotsCounted
<1> QED BY <1>1, <1>4, SlotsStillSuffice DEF SlotInv

\* Steps that leave the services and the pledges the same.
LEMMA SlotsSame ==
  ASSUME SlotInv, Live' = Live, Pledged' = Pledged
  PROVE  SlotsSuffice'
BY SlotsCounted, SlotsStillSuffice DEF SlotInv

\* Steps of the requests, the services and the reload that keep to their slots.
LEMMA QuietSlots ==
  ASSUME SlotInv,
         \/ \E p \in Callers : \/ \E id \in Ids : Request(p, id)
                               \/ RefuseClosing(p) \/ RefuseUnknown(p) \/ RefuseFull(p)
                               \/ Borrow(p) \/ AwaitOpening(p)
         \/ \E h \in Handles : IndexStarts(h) \/ IndexEnds(h)
         \/ (\E s \in Snapshots : ReloadLoad(s)) \/ ReloadRefused \/ ReloadEnds
         \/ CloseFlag \/ CloseCancel \/ CloseEnds \/ UNCHANGED vars
  PROVE  SlotsAgree' /\ SlotsSuffice'
<1> USE DEF SlotInv, IInv, TypeOK, closing, vars, mapVars, handleVars, callerVars, reloadVars, closeVars
<1>1. CASE \E p \in Callers : \/ \E id \in Ids : Request(p, id)
                              \/ RefuseClosing(p) \/ RefuseUnknown(p) \/ RefuseFull(p)
                              \/ Borrow(p) \/ AwaitOpening(p)
  BY <1>1, SlotsKept DEF Request, RefuseClosing, RefuseUnknown, RefuseFull, AnswerError,
     Borrow, AwaitOpening, MustOpen
<1>2. CASE \E h \in Handles : IndexStarts(h) \/ IndexEnds(h)
  BY <1>2, SlotsKept DEF IndexStarts, IndexEnds
<1>3. CASE (\E s \in Snapshots : ReloadLoad(s)) \/ ReloadRefused \/ ReloadEnds
  BY <1>3, SlotsKept DEF ReloadLoad, ReloadRefused, ReloadEnds
<1>4. CASE CloseFlag \/ CloseCancel \/ CloseEnds \/ UNCHANGED vars
  BY <1>4, SlotsKept DEF CloseFlag, CloseCancel, CloseEnds
<1> QED BY <1>1, <1>2, <1>3, <1>4

\* A reservation is a new pledge, and finds fewer workspaces than the limit.
LEMMA ReserveSlots ==
  ASSUME SlotInv, NEW p \in Callers, Reserve(p)
  PROVE  SlotsAgree' /\ SlotsSuffice'
<1> USE RegistryAssumption DEF SlotInv
<1>1. /\ pc[p] = "asking" /\ ~closing /\ ~Full
      /\ pc' = [pc EXCEPT ![p] = "reserved"]
      /\ UNCHANGED <<cfg, open, stage, home, mine, dropping, closer>>
  BY DEF Reserve, TakeReservation, MustOpen, handleVars, reloadVars, closeVars
<1>2. mine[p] = None
  BY <1>1 DEF IInv, RequestsAgree
<1>3. SlotsAgree'
  BY <1>1, <1>2 DEF SlotsAgree, closing, IInv, TypeOK
<1>4. Live' = Live /\ Pledged' = Pledged \cup {p}
  BY <1>1, <1>2 DEF Live, Pledged, IInv, TypeOK
<1>5. Cardinality(Pledged') <= Cardinality(Pledged) + 1
  BY <1>4, SlotsCounted, OneMore
<1>6. Cardinality(Live) + Cardinality(Pledged) <= Occupied
  BY <1>1, SlotsAreWorkspaces
<1>7. cfg.max \in Limits /\ cfg.max \in Nat
  BY DEF Limits, IInv, TypeOK
<1>8. Occupied \in Nat
  <2>1. OpenIds \in SUBSET Ids /\ OpeningIds \in SUBSET Ids
    BY DEF OpenIds, OpeningIds
  <2> QED BY <2>1, FS_Subset, FS_CardinalityType DEF Occupied
<1>9. Cardinality(Live') + Cardinality(Pledged') <= cfg.max
  BY <1>1, <1>4, <1>5, <1>6, <1>7, <1>8, SlotsCounted, SlotsCountedNext DEF Full
<1> QED BY <1>3, <1>7, <1>9 DEF SlotsSuffice, Limits

\* An eviction hands the slot of the evicted service to the request.
LEMMA EvictSlots ==
  ASSUME SlotInv, NEW p \in Callers, ReserveByEvicting(p)
  PROVE  SlotsAgree' /\ SlotsSuffice'
<1> USE RegistryAssumption DEF SlotInv, IInv, TypeOK
<1>1. PICK old \in IdleIds :
        /\ stage' = [stage EXCEPT ![open[old]] = "detached"]
        /\ mine' = [mine EXCEPT ![p] = open[old]]
  BY DEF ReserveByEvicting
<1>2. /\ pc[p] = "asking" /\ ~closing
      /\ pc' = [pc EXCEPT ![p] = "reserved"]
      /\ UNCHANGED <<home, dropping, closer>>
  BY DEF ReserveByEvicting, TakeReservation, MustOpen, reloadVars, closeVars
<1>3. open[old] \in Handles /\ stage[open[old]] = "open"
  BY DEF IdleIds, OpenIds, MapsAgree
<1>4. \A q \in Callers : pc[q] = "reserved" => mine[q] # open[old]
  BY <1>3 DEF RequestsAgree
<1>5. SlotsAgree'
  BY <1>1, <1>2, <1>3, <1>4 DEF SlotsAgree, closing
<1>6. Live' = Live
  BY <1>1, <1>3 DEF Live
<1>7. Pledged' = Pledged
  BY <1>1, <1>2, <1>3, <1>4 DEF Pledged
<1> QED BY <1>5, <1>6, <1>7, SlotsSame

\* The service that is started takes the place of its pledge.
LEMMA BeginSlots ==
  ASSUME SlotInv, NEW p \in Callers, NEW h \in Handles, BeginInit(p, h)
  PROVE  SlotsAgree' /\ SlotsSuffice'
<1> USE RegistryAssumption DEF SlotInv, IInv, TypeOK
<1>1. /\ pc[p] = "reserved" /\ mine[p] = None /\ stage[h] = "free"
      /\ stage' = [stage EXCEPT ![h] = "starting"] /\ home' = [home EXCEPT ![h] = want[p]]
      /\ pc' = [pc EXCEPT ![p] = "starting"] /\ mine' = [mine EXCEPT ![p] = h]
      /\ UNCHANGED <<dropping, closer>>
  BY DEF BeginInit, reloadVars, closeVars
<1>2. h \notin dropping /\ \A q \in Callers : pc[q] = "reserved" => mine[q] # h
  BY <1>1 DEF ServicesAgree, RequestsAgree
<1>3. SlotsAgree'
  BY <1>1, <1>2 DEF SlotsAgree, closing
<1>4. Live' = Live \cup {h} /\ h \notin Live
  BY <1>1 DEF Live
<1>5. Pledged' = Pledged \ {p} /\ p \in Pledged
  BY <1>1, <1>2 DEF Pledged
<1>6. Cardinality(Live') = Cardinality(Live) + 1
  BY <1>4, SlotsCounted, FS_AddElement
<1>7. Cardinality(Pledged') = Cardinality(Pledged) - 1
  BY <1>5, SlotsCounted, FS_RemoveElement
<1> QED BY <1>3, <1>6, <1>7, SlotsCounted, SlotsStillSuffice

\* A failed cold open gives up its pledge, or its service.
LEMMA FailSlots ==
  ASSUME SlotInv, NEW p \in Callers, OpenFails(p)
  PROVE  SlotsAgree' /\ SlotsSuffice'
<1> USE RegistryAssumption DEF SlotInv, IInv, TypeOK
<1>1. /\ \A q \in Callers : pc'[q] = "reserved" <=> q # p /\ pc[q] = "reserved"
      /\ mine' = [mine EXCEPT ![p] = None] /\ UNCHANGED <<dropping, closer>>
  BY DEF OpenFails, EndReservation, reloadVars, closeVars
<1>2. CASE pc[p] = "reserved"
  <2>1. UNCHANGED <<stage, home>>
    BY <1>2 DEF OpenFails
  <2>2. SlotsAgree'
    <3>1. mine[p] = None
      BY <1>2 DEF OpenFails
    <3> QED BY <1>1, <2>1, <3>1 DEF SlotsAgree, closing
  <2>3. Live' = Live /\ Pledged' = Pledged \ {p}
    BY <1>1, <2>1 DEF Live, Pledged
  <2>4. Cardinality(Pledged') <= Cardinality(Pledged)
    BY <2>3, SlotsCounted, OneLess
  <2> QED BY <2>2, <2>3, <2>4, SlotsCounted, SlotsCountedNext, SlotsStillSuffice
<1>3. CASE pc[p] = "starting"
  <2>1. stage' = [stage EXCEPT ![mine[p]] = "free"] /\ home' = [home EXCEPT ![mine[p]] = None]
    BY <1>3 DEF OpenFails, Vacate
  <2>2. mine[p] \in Handles /\ stage[mine[p]] = "starting" /\ mine[p] \notin dropping
    BY <1>3 DEF RequestsAgree, ServicesAgree
  <2>3. \A q \in Callers : pc[q] = "reserved" => mine[q] # mine[p]
    BY <2>2 DEF RequestsAgree
  <2>4. SlotsAgree'
    BY <1>1, <1>3, <2>1, <2>2, <2>3 DEF SlotsAgree, closing
  <2>5. Live' = Live \ {mine[p]}
    BY <2>1, <2>2 DEF Live
  <2>6. Pledged' = Pledged
    BY <1>1, <1>3, <2>1, <2>2, <2>3 DEF Pledged
  <2>7. Cardinality(Live') <= Cardinality(Live)
    BY <2>5, SlotsCounted, OneLess
  <2> QED BY <2>4, <2>6, <2>7, SlotsCounted, SlotsCountedNext, SlotsStillSuffice
<1> QED BY <1>2, <1>3 DEF OpenFails

\* A started service comes into the map, or is discarded since Close has begun.
LEMMA OpenedSlots ==
  ASSUME SlotInv, NEW p \in Callers, OpenSucceeds(p) \/ OpenTooLate(p)
  PROVE  SlotsAgree' /\ SlotsSuffice'
<1> USE RegistryAssumption DEF SlotInv, IInv, TypeOK
<1>1. /\ pc[p] = "starting"
      /\ \A q \in Callers : pc'[q] = "reserved" <=> pc[q] = "reserved"
      /\ UNCHANGED <<mine, home, dropping, closer>>
  BY DEF OpenSucceeds, OpenTooLate, EndReservation, reloadVars, closeVars
<1>2. mine[p] \in Handles /\ stage[mine[p]] = "starting"
  BY <1>1 DEF RequestsAgree
<1>3. \/ stage' = [stage EXCEPT ![mine[p]] = "open"]
      \/ stage' = [stage EXCEPT ![mine[p]] = "discarding"] /\ closing
  BY DEF OpenSucceeds, OpenTooLate
<1>4. \A q \in Callers : pc[q] = "reserved" => mine[q] # mine[p]
  BY <1>2 DEF RequestsAgree
<1>5. SlotsAgree'
  BY <1>1, <1>2, <1>3 DEF SlotsAgree, closing
<1>6. Live' = Live
  BY <1>2, <1>3 DEF Live
<1>7. Pledged' = Pledged
  BY <1>1, <1>2, <1>3, <1>4 DEF Pledged
<1> QED BY <1>5, <1>6, <1>7, SlotsSame

\* A release lets a service go only when Close has begun.
LEMMA ReleaseSlots ==
  ASSUME SlotInv, NEW p \in Callers, Release(p)
  PROVE  SlotsAgree' /\ SlotsSuffice'
<1> USE RegistryAssumption DEF SlotInv, IInv, TypeOK
<1>1. /\ pc[p] = "holding" /\ pc' = [pc EXCEPT ![p] = "idle"] /\ mine' = [mine EXCEPT ![p] = None]
      /\ UNCHANGED <<home, dropping, closer>>
  BY DEF Release, reloadVars
<1>2. mine[p] \in Handles /\ stage[mine[p]] = "open"
  BY <1>1 DEF RequestsAgree
<1>3. stage' = stage \/ (stage' = [stage EXCEPT ![mine[p]] = "discarding"] /\ closing)
  BY DEF Release
<1>4. \A q \in Callers : pc[q] = "reserved" => mine[q] # mine[p]
  BY <1>2 DEF RequestsAgree
<1>5. SlotsAgree'
  BY <1>1, <1>2, <1>3 DEF SlotsAgree, closing
<1>6. Live' = Live
  BY <1>2, <1>3 DEF Live
<1>7. Pledged' = Pledged
  BY <1>1, <1>2, <1>3, <1>4 DEF Pledged
<1> QED BY <1>5, <1>6, <1>7, SlotsSame

\* A discard is begun, and its service closes: the request that evicted it, the
\* only one, has its pledge again.
LEMMA DiscardSlots ==
  ASSUME SlotInv, NEW h \in Handles, BeginDiscard(h) \/ CloseService(h)
  PROVE  SlotsAgree' /\ SlotsSuffice'
<1> USE RegistryAssumption DEF SlotInv, IInv, TypeOK
<1>1. UNCHANGED <<pc, mine, home, dropping, closer>>
  BY DEF BeginDiscard, CloseService, callerVars, reloadVars
<1>2. CASE BeginDiscard(h)
  <2>1. stage[h] = "detached" /\ stage' = [stage EXCEPT ![h] = "discarding"]
    BY <1>2 DEF BeginDiscard
  <2>2. SlotsAgree'
    BY <1>1, <2>1 DEF SlotsAgree, ServicesAgree, closing
  <2>3. Live' = Live
    BY <2>1 DEF Live
  <2>4. Pledged' = Pledged
    BY <1>1, <2>1 DEF Pledged
  <2> QED BY <2>2, <2>3, <2>4, SlotsSame
<1>3. CASE CloseService(h)
  <2>1. stage[h] = "discarding" /\ stage' = [stage EXCEPT ![h] = "discarded"]
    BY <1>3 DEF CloseService
  <2>2. SlotsAgree'
    BY <1>1, <2>1 DEF SlotsAgree, closing
  <2>3. Live' = Live \ {h} /\ h \in Live
    BY <2>1 DEF Live
  <2>4. Cardinality(Live') = Cardinality(Live) - 1
    BY <2>3, SlotsCounted, FS_RemoveElement
  <2>5. Cardinality(Pledged') <= Cardinality(Pledged) + 1
    <3>1. CASE \E p \in Callers : pc[p] = "reserved" /\ mine[p] = h
      <4>1. PICK p \in Callers : pc[p] = "reserved" /\ mine[p] = h
        BY <3>1
      <4>2. \A q \in Callers : pc[q] = "reserved" /\ mine[q] = h => q = p
        BY <4>1 DEF SlotsAgree
      <4>3. Pledged' = Pledged \cup {p}
        BY <1>1, <2>1, <4>1, <4>2 DEF Pledged
      <4> QED BY <4>3, SlotsCounted, OneMore
    <3>2. CASE ~\E p \in Callers : pc[p] = "reserved" /\ mine[p] = h
      <4>1. Pledged' = Pledged
        BY <1>1, <2>1, <3>2 DEF Pledged
      <4> QED BY <4>1, SlotsCounted
    <3> QED BY <3>1, <3>2
  <2> QED BY <2>2, <2>4, <2>5, SlotsCounted, SlotsCountedNext, SlotsStillSuffice
<1> QED BY <1>2, <1>3

\* A discard ends: its handle, already closed, is forgotten everywhere.
LEMMA FinishSlots ==
  ASSUME SlotInv, NEW h \in Handles, FinishDiscard(h)
  PROVE  SlotsAgree' /\ SlotsSuffice'
<1> USE RegistryAssumption DEF SlotInv, IInv, TypeOK
<1>1. /\ stage[h] = "discarded" /\ stage' = [stage EXCEPT ![h] = "free"]
      /\ home' = [home EXCEPT ![h] = None]
      /\ mine' = [p \in Callers |-> IF mine[p] = h THEN None ELSE mine[p]]
      /\ dropping' = dropping \ {h} /\ closer' = closer
      /\ \A p \in Callers : pc'[p] = "reserved" <=> pc[p] = "reserved"
  BY DEF FinishDiscard, Vacate
<1>2. SlotsAgree'
  <2>1. \A p, q \in Callers :
          pc'[p] = "reserved" /\ pc'[q] = "reserved" /\ mine'[p] # None /\ mine'[p] = mine'[q] => p = q
    BY <1>1 DEF SlotsAgree
  <2>2. \A f, g \in dropping' : home'[f] = home'[g] => f = g
    BY <1>1 DEF SlotsAgree
  <2>3. closer' = "none" => \A g \in Handles :
          /\ stage'[g] # "sweeping"
          /\ stage'[g] = "discarding" => g \in dropping' \/ \E p \in Callers : pc'[p] = "reserved" /\ mine'[p] = g
    BY <1>1 DEF SlotsAgree, closing
  <2> QED BY <2>1, <2>2, <2>3 DEF SlotsAgree, closing
<1>3. Live' = Live
  BY <1>1 DEF Live
<1>4. Pledged' = Pledged
  BY <1>1 DEF Pledged
<1> QED BY <1>2, <1>3, <1>4, SlotsSame

\* A reload drops open services, one of each workspace it changes.
LEMMA ApplySlots ==
  ASSUME SlotInv, ReloadApply
  PROVE  SlotsAgree' /\ SlotsSuffice'
<1> USE RegistryAssumption DEF SlotInv, IInv, TypeOK
<1> DEFINE S == {open[id] : id \in Changed \cap OpenIds}
<1>1. \A h \in S : h \in Handles /\ stage[h] = "open" /\ home[h] \in Ids /\ open[home[h]] = h
  BY DEF OpenIds, MapsAgree
<1>2. /\ stage' = [h \in Handles |-> IF h \in S THEN "detached" ELSE stage[h]]
      /\ dropping' = S /\ dropping = {} /\ UNCHANGED <<home, pc, mine, closer>>
  BY DEF ReloadApply, ReloadAgrees, callerVars, closeVars
<1>3. \A p \in Callers : pc[p] = "reserved" => mine[p] \notin S
  BY <1>1 DEF RequestsAgree
<1> HIDE DEF S
<1>4. SlotsAgree'
  BY <1>1, <1>2, <1>3 DEF SlotsAgree, closing
<1>5. Live' = Live
  BY <1>1, <1>2 DEF Live
<1>6. Pledged' = Pledged
  BY <1>1, <1>2, <1>3 DEF Pledged
<1> QED BY <1>4, <1>5, <1>6, SlotsSame

\* Close takes the idle services out of the map, and closes them.
LEMMA SweepSlots ==
  ASSUME SlotInv, CloseSweep \/ \E h \in Handles : SweepOne(h)
  PROVE  SlotsAgree' /\ SlotsSuffice'
<1> USE RegistryAssumption DEF SlotInv, IInv, TypeOK
<1>1. CASE CloseSweep
  <2> DEFINE S == {open[id] : id \in IdleIds}
  <2>1. \A h \in S : h \in Handles /\ stage[h] = "open"
    BY DEF IdleIds, OpenIds, MapsAgree
  <2>2. /\ stage' = [h \in Handles |-> IF h \in S THEN "sweeping" ELSE stage[h]]
        /\ closer' # "none" /\ UNCHANGED <<home, pc, mine, dropping>>
    BY <1>1 DEF CloseSweep, callerVars, reloadVars
  <2>3. \A p \in Callers : pc[p] = "reserved" => mine[p] \notin S
    BY <2>1 DEF RequestsAgree
  <2> HIDE DEF S
  <2>4. SlotsAgree'
    BY <2>2 DEF SlotsAgree, closing
  <2>5. Live' = Live
    BY <2>1, <2>2 DEF Live
  <2>6. Pledged' = Pledged
    BY <2>1, <2>2, <2>3 DEF Pledged
  <2> QED BY <2>4, <2>5, <2>6, SlotsSame
<1>2. ASSUME NEW h \in Handles, SweepOne(h) PROVE SlotsAgree' /\ SlotsSuffice'
  <2>1. /\ stage[h] = "sweeping" /\ stage' = [stage EXCEPT ![h] = "free"]
        /\ home' = [home EXCEPT ![h] = None] /\ UNCHANGED <<pc, mine, dropping, closer>>
    BY <1>2 DEF SweepOne, Vacate, callerVars, reloadVars, closeVars
  <2>2. h \notin dropping /\ \A p \in Callers : pc[p] = "reserved" => mine[p] # h
    BY <2>1 DEF ServicesAgree, RequestsAgree
  <2>3. SlotsAgree'
    BY <2>1, <2>2 DEF SlotsAgree, closing
  <2>4. Live' = Live \ {h}
    BY <2>1 DEF Live
  <2>5. Pledged' = Pledged
    BY <2>1, <2>2 DEF Pledged
  <2>6. Cardinality(Live') <= Cardinality(Live)
    BY <2>4, SlotsCounted, OneLess
  <2> QED BY <2>3, <2>5, <2>6, SlotsCounted, SlotsCountedNext, SlotsStillSuffice
<1> QED BY <1>1, <1>2

\* At first there are neither services nor pledges.
LEMMA InitSlots == Init => SlotInv
<1> SUFFICES ASSUME Init PROVE SlotsAgree /\ SlotsSuffice
  BY InitEstablishes DEF SlotInv
<1> USE RegistryAssumption DEF Init
<1>1. SlotsAgree
  BY DEF SlotsAgree
<1>2. Live = {} /\ Pledged = {}
  BY DEF Live, Pledged
<1>3. Cardinality(Live) = 0 /\ Cardinality(Pledged) = 0
  BY <1>2, FS_EmptySet
<1>4. cfg.max \in Limits /\ cfg.max \in Nat
  BY DEF Limits
<1> QED BY <1>1, <1>3, <1>4 DEF SlotsSuffice

\* Every step keeps to the limit.
LEMMA SlotStep == SlotInv /\ [Next]_vars => SlotInv'
<1> SUFFICES ASSUME SlotInv, [Next]_vars PROVE SlotsAgree' /\ SlotsSuffice'
  BY StepKeeps DEF SlotInv
<1>1. ASSUME NEW p \in Callers, \E id \in Ids : Request(p, id) PROVE SlotsAgree' /\ SlotsSuffice'
  BY <1>1, QuietSlots
<1>2. ASSUME NEW p \in Callers, Answering(p) PROVE SlotsAgree' /\ SlotsSuffice'
  BY <1>2, QuietSlots, ReserveSlots, EvictSlots DEF Answering
<1>3. ASSUME NEW p \in Callers, Opening(p) PROVE SlotsAgree' /\ SlotsSuffice'
  <2>1. FreshHandles \subseteq Handles
    BY DEF FreshHandles
  <2> QED BY <1>3, <2>1, BeginSlots, FailSlots, OpenedSlots DEF Opening
<1>4. ASSUME NEW p \in Callers, Release(p) PROVE SlotsAgree' /\ SlotsSuffice'
  BY <1>4, ReleaseSlots
<1>5. ASSUME NEW h \in Handles,
             IndexStarts(h) \/ IndexEnds(h) \/ Discarding(h) \/ SweepOne(h)
      PROVE  SlotsAgree' /\ SlotsSuffice'
  BY <1>5, QuietSlots, DiscardSlots, FinishSlots, SweepSlots DEF Discarding
<1>6. CASE (\E s \in Snapshots : ReloadLoad(s)) \/ Reloading
  BY <1>6, QuietSlots, ApplySlots DEF Reloading
<1>7. CASE CloseFlag \/ Closing \/ UNCHANGED vars
  BY <1>7, QuietSlots, SweepSlots DEF Closing
<1> QED BY <1>1, <1>2, <1>3, <1>4, <1>5, <1>6, <1>7 DEF Next

\* However requests, evictions, reloads and Close interleave, the services that
\* exist, being started and being closed included, never outnumber the largest
\* max_open_workspaces that was in force (registry.go, BorrowService).
THEOREM LiveStaysWithinLimit == Spec => []LiveWithinLimit
<1>1. SlotInv => LiveWithinLimit
  BY SlotsCounted, LimitsAreNat DEF SlotInv, SlotsSuffice, LiveWithinLimit
<1>2. Spec => []SlotInv
  BY InitSlots, SlotStep, PTL DEF Spec
<1> QED BY <1>1, <1>2, PTL

---------------------------------------------------------------------------
(* The registry implements module ServiceLease: each step maps to a step   *)
(* of the lease or to a stutter.                                           *)

LEMMA LifeUpdate ==
  ASSUME stage \in [Handles -> Stages], NEW h \in Handles, NEW at,
         stage' = [stage EXCEPT ![h] = at]
  PROVE  leaseLife' = [leaseLife EXCEPT ![h] = LifeOf(at)]
BY DEF leaseLife

LEMMA LentUpdate ==
  ASSUME NEW h \in Handles, NEW S,
         \A g \in Handles : Holders(g)' = IF g = h THEN S ELSE Holders(g)
  PROVE  leaseLent' = [leaseLent EXCEPT ![h] = S]
BY DEF leaseLent

LEMMA LeaseRequest ==
  ASSUME IInv, NEW p \in Callers, NEW id \in Ids, Request(p, id)
  PROVE  UNCHANGED Lease!vars
BY RegistryAssumption DEF closing, handleVars, closeVars, Request, Lease!vars,
   leaseLife, leaseLent, Holders

LEMMA LeaseRefuseClosing ==
  ASSUME IInv, NEW p \in Callers, RefuseClosing(p)
  PROVE  UNCHANGED Lease!vars
BY RegistryAssumption DEF closing, handleVars, closeVars, RefuseClosing, AnswerError,
   Lease!vars, leaseLife, leaseLent, Holders

LEMMA LeaseRefuseUnknown ==
  ASSUME IInv, NEW p \in Callers, RefuseUnknown(p)
  PROVE  UNCHANGED Lease!vars
BY RegistryAssumption DEF closing, handleVars, closeVars, RefuseUnknown, AnswerError,
   Lease!vars, leaseLife, leaseLent, Holders

LEMMA LeaseRefuseFull ==
  ASSUME IInv, NEW p \in Callers, RefuseFull(p)
  PROVE  UNCHANGED Lease!vars
BY RegistryAssumption DEF closing, handleVars, closeVars, RefuseFull, AnswerError,
   MustOpen, Lease!vars, leaseLife, leaseLent, Holders

LEMMA LeaseAwaitOpening ==
  ASSUME IInv, NEW p \in Callers, AwaitOpening(p)
  PROVE  UNCHANGED Lease!vars
BY RegistryAssumption DEF closing, handleVars, closeVars, AwaitOpening, MustOpen,
   Lease!vars, leaseLife, leaseLent, Holders

LEMMA LeaseReserve ==
  ASSUME IInv, NEW p \in Callers, Reserve(p)
  PROVE  UNCHANGED Lease!vars
BY RegistryAssumption DEF closing, handleVars, closeVars, Reserve, TakeReservation,
   MustOpen, Lease!vars, leaseLife, leaseLent, Holders

LEMMA LeaseIndexStarts ==
  ASSUME IInv, NEW h \in Handles, IndexStarts(h)
  PROVE  UNCHANGED Lease!vars
BY RegistryAssumption DEF closing, callerVars, closeVars, IndexStarts, Lease!vars,
   leaseLife, leaseLent, Holders

LEMMA LeaseIndexEnds ==
  ASSUME IInv, NEW h \in Handles, IndexEnds(h)
  PROVE  UNCHANGED Lease!vars
BY RegistryAssumption DEF closing, callerVars, closeVars, IndexEnds, Lease!vars,
   leaseLife, leaseLent, Holders

LEMMA LeaseReloadLoad ==
  ASSUME IInv, NEW s \in Snapshots, ReloadLoad(s)
  PROVE  UNCHANGED Lease!vars
BY RegistryAssumption DEF closing, handleVars, callerVars, closeVars, ReloadLoad,
   Lease!vars, leaseLife, leaseLent, Holders

LEMMA LeaseReloadRefused ==
  ASSUME IInv, ReloadRefused
  PROVE  UNCHANGED Lease!vars
BY RegistryAssumption DEF closing, handleVars, callerVars, closeVars, ReloadRefused,
   Lease!vars, leaseLife, leaseLent, Holders

LEMMA LeaseReloadEnds ==
  ASSUME IInv, ReloadEnds
  PROVE  UNCHANGED Lease!vars
BY RegistryAssumption DEF closing, handleVars, closeVars, ReloadEnds, Lease!vars,
   leaseLife, leaseLent, Holders

LEMMA LeaseCloseCancel ==
  ASSUME IInv, CloseCancel
  PROVE  UNCHANGED Lease!vars
BY RegistryAssumption DEF closing, handleVars, callerVars, CloseCancel, Lease!vars,
   leaseLife, leaseLent, Holders

LEMMA LeaseBeginDiscard ==
  ASSUME IInv, NEW h \in Handles, BeginDiscard(h)
  PROVE  UNCHANGED Lease!vars
BY RegistryAssumption DEF closing, callerVars, BeginDiscard, Lease!vars, LifeOf,
   leaseLife, leaseLent, Holders

\* The steps that the lease sees.

LEMMA LeaseReserveByEvicting ==
  ASSUME IInv, NEW p \in Callers, ReserveByEvicting(p)
  PROVE  \E S \in SUBSET Handles : Lease!Stop(S)
<1> USE RegistryAssumption DEF IInv, TypeOK, RequestsAgree, closing, mapVars,
   handleVars, callerVars, reloadVars, closeVars
<1>1. PICK old \in IdleIds :
        /\ stage' = [stage EXCEPT ![open[old]] = "detached"]
        /\ mine' = [mine EXCEPT ![p] = open[old]]
  BY DEF ReserveByEvicting
<1>2. /\ open[old] \in Handles /\ stage[open[old]] = "open"
      /\ Holders(open[old]) = {}
  BY UnreferencedIsUnheld DEF IdleIds, OpenIds, MapsAgree
<1>3. leaseLent' = leaseLent
  BY <1>1 DEF ReserveByEvicting, TakeReservation, MustOpen, Lease!vars, LifeOf,
     leaseLife, leaseLent, Holders
<1>4. Lease!Stop({open[old]})
  BY <1>1, <1>2, <1>3 DEF ReserveByEvicting, Lease!Stop, LifeOf, leaseLife, leaseLent
<1> QED BY <1>2, <1>4

LEMMA LeaseBeginInit ==
  ASSUME IInv, NEW p \in Callers, NEW h \in Handles, BeginInit(p, h)
  PROVE  Lease!Start(h)
<1> USE RegistryAssumption DEF IInv, TypeOK, RequestsAgree, closing, mapVars,
   handleVars, callerVars, reloadVars, closeVars, BeginInit
<1>1. leaseLife' = [leaseLife EXCEPT ![h] = "starting"] /\ leaseLife[h] = "absent"
  BY LifeUpdate DEF LifeOf, leaseLife
<1>2. leaseLent' = leaseLent
  BY DEF leaseLent, Holders
<1>3. ~runtimeDone
  BY DEF ReservationsAgree, RuntimeAgrees, OpeningIds
<1> QED BY <1>1, <1>2, <1>3 DEF Lease!Start

LEMMA LeaseOpenFails ==
  ASSUME IInv, NEW p \in Callers, OpenFails(p)
  PROVE  UNCHANGED Lease!vars \/ \E h \in Handles : Lease!Vanish(h)
<1> USE RegistryAssumption DEF IInv, TypeOK, RequestsAgree, closing, mapVars,
   handleVars, callerVars, reloadVars, closeVars, OpenFails, EndReservation
<1>1. leaseLent' = leaseLent
  BY DEF leaseLent, Holders
<1>2. CASE pc[p] = "reserved"
  BY <1>1, <1>2 DEF Lease!vars, leaseLife
<1>3. CASE pc[p] = "starting"
  <2>1. mine[p] \in Handles /\ stage[mine[p]] = "starting"
    BY <1>3
  <2>2. Lease!Vanish(mine[p])
    BY <1>1, <1>3, <2>1, LifeUpdate DEF Vacate, Lease!Vanish, LifeOf, leaseLife
  <2> QED BY <2>1, <2>2
<1> QED BY <1>2, <1>3

LEMMA LeaseOpenSucceeds ==
  ASSUME IInv, NEW p \in Callers, OpenSucceeds(p)
  PROVE  mine[p] \in Handles /\ Lease!Ready(mine[p], p)
<1> USE RegistryAssumption DEF IInv, TypeOK, RequestsAgree, closing, mapVars,
   handleVars, callerVars, reloadVars, closeVars
<1>1. mine[p] \in Handles /\ stage[mine[p]] = "starting" /\ Holders(mine[p]) = {}
  BY DEF OpenSucceeds, Holders
<1>2. leaseLent' = [leaseLent EXCEPT ![mine[p]] = {p}]
  <2>1. \A g \in Handles : Holders(g)' = IF g = mine[p] THEN {p} ELSE Holders(g)
    BY <1>1 DEF OpenSucceeds, EndReservation, Holders
  <2> QED BY <1>1, <2>1, LentUpdate
<1>3. leaseLife' = [leaseLife EXCEPT ![mine[p]] = "ready"] /\ leaseLife[mine[p]] = "starting"
  BY <1>1, LifeUpdate DEF OpenSucceeds, LifeOf, leaseLife
<1> QED
  BY <1>1, <1>2, <1>3 DEF OpenSucceeds, Lease!Ready

LEMMA LeaseOpenTooLate ==
  ASSUME IInv, NEW p \in Callers, OpenTooLate(p)
  PROVE  \E S \in SUBSET Handles : Lease!Stop(S)
<1> USE RegistryAssumption DEF IInv, TypeOK, RequestsAgree, closing, mapVars,
   handleVars, callerVars, reloadVars, closeVars
<1>1. mine[p] \in Handles /\ stage[mine[p]] = "starting" /\ Holders(mine[p]) = {}
  BY DEF OpenTooLate, Holders
<1>2. leaseLent' = leaseLent
  BY DEF OpenTooLate, EndReservation, leaseLent, Holders
<1>3. Lease!Stop({mine[p]})
  BY <1>1, <1>2 DEF OpenTooLate, Lease!Stop, LifeOf, leaseLife, leaseLent
<1> QED BY <1>1, <1>3

LEMMA LeaseBorrow ==
  ASSUME IInv, NEW p \in Callers, Borrow(p)
  PROVE  open[want[p]] \in Handles /\ Lease!Lend(open[want[p]], p)
<1> USE RegistryAssumption DEF IInv, TypeOK, RequestsAgree, closing, mapVars,
   handleVars, callerVars, reloadVars, closeVars
<1>1. open[want[p]] \in Handles /\ stage[open[want[p]]] = "open" /\ p \notin Holders(open[want[p]])
  BY DEF Borrow, MapsAgree, Holders
<1>2. leaseLent' = [leaseLent EXCEPT ![open[want[p]]] = @ \cup {p}]
  <2>1. \A g \in Handles : Holders(g)' =
          IF g = open[want[p]] THEN Holders(open[want[p]]) \cup {p} ELSE Holders(g)
    BY <1>1 DEF Borrow, Holders
  <2>2. leaseLent[open[want[p]]] = Holders(open[want[p]])
    BY <1>1 DEF leaseLent
  <2> QED BY <1>1, <2>1, <2>2, LentUpdate
<1> QED
  BY <1>1, <1>2 DEF Borrow, Lease!Lend, LifeOf, leaseLife, leaseLent

LEMMA LeaseRelease ==
  ASSUME IInv, NEW p \in Callers, Release(p)
  PROVE  mine[p] \in Handles /\ Lease!GiveBack(mine[p], p)
<1> USE RegistryAssumption DEF IInv, TypeOK, RequestsAgree, closing, mapVars,
   handleVars, callerVars, reloadVars, closeVars
<1>1. mine[p] \in Handles /\ stage[mine[p]] = "open" /\ p \in Holders(mine[p])
  BY DEF Release, Holders
<1>2. leaseLent' = [leaseLent EXCEPT ![mine[p]] = @ \ {p}]
  <2>1. \A g \in Handles : Holders(g)' =
          IF g = mine[p] THEN Holders(mine[p]) \ {p} ELSE Holders(g)
    BY <1>1 DEF Release, Holders
  <2>2. leaseLent[mine[p]] = Holders(mine[p])
    BY <1>1 DEF leaseLent
  <2> QED BY <1>1, <2>1, <2>2, LentUpdate
<1>3. refs[mine[p]] # 0
  BY <1>1, UnreferencedIsUnheld
<1>4. CASE refs[mine[p]] = 1 /\ closing
  <2>1. Holders(mine[p]) = {p}
    BY <1>1, <1>4, SoleHolder
  <2>2. leaseLife' = [leaseLife EXCEPT ![mine[p]] = "stopping"]
    <3>1. stage' = [stage EXCEPT ![mine[p]] = "discarding"]
      BY <1>1, <1>4 DEF Release
    <3> QED BY <1>1, <3>1, LifeUpdate DEF LifeOf
  <2> QED
    BY <1>1, <1>2, <1>4, <2>1, <2>2 DEF Release, Lease!GiveBack, leaseLent
<1>5. CASE ~(refs[mine[p]] = 1 /\ closing)
  <2>1. leaseLife' = leaseLife
    BY <1>5 DEF Release, leaseLife
  <2> QED
    BY <1>1, <1>2, <2>1 DEF Release, Lease!GiveBack, leaseLent
<1> QED BY <1>4, <1>5

LEMMA LeaseCloseService ==
  ASSUME IInv, NEW h \in Handles, CloseService(h)
  PROVE  Lease!Vanish(h)
<1> USE RegistryAssumption DEF IInv, TypeOK, RequestsAgree, closing, mapVars,
   handleVars, callerVars, reloadVars, closeVars, CloseService
<1>1. leaseLife' = [leaseLife EXCEPT ![h] = "absent"] /\ leaseLife[h] = "stopping"
  BY LifeUpdate DEF LifeOf, leaseLife
<1>2. leaseLent' = leaseLent
  BY DEF leaseLent, Holders
<1> QED BY <1>1, <1>2 DEF Lease!Vanish

LEMMA LeaseSweepOne ==
  ASSUME IInv, NEW h \in Handles, SweepOne(h)
  PROVE  Lease!Vanish(h)
<1> USE RegistryAssumption DEF IInv, TypeOK, RequestsAgree, closing, mapVars,
   handleVars, callerVars, reloadVars, closeVars, SweepOne, Vacate
<1>1. leaseLife' = [leaseLife EXCEPT ![h] = "absent"] /\ leaseLife[h] = "stopping"
  BY LifeUpdate DEF LifeOf, leaseLife
<1>2. leaseLent' = leaseLent
  BY DEF leaseLent, Holders
<1> QED BY <1>1, <1>2 DEF Lease!Vanish

LEMMA LeaseCloseFlag ==
  ASSUME IInv, CloseFlag
  PROVE  Lease!StopAccepting
BY RegistryAssumption DEF closing, handleVars, callerVars, CloseFlag,
   Lease!StopAccepting, leaseLife, leaseLent, Holders

\* A drained registry has only services that are on their way out.
LEMMA DrainedIsStopped ==
  ASSUME IInv, Drained
  PROVE  \A h \in Handles : leaseLife[h] \in {"absent", "stopping"}
BY RegistryAssumption DEF IInv, MapsAgree, ReservationsAgree, ServicesAgree, Drained,
   OpenIds, OpeningIds, LifeOf, leaseLife

LEMMA LeaseFinishDiscard ==
  ASSUME IInv, NEW h \in Handles, FinishDiscard(h)
  PROVE  UNCHANGED Lease!vars \/ Lease!TakeDown
<1> USE RegistryAssumption DEF IInv, TypeOK, RequestsAgree, closing, mapVars,
   handleVars, callerVars, reloadVars, closeVars
<1>1. leaseLife' = leaseLife
  BY DEF FinishDiscard, Vacate, LifeOf, leaseLife
<1>2. leaseLent' = leaseLent
  BY DEF FinishDiscard, leaseLent, Holders
<1> QED
  BY <1>1, <1>2, DrainedIsStopped DEF FinishDiscard, Drained, Lease!TakeDown, Lease!vars

LEMMA LeaseCloseEnds ==
  ASSUME IInv, CloseEnds
  PROVE  UNCHANGED Lease!vars \/ Lease!TakeDown
<1> USE RegistryAssumption DEF IInv, TypeOK, RequestsAgree, closing, mapVars,
   handleVars, callerVars, reloadVars, closeVars
<1>1. leaseLife' = leaseLife /\ leaseLent' = leaseLent
  BY DEF CloseEnds, leaseLife, leaseLent, Holders
<1> QED
  BY <1>1, DrainedIsStopped DEF CloseEnds, Lease!TakeDown, Lease!vars

LEMMA LeaseReloadApply ==
  ASSUME IInv, ReloadApply
  PROVE  \E S \in SUBSET Handles : Lease!Stop(S)
<1> USE RegistryAssumption DEF IInv, TypeOK, RequestsAgree, closing, mapVars,
   handleVars, callerVars, reloadVars, closeVars
<1> DEFINE S == {open[id] : id \in Changed \cap OpenIds}
<1>1. \A h \in S : h \in Handles /\ stage[h] = "open" /\ Holders(h) = {}
  BY UnreferencedIsUnheld DEF ReloadApply, InUse, OpenIds, MapsAgree
<1>2. leaseLent' = leaseLent
  BY DEF ReloadApply, leaseLent, Holders
<1>3. stage' = [h \in Handles |-> IF h \in S THEN "detached" ELSE stage[h]]
  BY DEF ReloadApply
<1>4. Lease!Stop(S)
  <2> HIDE DEF S
  <2> QED
    BY <1>1, <1>2, <1>3 DEF ReloadApply, Lease!Stop, LifeOf, leaseLife, leaseLent
<1> QED BY <1>1, <1>4

LEMMA LeaseCloseSweep ==
  ASSUME IInv, CloseSweep
  PROVE  \E S \in SUBSET Handles : Lease!Stop(S)
<1> USE RegistryAssumption DEF IInv, TypeOK, RequestsAgree, closing, mapVars,
   handleVars, callerVars, reloadVars, closeVars
<1> DEFINE S == {open[id] : id \in IdleIds}
<1>1. \A h \in S : h \in Handles /\ stage[h] = "open" /\ Holders(h) = {}
  BY UnreferencedIsUnheld DEF IdleIds, OpenIds, MapsAgree
<1>2. leaseLent' = leaseLent
  BY DEF CloseSweep, leaseLent, Holders
<1>3. stage' = [h \in Handles |-> IF h \in S THEN "sweeping" ELSE stage[h]]
  BY DEF CloseSweep
<1>4. Lease!Stop(S)
  <2> HIDE DEF S
  <2> QED
    BY <1>1, <1>2, <1>3 DEF CloseSweep, Lease!Stop, LifeOf, leaseLife, leaseLent
<1> QED BY <1>1, <1>4

LEMMA LeaseStep == IInv /\ [Next]_vars => [Lease!Next]_(Lease!vars)
<1> SUFFICES ASSUME IInv, [Next]_vars PROVE Lease!Next \/ UNCHANGED Lease!vars
  OBVIOUS
<1> USE DEF Lease!Next
<1>1. ASSUME NEW p \in Callers, \E id \in Ids : Request(p, id) PROVE UNCHANGED Lease!vars
  BY <1>1, LeaseRequest
<1>2. ASSUME NEW p \in Callers, Answering(p) PROVE Lease!Next \/ UNCHANGED Lease!vars
  BY <1>2, LeaseRefuseClosing, LeaseRefuseUnknown, LeaseRefuseFull, LeaseBorrow,
     LeaseAwaitOpening, LeaseReserve, LeaseReserveByEvicting DEF Answering
<1>3. ASSUME NEW p \in Callers, Opening(p) PROVE Lease!Next \/ UNCHANGED Lease!vars
  <2>1. FreshHandles \subseteq Handles
    BY DEF FreshHandles
  <2> QED
    BY <1>3, <2>1, LeaseBeginInit, LeaseOpenFails, LeaseOpenSucceeds, LeaseOpenTooLate
    DEF Opening
<1>4. ASSUME NEW p \in Callers, Release(p) PROVE Lease!Next
  BY <1>4, LeaseRelease
<1>5. ASSUME NEW h \in Handles,
             IndexStarts(h) \/ IndexEnds(h) \/ Discarding(h) \/ SweepOne(h)
      PROVE  Lease!Next \/ UNCHANGED Lease!vars
  BY <1>5, LeaseIndexStarts, LeaseIndexEnds, LeaseBeginDiscard, LeaseCloseService,
     LeaseFinishDiscard, LeaseSweepOne DEF Discarding
<1>6. ASSUME NEW s \in Snapshots, ReloadLoad(s) PROVE UNCHANGED Lease!vars
  BY <1>6, LeaseReloadLoad
<1>7. CASE Reloading
  BY <1>7, LeaseReloadRefused, LeaseReloadApply, LeaseReloadEnds DEF Reloading
<1>8. CASE CloseFlag \/ Closing
  BY <1>8, LeaseCloseFlag, LeaseCloseCancel, LeaseCloseSweep, LeaseCloseEnds DEF Closing
<1>9. CASE UNCHANGED vars
  BY <1>9 DEF vars, handleVars, callerVars, closeVars, closing, Lease!vars, leaseLife,
     leaseLent, Holders
<1> QED
  BY <1>1, <1>2, <1>3, <1>4, <1>5, <1>6, <1>7, <1>8, <1>9 DEF Next

LEMMA LeaseInit == Init => Lease!Init
BY DEF Init, Lease!Init, closing, LifeOf, leaseLife, leaseLent, Holders

\* The registry keeps the promise of module ServiceLease.
THEOREM ImplementsLease == Spec => LeaseSpec
BY LeaseInit, LeaseStep, RegistryInvariant, PTL DEF Spec, LeaseSpec, Lease!Spec

=============================================================================
