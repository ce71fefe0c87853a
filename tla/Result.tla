------------------------------- MODULE Result -------------------------------
(***************************************************************************)
(* core_type::Result, the type through which every socket, connection and  *)
(* client of the library reports success or failure: Result<T, E> with a   *)
(* value that can only be moved (the unique pointers the library returns)  *)
(* and Result<void, E>.  A behaviour is any sequence of calls a caller may *)
(* make on a few Result objects: construct, assign, emplace, chain.  As    *)
(* everywhere in the library, an object that was moved from is only        *)
(* assigned, emplaced into or destroyed.                                   *)
(*                                                                         *)
(* A function that a chain calls is the caller's: it succeeds or fails as  *)
(* it likes.  How the operations an object reports on ended is recorded in *)
(* the history variable outcome.                                           *)
(***************************************************************************)
EXTENDS Naturals

CONSTANTS
    TypedResults,  \* the objects of type Result<T, E>
    VoidResults,   \* the objects of type Result<void, E>
    Values,        \* the values that are made, each one once
    Errors,        \* the values of E
    kNull,         \* a unique pointer that was moved from
    kEmpty,        \* empty_value, the value of a Result<void, E>
    VoidOutcomes   \* what functions given to Result<void, E>::AndThen report

ASSUME ResultAssumption ==
    /\ TypedResults \cap VoidResults = {}
    /\ Values \cap (Errors \cup {kNull, kEmpty}) = {}
    /\ VoidOutcomes \subseteq {"ok", "failed"}

VARIABLES
    storage,     \* storage_ of each object
    made,        \* the values that exist or have existed
    consumed,    \* the values that functions have taken over
    outcome,     \* history: how what each object reports on ended
    terminated   \* std::terminate has been called

vars == <<storage, made, consumed, outcome, terminated>>

Results == TypedResults \cup VoidResults
-----------------------------------------------------------------------------
(***************************************************************************)
(* storage_: a std::variant whose alternative is the value or the error.   *)
(***************************************************************************)
\* Before the object is constructed and after it is destroyed.
NoResult == [holds |-> "nothing", content |-> kEmpty]

Value(v) == [holds |-> "value", content |-> v]
Error(e) == [holds |-> "error", content |-> e]
EmptyValue == Value(kEmpty)

Constructed(r) == storage[r].holds # "nothing"

HasValue(r) == storage[r].holds = "value"

\* What is left of s when its content has been moved out: the alternative
\* stays, a unique pointer is null, an error or an empty value is copied.
MovedFrom(s) == IF s.content \in Values THEN Value(kNull) ELSE s

Init ==
    /\ storage = [r \in Results |-> NoResult]
    /\ made = {}
    /\ consumed = {}
    /\ outcome = [r \in Results |-> "none"]
    /\ terminated = FALSE

\* r receives what s holds and reports the outcome o.
Assign(r, s, o) ==
    /\ storage' = [storage EXCEPT ![r] = s]
    /\ outcome' = [outcome EXCEPT ![r] = o]

\* q is built by moving from r: it holds s, r what the move left behind.
AssignFrom(q, s, r, o) ==
    /\ storage' = [storage EXCEPT ![r] = MovedFrom(@), ![q] = s]
    /\ outcome' = [outcome EXCEPT ![r] = "moved", ![q] = o]

\* r may be read: it is constructed and was not moved from.
Usable(r) == outcome[r] \in {"ok", "failed"}
-----------------------------------------------------------------------------
(***************************************************************************)
(* Construction, assignment and emplacement.                               *)
(***************************************************************************)
FromValue(r, v) ==
    /\ ~Constructed(r)
    /\ v \notin made
    /\ Assign(r, Value(v), "ok")
    /\ made' = made \cup {v}
    /\ UNCHANGED <<consumed, terminated>>

FromError(r, e) ==
    /\ ~Constructed(r)
    /\ Assign(r, Error(e), "failed")
    /\ UNCHANGED <<made, consumed, terminated>>

VoidFromValue(r) ==
    /\ ~Constructed(r)
    /\ Assign(r, EmptyValue, "ok")
    /\ UNCHANGED <<made, consumed, terminated>>

EmplaceValue(r, v) ==
    /\ Constructed(r)
    /\ v \notin made
    /\ Assign(r, Value(v), "ok")
    /\ made' = made \cup {v}
    /\ UNCHANGED <<consumed, terminated>>

EmplaceError(r, e) ==
    /\ Constructed(r)
    /\ Assign(r, Error(e), "failed")
    /\ UNCHANGED <<made, consumed, terminated>>

VoidEmplaceValue(r) ==
    /\ Constructed(r)
    /\ Assign(r, EmptyValue, "ok")
    /\ UNCHANGED <<made, consumed, terminated>>

\* Move construction and move assignment.
Move(q, r) ==
    /\ Usable(r)
    /\ AssignFrom(q, storage[r], r, outcome[r])
    /\ UNCHANGED <<made, consumed, terminated>>

\* A Result<T, E> of a value that can only be moved cannot be copied.
VoidCopy(q, r) ==
    /\ Usable(r)
    /\ Assign(q, storage[r], outcome[r])
    /\ UNCHANGED <<made, consumed, terminated>>

Destroy(r) ==
    /\ Constructed(r)
    /\ Assign(r, NoResult, "none")
    /\ UNCHANGED <<made, consumed, terminated>>
-----------------------------------------------------------------------------
(***************************************************************************)
(* Chaining: q is what the call on r returns.  The documented outcomes:    *)
(* what is called next decides if r succeeded, what is called instead if   *)
(* it failed.                                                              *)
(***************************************************************************)
Then(o, next) == IF o = "ok" THEN next ELSE "failed"
Else(o, instead) == IF o = "ok" THEN "ok" ELSE instead

\* What a function that reports o returns, with the error e if it fails.
Returned(o, e) == IF o = "ok" THEN EmptyValue ELSE Error(e)

\* As it is used in the library the function takes the value over and
\* returns a Result<void, E>.
AndThen(q, r, o, e) ==
    /\ Usable(r)
    /\ \/ /\ HasValue(r)
          /\ AssignFrom(q, Returned(o, e), r, Then(outcome[r], o))
          /\ consumed' = consumed \cup ({storage[r].content} \cap Values)
       \/ /\ ~HasValue(r)
          /\ AssignFrom(q, storage[r], r, Then(outcome[r], o))
          /\ UNCHANGED consumed
    /\ UNCHANGED <<made, terminated>>

\* Mutant of MapError: the value is taken out before the result is built from *this.
MapErrorAfterMove(q, r, e) ==
    /\ Usable(r)
    /\ AssignFrom(q, IF HasValue(r) THEN MovedFrom(storage[r]) ELSE Error(e), r, outcome[r])
    /\ UNCHANGED <<made, consumed, terminated>>

MapError(q, r, e) ==
    /\ Usable(r)
    /\ AssignFrom(q, IF HasValue(r) THEN storage[r] ELSE Error(e), r, outcome[r])
    /\ UNCHANGED <<made, consumed, terminated>>

\* The function makes a value, or reports an error itself.
OrElse(q, r, s) ==
    /\ Usable(r)
    /\ \/ /\ HasValue(r)
          /\ AssignFrom(q, storage[r], r, outcome[r])
          /\ UNCHANGED made
       \/ /\ ~HasValue(r)
          /\ s.content \notin made
          /\ AssignFrom(q, s, r,
                        Else(outcome[r], IF s.holds = "value" THEN "ok" ELSE "failed"))
          /\ made' = made \cup ({s.content} \cap Values)
    /\ UNCHANGED <<consumed, terminated>>

\* The function is called for its effects: what it returns is dropped.
VoidAndThen(q, r, o) ==
    /\ Usable(r)
    /\ AssignFrom(q, storage[r], r, Then(outcome[r], o))
    /\ UNCHANGED <<made, consumed, terminated>>

\* Mutant of VoidMapError: the function is called, and its error not passed on.
VoidMapErrorDropped(q, r, e) ==
    /\ Usable(r)
    /\ Assign(q, EmptyValue, outcome[r])
    /\ UNCHANGED <<made, consumed, terminated>>

\* MapError and CheckError, which are the same: r is not moved from.
VoidMapError(q, r, e) ==
    /\ Usable(r)
    /\ Assign(q, IF HasValue(r) THEN EmptyValue ELSE Error(e), outcome[r])
    /\ UNCHANGED <<made, consumed, terminated>>

VoidOrElse(q, r, o, e) ==
    /\ Usable(r)
    /\ AssignFrom(q, IF HasValue(r) THEN storage[r] ELSE Returned(o, e), r,
                  Else(outcome[r], o))
    /\ UNCHANGED <<made, consumed, terminated>>

\* Error() is noexcept, and std::get throws when there is a value.
VoidResolve(r) ==
    /\ Usable(r)
    /\ terminated' = HasValue(r)
    /\ UNCHANGED <<storage, made, consumed, outcome>>
-----------------------------------------------------------------------------
TypedCall ==
    \E r \in TypedResults :
        \/ \E v \in Values : FromValue(r, v) \/ EmplaceValue(r, v)
        \/ \E q \in TypedResults \ {r} :
              \/ Move(q, r)
              \/ \E e \in Errors : MapError(q, r, e)
              \/ \E v \in Values : OrElse(q, r, Value(v))
              \/ \E e \in Errors : OrElse(q, r, Error(e))
        \/ \E q \in VoidResults, o \in {"ok", "failed"}, e \in Errors : AndThen(q, r, o, e)

VoidCall ==
    \E r \in VoidResults :
        \/ VoidFromValue(r) \/ VoidEmplaceValue(r) \/ VoidResolve(r)
        \/ \E q \in VoidResults \ {r} :
              \/ Move(q, r)
              \/ VoidCopy(q, r)
              \/ \E o \in VoidOutcomes : VoidAndThen(q, r, o)
              \/ \E e \in Errors : VoidMapError(q, r, e)
              \/ \E o \in {"ok", "failed"}, e \in Errors : VoidOrElse(q, r, o, e)

AnyCall ==
    \E r \in Results :
        \/ Destroy(r)
        \/ \E e \in Errors : FromError(r, e) \/ EmplaceError(r, e)

Next ==
    /\ ~terminated
    /\ TypedCall \/ VoidCall \/ AnyCall

Spec == Init /\ [][Next]_vars
-----------------------------------------------------------------------------
(***************************************************************************)
(* Properties.                                                             *)
(***************************************************************************)
\* A value arrives: through any sequence of moves and chains, an object that
\* reports success and may be read has the value that was put in, not the
\* null pointer a move leaves behind, and no function has taken it over yet
\* (result.h moves the value at every step: std::move(*this).Value()).
ValueArrives ==
    \A r \in TypedResults :
        outcome[r] = "ok" => storage[r].content \in made \ consumed

\* No failure is lost and none is invented on the way through a chain: an
\* object has a value exactly when the operations it reports on succeeded,
\* or a function given to OrElse made good for the one that failed.  It takes
\* VoidOutcomes = {"ok"}: VoidAndThen drops what its function returns.
ErrorsTravel ==
    \A r \in Results : Usable(r) => (HasValue(r) <=> outcome[r] = "ok")
=============================================================================
