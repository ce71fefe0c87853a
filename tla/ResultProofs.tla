---------------------------- MODULE ResultProofs ----------------------------
(***************************************************************************)
(* Proofs about Result: a value that is put into a Result arrives where    *)
(* the chain of calls ends, and so does a failure, for every number of     *)
(* objects, values and errors.                                             *)
(***************************************************************************)
EXTENDS Result, TLAPS

Contents == Values \cup Errors \cup {kNull, kEmpty}

TypeOK ==
    /\ storage \in [Results -> [holds : {"nothing", "value", "error"}, content : Contents]]
    /\ outcome \in [Results -> {"none", "ok", "failed", "moved"}]
    /\ made \subseteq Values

\* A value that was made and not taken over has one owner, which reports
\* success.
OneOwner ==
    \A r \in Results :
        storage[r].content \in Values =>
            /\ storage[r].holds = "value"
            /\ outcome[r] = "ok"
            /\ storage[r].content \in made \ consumed
            /\ \A q \in Results \ {r} : storage[q].content # storage[r].content

\* Where a value is stored, failures travel whatever a chain of results
\* without one does.
TypedErrorsTravel ==
    \A r \in TypedResults : Usable(r) => (HasValue(r) <=> outcome[r] = "ok")

\* What is stored in a Result<void, E> is not one of the values.
VoidHasNoValue ==
    \A r \in VoidResults : storage[r].content \notin Values

\* consumed holds only what was made.
ConsumedWasMade == consumed \subseteq made

IInv ==
    /\ TypeOK
    /\ ConsumedWasMade
    /\ OneOwner
    /\ VoidHasNoValue
    /\ TypedErrorsTravel
    /\ ValueArrives

\* Nothing is stored and nothing made before the first call.
LEMMA InitInvariant == Init => IInv
  BY ResultAssumption DEF Init, IInv, TypeOK, ConsumedWasMade, OneOwner, VoidHasNoValue,
     TypedErrorsTravel, ValueArrives, Results, NoResult, Contents, Usable

\* A call that puts a new value, an error or an empty value into r.
LEMMA AssignStep ==
  ASSUME NEW r \in Results, NEW s, NEW o \in {"none", "ok", "failed"}, IInv,
         s \in [holds : {"nothing", "value", "error"}, content : Contents],
         Assign(r, s, o), consumed' = consumed,
         \/ s.content \notin Values /\ made' = made
         \/ /\ s.content \in Values \ made /\ made' = made \cup {s.content}
            /\ s.holds = "value" /\ o = "ok",
         r \in VoidResults => s.content \notin Values,
         r \in TypedResults /\ o = "ok" => s.content \in Values,
         r \in TypedResults /\ o = "failed" => s.holds # "value"
  PROVE  IInv'
  <1>1. /\ storage'[r] = s
        /\ outcome'[r] = o
        /\ \A q \in Results \ {r} : storage'[q] = storage[q] /\ outcome'[q] = outcome[q]
    BY DEF Assign, IInv, TypeOK
  <1>2. TypeOK'
    BY DEF Assign, IInv, TypeOK
  <1>3. ConsumedWasMade'
    BY DEF IInv, ConsumedWasMade
  <1>4. OneOwner'
    <2> SUFFICES ASSUME NEW q \in Results, storage'[q].content \in Values
                 PROVE  /\ storage'[q].holds = "value"
                        /\ outcome'[q] = "ok"
                        /\ storage'[q].content \in made' \ consumed'
                        /\ \A p \in Results \ {q} : storage'[p].content # storage'[q].content
      BY DEF OneOwner
    <2>1. CASE q = r
      BY <1>1, <2>1 DEF IInv, OneOwner, ConsumedWasMade
    <2>2. CASE q # r
      BY <1>1, <2>2 DEF IInv, OneOwner
    <2> QED
      BY <2>1, <2>2
  <1>5. VoidHasNoValue'
    BY <1>1 DEF IInv, VoidHasNoValue, Results
  <1>6. TypedErrorsTravel'
    BY <1>1, <1>4 DEF IInv, TypedErrorsTravel, OneOwner, Usable, HasValue, Results
  <1>7. ValueArrives'
    BY <1>1 DEF IInv, ValueArrives, Results, ConsumedWasMade
  <1> QED
    BY <1>2, <1>3, <1>4, <1>5, <1>6, <1>7 DEF IInv

\* A call that builds q by moving from r: q receives what r held, or
\* something else when r's value was given to a function or r had none.
LEMMA MoveStep ==
  ASSUME NEW q \in Results, NEW r \in Results, q # r, NEW s, NEW o \in {"ok", "failed"}, IInv,
         s \in [holds : {"nothing", "value", "error"}, content : Contents],
         AssignFrom(q, s, r, o),
         \/ s.content \notin Values /\ made' = made
         \/ s = storage[r] /\ made' = made /\ consumed' = consumed /\ o = "ok"
         \/ /\ s.content \in Values \ made /\ made' = made \cup {s.content}
            /\ consumed' = consumed /\ s.holds = "value" /\ o = "ok",
         consumed' \in {consumed, consumed \cup ({storage[r].content} \cap Values)},
         q \in VoidResults => s.content \notin Values,
         q \in TypedResults /\ o = "ok" => s.content \in Values,
         q \in TypedResults /\ o = "failed" => s.holds # "value"
  PROVE  IInv'
  <1>1. /\ storage'[q] = s
        /\ outcome'[q] = o
        /\ storage'[r] = MovedFrom(storage[r])
        /\ outcome'[r] = "moved"
        /\ \A p \in Results \ {q, r} : storage'[p] = storage[p] /\ outcome'[p] = outcome[p]
    BY DEF AssignFrom, IInv, TypeOK
  <1>2. /\ MovedFrom(storage[r]).content \notin Values
        /\ MovedFrom(storage[r]) \in [holds : {"nothing", "value", "error"}, content : Contents]
    BY ResultAssumption DEF MovedFrom, Value, IInv, TypeOK, Contents
  <1>3. TypeOK'
    BY <1>2 DEF AssignFrom, IInv, TypeOK
  <1>4. ConsumedWasMade'
    BY DEF IInv, ConsumedWasMade, OneOwner
  <1>5. OneOwner'
    <2> SUFFICES ASSUME NEW p \in Results, storage'[p].content \in Values
                 PROVE  /\ storage'[p].holds = "value"
                        /\ outcome'[p] = "ok"
                        /\ storage'[p].content \in made' \ consumed'
                        /\ \A x \in Results \ {p} : storage'[x].content # storage'[p].content
      BY DEF OneOwner
    <2>1. p # r
      BY <1>1, <1>2
    <2>2. CASE p = q
      BY <1>1, <1>2, <2>2 DEF IInv, OneOwner, ConsumedWasMade
    <2>3. CASE p # q
      BY <1>1, <1>2, <2>1, <2>3 DEF IInv, OneOwner
    <2> QED
      BY <2>2, <2>3
  <1>6. VoidHasNoValue'
    BY <1>1, <1>2 DEF IInv, VoidHasNoValue, Results
  <1>7. TypedErrorsTravel'
    BY <1>1, <1>5 DEF IInv, TypedErrorsTravel, OneOwner, Usable, HasValue, Results
  <1>8. ValueArrives'
    <2> SUFFICES ASSUME NEW p \in TypedResults, outcome'[p] = "ok"
                 PROVE  storage'[p].content \in Values
      BY <1>5 DEF ValueArrives, OneOwner, Results
    <2> QED
      BY <1>1 DEF IInv, ValueArrives, Results, TypeOK
  <1> QED
    BY <1>3, <1>4, <1>5, <1>6, <1>7, <1>8 DEF IInv

\* Every call on a Result<T, E>.
LEMMA TypedStep == IInv /\ TypedCall => IInv'
  <1> SUFFICES ASSUME IInv, TypedCall PROVE IInv'
    OBVIOUS
  <1> PICK r \in TypedResults :
        \/ \E v \in Values : FromValue(r, v) \/ EmplaceValue(r, v)
        \/ \E q \in TypedResults \ {r} :
              \/ Move(q, r)
              \/ \E e \in Errors : MapError(q, r, e)
              \/ \E v \in Values : OrElse(q, r, Value(v))
              \/ \E e \in Errors : OrElse(q, r, Error(e))
        \/ \E q \in VoidResults, o \in {"ok", "failed"}, e \in Errors : AndThen(q, r, o, e)
    BY DEF TypedCall
  <1>1. /\ r \in Results /\ r \notin VoidResults
        /\ storage[r] \in [holds : {"nothing", "value", "error"}, content : Contents]
        /\ outcome[r] = "ok" => storage[r].content \in Values
        /\ outcome[r] = "failed" => storage[r].holds # "value" /\ storage[r].content \notin Values
        /\ outcome[r] \in {"ok", "failed"} => (HasValue(r) <=> outcome[r] = "ok")
    BY ResultAssumption
       DEF IInv, TypeOK, ValueArrives, OneOwner, TypedErrorsTravel, Usable, HasValue, Results
  <1>2. ASSUME NEW v \in Values, FromValue(r, v) \/ EmplaceValue(r, v)
        PROVE  IInv'
    <2>1. /\ Value(v) \in [holds : {"nothing", "value", "error"}, content : Contents]
          /\ Value(v).content = v /\ Value(v).holds = "value"
      BY DEF Value, Contents
    <2>2. /\ Assign(r, Value(v), "ok") /\ v \notin made
          /\ made' = made \cup {v} /\ consumed' = consumed
      BY <1>2 DEF FromValue, EmplaceValue
    <2> QED
      BY <1>1, <2>1, <2>2, AssignStep
  <1>3. ASSUME NEW q \in TypedResults \ {r}, Move(q, r)
        PROVE  IInv'
    <2>1. /\ AssignFrom(q, storage[r], r, outcome[r]) /\ outcome[r] \in {"ok", "failed"}
          /\ made' = made /\ consumed' = consumed
      BY <1>3 DEF Move, Usable
    <2>2. q \in Results /\ q \notin VoidResults
      BY ResultAssumption DEF Results
    <2> QED
      BY <1>1, <2>1, <2>2, MoveStep
  <1>4. ASSUME NEW q \in TypedResults \ {r}, NEW e \in Errors, MapError(q, r, e)
        PROVE  IInv'
    <2>1. /\ outcome[r] \in {"ok", "failed"} /\ made' = made /\ consumed' = consumed
          /\ AssignFrom(q, IF HasValue(r) THEN storage[r] ELSE Error(e), r, outcome[r])
      BY <1>4 DEF MapError, Usable
    <2>2. q \in Results /\ q \notin VoidResults
      BY ResultAssumption DEF Results
    <2>3. /\ Error(e) \in [holds : {"nothing", "value", "error"}, content : Contents]
          /\ Error(e).content \notin Values /\ Error(e).holds = "error"
      BY ResultAssumption DEF Error, Contents
    <2>4. CASE HasValue(r)
      BY <1>1, <2>1, <2>2, <2>4, MoveStep
    <2>5. CASE ~HasValue(r)
      BY <1>1, <2>1, <2>2, <2>3, <2>5, MoveStep
    <2> QED
      BY <2>4, <2>5
  <1>5. ASSUME NEW q \in TypedResults \ {r}, NEW s,
               \/ \E v \in Values : s = Value(v)
               \/ \E e \in Errors : s = Error(e),
               OrElse(q, r, s)
        PROVE  IInv'
    <2>1. q \in Results /\ q \notin VoidResults
      BY ResultAssumption DEF Results
    <2>2. /\ s \in [holds : {"nothing", "value", "error"}, content : Contents]
          /\ \/ s.holds = "value" /\ s.content \in Values
             \/ s.holds = "error" /\ s.content \notin Values
      BY <1>5, ResultAssumption DEF Value, Error, Contents
    <2>3. outcome[r] \in {"ok", "failed"} /\ consumed' = consumed
      BY <1>5 DEF OrElse, Usable
    <2>4. CASE HasValue(r)
      <3>1. AssignFrom(q, storage[r], r, outcome[r]) /\ made' = made
        BY <1>5, <2>4 DEF OrElse
      <3> QED
        BY <1>1, <2>1, <2>3, <2>4, <3>1, MoveStep
    <2>5. CASE ~HasValue(r)
      <3> DEFINE o == IF s.holds = "value" THEN "ok" ELSE "failed"
      <3>1. outcome[r] = "failed"
        BY <1>1, <2>3, <2>5
      <3>2. /\ s.content \notin made
            /\ AssignFrom(q, s, r, o)
            /\ made' = made \cup ({s.content} \cap Values)
        BY <1>5, <2>5, <3>1 DEF OrElse, Else
      <3> QED
        BY <1>1, <2>1, <2>2, <2>3, <3>2, MoveStep
    <2> QED
      BY <2>4, <2>5
  <1>6. ASSUME NEW q \in VoidResults, NEW o \in {"ok", "failed"}, NEW e \in Errors,
               AndThen(q, r, o, e)
        PROVE  IInv'
    <2>1. q \in Results /\ q \notin TypedResults /\ q # r
      BY ResultAssumption DEF Results
    <2>2. /\ Returned(o, e) \in [holds : {"nothing", "value", "error"}, content : Contents]
          /\ Returned(o, e).content \notin Values
          /\ o = "failed" => Returned(o, e).holds = "error"
      BY ResultAssumption DEF Returned, EmptyValue, Value, Error, Contents
    <2>3. outcome[r] \in {"ok", "failed"} /\ made' = made
      BY <1>6 DEF AndThen, Usable
    <2>4. CASE HasValue(r)
      <3>1. /\ AssignFrom(q, Returned(o, e), r, o)
            /\ consumed' = consumed \cup ({storage[r].content} \cap Values)
        BY <1>1, <1>6, <2>3, <2>4 DEF AndThen, Then
      <3> QED
        BY <1>1, <2>1, <2>2, <2>3, <3>1, MoveStep
    <2>5. CASE ~HasValue(r)
      <3>1. outcome[r] = "failed"
        BY <1>1, <2>3, <2>5
      <3>2. AssignFrom(q, storage[r], r, "failed") /\ consumed' = consumed
        BY <1>6, <2>5, <3>1 DEF AndThen, Then
      <3> QED
        BY <1>1, <2>1, <2>3, <3>1, <3>2, MoveStep
    <2> QED
      BY <2>4, <2>5
  <1> QED
    BY <1>2, <1>3, <1>4, <1>5, <1>6

\* Every call on a Result<void, E> keeps IInv, whatever the functions that
\* are given to AndThen report.
LEMMA VoidStep == IInv /\ VoidCall => IInv'
  <1> SUFFICES ASSUME IInv, VoidCall PROVE IInv'
    OBVIOUS
  <1> PICK r \in VoidResults :
        \/ VoidFromValue(r) \/ VoidEmplaceValue(r) \/ VoidResolve(r)
        \/ \E q \in VoidResults \ {r} :
              \/ Move(q, r)
              \/ VoidCopy(q, r)
              \/ \E o \in VoidOutcomes : VoidAndThen(q, r, o)
              \/ \E e \in Errors : VoidMapError(q, r, e)
              \/ \E o \in {"ok", "failed"}, e \in Errors : VoidOrElse(q, r, o, e)
    BY DEF VoidCall
  <1>1. /\ r \in Results /\ r \notin TypedResults
        /\ storage[r] \in [holds : {"nothing", "value", "error"}, content : Contents]
        /\ storage[r].content \notin Values
    BY ResultAssumption DEF IInv, TypeOK, VoidHasNoValue, Results
  <1>2. /\ EmptyValue \in [holds : {"nothing", "value", "error"}, content : Contents]
        /\ EmptyValue.content \notin Values
        /\ \A e \in Errors : /\ Error(e) \in [holds : {"nothing", "value", "error"},
                                              content : Contents]
                             /\ Error(e).content \notin Values
    BY ResultAssumption DEF EmptyValue, Value, Error, Contents
  <1>3. CASE VoidFromValue(r) \/ VoidEmplaceValue(r)
    <2>1. Assign(r, EmptyValue, "ok") /\ made' = made /\ consumed' = consumed
      BY <1>3 DEF VoidFromValue, VoidEmplaceValue
    <2> QED
      BY <1>1, <1>2, <2>1, AssignStep
  <1>4. CASE VoidResolve(r)
    <2>1. UNCHANGED <<storage, made, consumed, outcome>>
      BY <1>4 DEF VoidResolve
    <2> QED
      BY <2>1 DEF IInv, TypeOK, ConsumedWasMade, OneOwner, VoidHasNoValue, TypedErrorsTravel,
         ValueArrives, Usable, HasValue
  <1>5. ASSUME NEW q \in VoidResults \ {r}, NEW s, NEW o \in {"ok", "failed"},
               s \in [holds : {"nothing", "value", "error"}, content : Contents],
               s.content \notin Values, made' = made, consumed' = consumed,
               Assign(q, s, o) \/ AssignFrom(q, s, r, o)
        PROVE  IInv'
    <2>1. q \in Results /\ q \notin TypedResults
      BY ResultAssumption DEF Results
    <2> QED
      BY <1>1, <1>5, <2>1, AssignStep, MoveStep
  <1>6. ASSUME NEW q \in VoidResults \ {r}, Move(q, r) \/ VoidCopy(q, r)
        PROVE  IInv'
    BY <1>1, <1>5, <1>6 DEF Move, VoidCopy, Usable
  <1>7. ASSUME NEW q \in VoidResults \ {r}, NEW o \in VoidOutcomes, VoidAndThen(q, r, o)
        PROVE  IInv'
    BY <1>1, <1>5, <1>7, ResultAssumption DEF VoidAndThen, Then, Usable
  <1>8. ASSUME NEW q \in VoidResults \ {r}, NEW e \in Errors, VoidMapError(q, r, e)
        PROVE  IInv'
    BY <1>1, <1>2, <1>5, <1>8 DEF VoidMapError, Usable
  <1>9. ASSUME NEW q \in VoidResults \ {r}, NEW o \in {"ok", "failed"}, NEW e \in Errors,
               VoidOrElse(q, r, o, e)
        PROVE  IInv'
    BY <1>1, <1>2, <1>5, <1>9 DEF VoidOrElse, Returned, Else, Usable
  <1> QED
    BY <1>3, <1>4, <1>6, <1>7, <1>8, <1>9

\* What can be called on either kind.
LEMMA AnyStep == IInv /\ AnyCall => IInv'
  <1> SUFFICES ASSUME IInv, NEW r \in Results,
                      \/ Destroy(r)
                      \/ \E e \in Errors : FromError(r, e) \/ EmplaceError(r, e)
               PROVE  IInv'
    BY DEF AnyCall
  <1>1. CASE Destroy(r)
    <2>1. Assign(r, NoResult, "none") /\ made' = made /\ consumed' = consumed
      BY <1>1 DEF Destroy
    <2>2. /\ NoResult \in [holds : {"nothing", "value", "error"}, content : Contents]
          /\ NoResult.content \notin Values
      BY ResultAssumption DEF NoResult, Contents
    <2> QED
      BY <2>1, <2>2, AssignStep
  <1>2. ASSUME NEW e \in Errors, FromError(r, e) \/ EmplaceError(r, e)
        PROVE  IInv'
    <2>1. Assign(r, Error(e), "failed") /\ made' = made /\ consumed' = consumed
      BY <1>2 DEF FromError, EmplaceError
    <2>2. /\ Error(e) \in [holds : {"nothing", "value", "error"}, content : Contents]
          /\ Error(e).content \notin Values /\ Error(e).holds = "error"
      BY ResultAssumption DEF Error, Contents
    <2> QED
      BY <2>1, <2>2, AssignStep
  <1> QED
    BY <1>1, <1>2

\* The invariant holds in every behaviour.
LEMMA Invariant == Spec => []IInv
  <1>1. IInv /\ [Next]_vars => IInv'
    <2> SUFFICES ASSUME IInv, [Next]_vars PROVE IInv'
      OBVIOUS
    <2>1. CASE Next
      BY <2>1, TypedStep, VoidStep, AnyStep DEF Next
    <2>2. CASE UNCHANGED vars
      BY <2>2 DEF vars, IInv, TypeOK, ConsumedWasMade, OneOwner, VoidHasNoValue,
         TypedErrorsTravel, ValueArrives, Usable, HasValue
    <2> QED
      BY <2>1, <2>2
  <1> QED
    BY <1>1, InitInvariant, PTL DEF Spec

\* A value that is put into a Result arrives: an object that reports success
\* and was not moved from holds a value that was made and that no function
\* has taken over, however many objects and calls the value passed through.
THEOREM ValuesArrive == Spec => []ValueArrives
  BY Invariant, PTL DEF IInv
-----------------------------------------------------------------------------
(***************************************************************************)
(* Failures travel where functions given to a chain without a value do not *)
(* fail.                                                                   *)
(***************************************************************************)
\* A call leaves the alternative that goes with the outcome in the object it
\* writes to.
LEMMA WriteTravels ==
  ASSUME NEW r \in Results, NEW s, NEW o, IInv, ErrorsTravel,
         o \in {"ok", "failed"} => (s.holds = "value" <=> o = "ok"),
         Assign(r, s, o) \/ \E q \in Results \ {r} : AssignFrom(r, s, q, o)
  PROVE  ErrorsTravel'
  <1>1. CASE Assign(r, s, o)
    BY <1>1 DEF Assign, ErrorsTravel, Usable, HasValue, IInv, TypeOK
  <1>2. ASSUME NEW q \in Results \ {r}, AssignFrom(r, s, q, o)
        PROVE  ErrorsTravel'
    BY <1>2 DEF AssignFrom, ErrorsTravel, Usable, HasValue, IInv, TypeOK
  <1> QED
    BY <1>1, <1>2

\* Every step keeps it.
LEMMA ErrorsTravelStep ==
  ASSUME VoidOutcomes \subseteq {"ok"}, IInv, ErrorsTravel, [Next]_vars
  PROVE  ErrorsTravel'
  <1>1. \A v : Value(v).holds = "value"
    BY DEF Value
  <1>2. \A e : Error(e).holds = "error"
    BY DEF Error
  <1>3. EmptyValue.holds = "value" /\ NoResult.holds = "nothing"
    BY DEF EmptyValue, Value, NoResult
  <1>4. \A r \in Results : Usable(r) => /\ outcome[r] \in {"ok", "failed"}
                                        /\ storage[r].holds = "value" <=> outcome[r] = "ok"
    BY DEF ErrorsTravel, Usable, HasValue
  <1>5. CASE TypedCall
    <2> PICK r \in TypedResults :
          \/ \E v \in Values : FromValue(r, v) \/ EmplaceValue(r, v)
          \/ \E q \in TypedResults \ {r} :
                \/ Move(q, r)
                \/ \E e \in Errors : MapError(q, r, e)
                \/ \E v \in Values : OrElse(q, r, Value(v))
                \/ \E e \in Errors : OrElse(q, r, Error(e))
          \/ \E q \in VoidResults, o \in {"ok", "failed"}, e \in Errors : AndThen(q, r, o, e)
      BY <1>5 DEF TypedCall
    <2>1. r \in Results
      BY DEF Results
    <2>2. ASSUME NEW v \in Values, FromValue(r, v) \/ EmplaceValue(r, v)
          PROVE  ErrorsTravel'
      BY <1>1, <2>1, <2>2, WriteTravels DEF FromValue, EmplaceValue
    <2>3. ASSUME NEW q \in TypedResults \ {r}, Move(q, r)
          PROVE  ErrorsTravel'
      BY <1>4, <2>1, <2>3, WriteTravels DEF Move, Results
    <2>4. ASSUME NEW q \in TypedResults \ {r}, NEW e \in Errors, MapError(q, r, e)
          PROVE  ErrorsTravel'
      BY <1>2, <1>4, <2>1, <2>4, WriteTravels DEF MapError, Results, HasValue
    <2>5. ASSUME NEW q \in TypedResults \ {r}, NEW s, s.holds \in {"value", "error"},
                 OrElse(q, r, s)
          PROVE  ErrorsTravel'
      BY <1>4, <2>1, <2>5, WriteTravels DEF OrElse, Else, Results, HasValue
    <2>6. ASSUME NEW q \in VoidResults, NEW o \in {"ok", "failed"}, NEW e \in Errors,
                 AndThen(q, r, o, e)
          PROVE  ErrorsTravel'
      <3>1. q \in Results /\ q # r
        BY ResultAssumption DEF Results
      <3>2. Returned(o, e).holds = "value" <=> o = "ok"
        BY <1>2, <1>3 DEF Returned
      <3> QED
        BY <1>4, <2>1, <2>6, <3>1, <3>2, WriteTravels DEF AndThen, Then, HasValue
    <2> QED
      BY <1>1, <1>2, <2>2, <2>3, <2>4, <2>5, <2>6
  <1>6. CASE VoidCall
    <2> PICK r \in VoidResults :
          \/ VoidFromValue(r) \/ VoidEmplaceValue(r) \/ VoidResolve(r)
          \/ \E q \in VoidResults \ {r} :
                \/ Move(q, r)
                \/ VoidCopy(q, r)
                \/ \E o \in VoidOutcomes : VoidAndThen(q, r, o)
                \/ \E e \in Errors : VoidMapError(q, r, e)
                \/ \E o \in {"ok", "failed"}, e \in Errors : VoidOrElse(q, r, o, e)
      BY <1>6 DEF VoidCall
    <2>1. r \in Results
      BY DEF Results
    <2>2. CASE VoidFromValue(r) \/ VoidEmplaceValue(r)
      BY <1>3, <2>1, <2>2, WriteTravels DEF VoidFromValue, VoidEmplaceValue
    <2>3. CASE VoidResolve(r)
      BY <2>3 DEF VoidResolve, ErrorsTravel, Usable, HasValue
    <2>4. ASSUME NEW q \in VoidResults \ {r}, Move(q, r) \/ VoidCopy(q, r)
          PROVE  ErrorsTravel'
      BY <1>4, <2>1, <2>4, WriteTravels DEF Move, VoidCopy, Results
    <2>5. ASSUME NEW q \in VoidResults \ {r}, NEW o \in VoidOutcomes, VoidAndThen(q, r, o)
          PROVE  ErrorsTravel'
      BY <1>4, <2>1, <2>5, WriteTravels DEF VoidAndThen, Then, Results
    <2>6. ASSUME NEW q \in VoidResults \ {r}, NEW e \in Errors, VoidMapError(q, r, e)
          PROVE  ErrorsTravel'
      BY <1>2, <1>3, <1>4, <2>1, <2>6, WriteTravels DEF VoidMapError, Results, HasValue
    <2>7. ASSUME NEW q \in VoidResults \ {r}, NEW o \in {"ok", "failed"}, NEW e \in Errors,
                 VoidOrElse(q, r, o, e)
          PROVE  ErrorsTravel'
      BY <1>2, <1>3, <1>4, <2>1, <2>7, WriteTravels
         DEF VoidOrElse, Returned, Else, Results, HasValue
    <2> QED
      BY <2>2, <2>3, <2>4, <2>5, <2>6, <2>7
  <1>7. CASE AnyCall
    BY <1>2, <1>3, <1>7, WriteTravels DEF AnyCall, Destroy, FromError, EmplaceError
  <1>8. CASE UNCHANGED vars
    BY <1>8 DEF vars, ErrorsTravel, Usable, HasValue
  <1> QED
    BY <1>5, <1>6, <1>7, <1>8 DEF Next

\* No failure is lost and none invented on the way through a chain, provided
\* that a function given to Result<void, E>::AndThen does not fail: what it
\* returns is dropped.
THEOREM FailuresTravel ==
  ASSUME VoidOutcomes \subseteq {"ok"}
  PROVE  Spec => []ErrorsTravel
  <1>1. Init => ErrorsTravel
    BY DEF Init, ErrorsTravel, Usable, Results
  <1> QED
    BY <1>1, Invariant, ErrorsTravelStep, PTL DEF Spec
=============================================================================
