----------------------------- MODULE ClarityFilter -----------------------------
(***************************************************************************)
(* Clarity_Filter.cpp: the compiler's set of the types a symbol may have   *)
(* at run time.  flags is the bit set.  dilution is not its cardinality:   *)
(* Set makes it 1, Obscurity CRY_SYMS, Combind the bitwise or of two, and  *)
(* 1 | 11 = 11.  (Dilute serves only lists of exceptions, of which nothing *)
(* but the flags is read: those are plain sets here.)  Definitions         *)
(* commented as faulty are not used: they serve to try the properties.     *)
(***************************************************************************)
EXTENDS Integers, FiniteSets, FiniteSetsExt

(* Symbol_Type.  The order matters: Reduce and Order compare by it.        *)
CRY_NIL == 0
CRY_BOOL == 1
CRY_INT == 2
CRY_INT64 == 3
CRY_DOUBLE == 4
CRY_TEXT == 5
CRY_REFERENCE == 6
CRY_POINTER == 7
CRY_STRING == 8
CRY_ARRAY == 9
CRY_CLASS_OBJ == 10
CRY_SYMS == 11

Types == CRY_NIL .. CRY_SYMS - 1

Filter == [flags : SUBSET Types, dilution : {1, CRY_SYMS}]

(* Faulty: counts the new flag in addition to the old one.                 *)
Set_diluted(t) == [flags |-> {t}, dilution |-> 2]

(* Set(flag), Obscurity().                                                 *)
Set(t)    == [flags |-> {t}, dilution |-> 1]
Obscurity == [flags |-> Types, dilution |-> CRY_SYMS]

Test(f, t)  == t \in f.flags
Only(f, t)  == f.flags = {t}
Order(f, t) == \E u \in f.flags : u >= t
Size(f)     == f.dilution

(* The highest type of two filters.                                        *)
Reduce(l, r) == Max(l.flags \cup r.flags)

(* Combind gives both of its arguments this value.                         *)
Combind(l, r) ==
  [flags    |-> l.flags \cup r.flags,
   dilution |-> IF l.dilution = r.dilution THEN l.dilution ELSE CRY_SYMS]
=============================================================================
