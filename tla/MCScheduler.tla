------------------------------ MODULE MCScheduler ------------------------------
(* Every stage of three systems within these limits. *)
EXTENDS Scheduler

CONSTANTS
  F, G, H,          \* functions
  D                 \* one component or resource type

Functions == {F, G, H}
OneType   == {D}

Three == 1 .. 3

(* A declaration: system i is before or after function f.                  *)
Declarations == Three \X Functions \X {"before", "after"}

UpToTwo   == {{}} \cup {{x, y} : x, y \in Declarations}
UpToThree == {d \cup {z} : d \in UpToTwo, z \in Declarations} \cup {{}}

System(i, fn, registration, access, declared) ==
  [fn           |-> fn[i],
   registration |-> registration[i],
   reads        |-> IF access[i] = "read" THEN {D} ELSE {},
   writes       |-> IF access[i] = "write" THEN {D} ELSE {},
   before       |-> {f \in Functions : <<i, f, "before">> \in declared},
   after        |-> {f \in Functions : <<i, f, "after">> \in declared}]

Stage(fn, registration, access, declared) ==
  <<System(1, fn, registration, access, declared),
    System(2, fn, registration, access, declared),
    System(3, fn, registration, access, declared)>>

InOrder   == <<0, 1, 2>>
AnyOrder  == {InOrder, <<0, 2, 1>>, <<1, 0, 2>>, <<1, 2, 0>>, <<2, 0, 1>>, <<2, 1, 0>>, <<0, 0, 0>>}
NoAccess  == [i \in Three |-> "none"]
AnyAccess == [Three -> {"none", "read", "write"}]

Distinct == {<<F, G, H>>}
Copied   == {<<F, G, F>>}

(* Every access in one registration order, every order with one access.    *)
Profiles == ({InOrder} \X AnyAccess) \cup (AnyOrder \X {NoAccess})

SmallStages ==
  {Stage(fn, profile[1], profile[2], declared) :
     fn \in Distinct \cup Copied, profile \in Profiles, declared \in UpToThree}

CopiedStages ==
  {Stage(fn, InOrder, NoAccess, declared) : fn \in Copied, declared \in UpToTwo}
=============================================================================
