------------------------------- MODULE Tables -------------------------------
(***************************************************************************)
(* The tables that say how each enumerator is shown (core_domain.h,        *)
(* core_error_catalog.h, core_log_message_catalog.h) and what argument     *)
(* each message takes (core_log_message.h).  An entry belongs to the       *)
(* enumerator at its position, so a table is only right if it has an entry *)
(* for each: the compiler rejects the others.                              *)
(*                                                                         *)
(* A source is the enumerations and the tables that someone wrote.         *)
(***************************************************************************)
EXTENDS Enumerations, LogMessageText

\* The tables of this repository.
k_DOMAIN_NAMES == <<"unknown", "core", "vulkan", "metal">>
k_KIND_NAMES == <<"unknown", "exhausted">>
k_NAMES ==
    [e_CORE |-> <<"unknown", "log_too_many_threads">>,
     e_VULKAN |-> <<"unknown">>,
     e_METAL |-> <<"unknown">>]
k_ARGUMENTS == [of \in Subsystems |-> <<"e_NONE">>]
k_TEXTS == [of \in Subsystems |-> <<<<"unknown">>>>]

Repository ==
    [kinds |-> Kind, reasons |-> Reason, messages |-> Message,
     domain_names |-> k_DOMAIN_NAMES, kind_names |-> k_KIND_NAMES,
     reason_names |-> k_NAMES, arguments |-> k_ARGUMENTS, texts |-> k_TEXTS]

-----------------------------------------------------------------------------
(* What the compiler checks.  (An operator named X_Fault is X with a bug,  *)
(* for showing that a property detects it; nothing else uses it.)          *)

\* LogMessageText::table runs while its texts compile, and stops at a text that
\* no message takes or that does not suit the argument of its message.
TableCompiles(texts, arguments) ==
    /\ Len(texts) <= Len(arguments)
    /\ \A i \in DOMAIN texts : is_valid(texts[i], arguments[i])

\* One entry per enumerator, and texts that suit.
DomainsBuild(s) == Len(s.domain_names) = Cardinality(DOMAIN Domain)
KindsBuild(s) == Len(s.kind_names) = Len(s.kinds)
ReasonsBuild(s) == \A of \in Subsystems : Len(s.reason_names[of]) = Len(s.reasons[of])
ArgumentsBuild(s) == \A of \in Subsystems : Len(s.arguments[of]) = Len(s.messages[of])
TextsBuild_SomeMissing(s) ==
    \A of \in Subsystems : TableCompiles(s.texts[of], s.arguments[of])
TextsBuild(s) ==
    \A of \in Subsystems :
        /\ TableCompiles(s.texts[of], s.arguments[of])
        /\ Len(s.texts[of]) = Len(s.messages[of])

Builds(s) ==
    DomainsBuild(s) /\ KindsBuild(s) /\ ReasonsBuild(s) /\ ArgumentsBuild(s) /\ TextsBuild(s)
=============================================================================
