---------------------------- MODULE Enumerations ----------------------------
(***************************************************************************)
(* The enumerations that errors, log messages and records are made of:     *)
(* core_domain.h, core_error.h, core_log_message.h, core_log_record.h.     *)
(* Enumerators count from 0 in the order they are given here, and e_COUNT  *)
(* is the length of their sequence.                                        *)
(***************************************************************************)
EXTENDS Naturals, Sequences

Domain == [e_UNKNOWN |-> 0, e_CORE |-> 1, e_VULKAN |-> 2, e_METAL |-> 3]

\* The domains that an enumeration of reasons and one of messages belong to.
Subsystems == {"e_CORE", "e_VULKAN", "e_METAL"}

Kind == <<"e_UNKNOWN", "e_EXHAUSTED">>

Reason ==
    [e_CORE |-> <<"e_UNKNOWN", "e_LOG_TOO_MANY_THREADS">>,
     e_VULKAN |-> <<"e_UNKNOWN">>,
     e_METAL |-> <<"e_UNKNOWN">>]

Message ==
    [e_CORE |-> <<"e_UNKNOWN">>, e_VULKAN |-> <<"e_UNKNOWN">>, e_METAL |-> <<"e_UNKNOWN">>]

\* What the argument of a message may be declared to be.
Argument == {"e_NONE", "e_UNSIGNED", "e_SIGNED", "e_HEX", "e_FLOAT"}

Severities == 0..5

LogRecordType == [e_ERROR |-> 0, e_MESSAGE |-> 1]
=============================================================================
