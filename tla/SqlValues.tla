----------------------------- MODULE SqlValues ------------------------------
(***************************************************************************)
(* Values that the modules on the extension's compiled functions share.    *)
(***************************************************************************)

CONSTANTS Null,          \* SQL's NULL
          None,          \* Rust's None, and what is not there yet
          STALE_NAN,     \* the NaN that marks the end of a series
          USECS_PER_MS   \* microseconds in a millisecond, 1000 in the code

=============================================================================
