------------------------------ MODULE Outcome ------------------------------
(***************************************************************************)
(* The typed results of error.rs.  Every fallible operation of the reader  *)
(* returns Ok(value) or an Error that carries a stable token; the token is *)
(* what a caller (a boot loader's trust log) tells failures apart by, so a *)
(* model keeps the variant and the token and drops the numbers (offsets,   *)
(* guids) that only locate the failure.                                    *)
(***************************************************************************)

\* Variants of enum Error.
ErrorKind == {"Io", "BadLabel", "NoValidUberblock", "UnsupportedFeature",
              "UnsupportedTopology", "Unsupported", "ChecksumMismatch",
              "Inconsistent", "UnsupportedCompression", "BadCompression",
              "NotFound", "NotARegularFile", "NotADirectory", "NotASymlink",
              "FileTooLarge", "OutOfMemory"}

\* Result<T>: Ok(v) and Err(e).
Ok(v) == [ok |-> TRUE, val |-> v]
Err(kind, token) == [ok |-> FALSE, kind |-> kind, token |-> token]

\* The call has not returned.
Pending == [pending |-> TRUE]

\* The variants whose token is the variant's own name (Error::token).
NotFound == Err("NotFound", "not_found")
NotADirectory == Err("NotADirectory", "not_a_directory")
NotARegularFile == Err("NotARegularFile", "not_a_regular_file")
FileTooLarge == Err("FileTooLarge", "file_too_large")
UnsupportedCompression == Err("UnsupportedCompression", "comp_unsupported")

\* r is an error; r is Ok of one of Values or an error.
IsErr(r) == r.ok = FALSE /\ r.kind \in ErrorKind
IsResult(r, Values) == (r.ok = TRUE /\ r.val \in Values) \/ IsErr(r)
=============================================================================
