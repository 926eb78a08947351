----------------------------- MODULE GrpcStatus -----------------------------
(***************************************************************************)
(* The status spaces a Spark Connect call crosses and the conversion       *)
(* between them (internal/sparkconnect/errors.go).  A gRPC status code is  *)
(* the string of its name in google.golang.org/grpc/codes; an ADBC status  *)
(* is the string of its name in the adbc package.                          *)
(***************************************************************************)

GrpcCodes == {"OK", "Canceled", "Unknown", "InvalidArgument",
              "DeadlineExceeded", "NotFound", "AlreadyExists",
              "PermissionDenied", "ResourceExhausted", "FailedPrecondition",
              "Aborted", "OutOfRange", "Unimplemented", "Internal",
              "Unavailable", "DataLoss", "Unauthenticated"}

AdbcStatuses == {"OK", "Unknown", "NotImplemented", "NotFound",
                 "AlreadyExists", "InvalidArgument", "InvalidState",
                 "Internal", "IO", "Cancelled", "Timeout", "Unauthenticated",
                 "Unauthorized"}

\* The codes the switch of grpcToADBC names, with their ADBC status.
NamedCodes ==
    [OK |-> "OK", Canceled |-> "Cancelled",
     InvalidArgument |-> "InvalidArgument", DeadlineExceeded |-> "Timeout",
     NotFound |-> "NotFound", AlreadyExists |-> "AlreadyExists",
     Unauthenticated |-> "Unauthenticated",
     PermissionDenied |-> "Unauthorized",
     Unimplemented |-> "NotImplemented", Unavailable |-> "IO"]

grpcToADBC(code) ==
    IF code \in DOMAIN NamedCodes THEN NamedCodes[code] ELSE "Internal"

=============================================================================
