--------------------------- MODULE ResourceErrors --------------------------
(***************************************************************************)
(* The errors of the resource service and the responses they become.  An   *)
(* error is a record: its class is its code, but for what no layer has     *)
(* typed yet ("unknown", e.g. the timeout of the singleflight or a failure *)
(* of the limiter's store) and the body parser's errors ("bodyParser").    *)
(***************************************************************************)
EXTENDS Naturals

\* ERROR_CODE_META
StatusFor ==
    [VALIDATION |-> 400, BAD_REQUEST |-> 400, NOT_FOUND |-> 404, CONFLICT |-> 409,
     UNPROCESSABLE_ENTITY |-> 422, RATE_LIMIT |-> 429,
     DEPENDENCY_UNAVAILABLE |-> 503, INTERNAL_ERROR |-> 500]

ErrorCodes == DOMAIN StatusFor

AppError(code)          == [class |-> "app", code |-> code, details |-> FALSE]
ValidationError(detail) == [class |-> "app", code |-> "VALIDATION", details |-> detail]
Unknown                 == [class |-> "unknown"]
BodyParserError(type)   == [class |-> "bodyParser", type |-> type]

\* The types the body parser may give its errors; the program knows two.
ParserTypes  == {"entity.parse.failed", "entity.too.large", "encoding.unsupported",
                 "charset.unsupported", "request.size.invalid"}
ParserErrors == {BodyParserError(type) : type \in ParserTypes}

\* SQLSTATEs, and what is not a pg error, as mapDbError tells them apart.
mapDbError(sqlstate) ==
    CASE sqlstate = "23505"                       -> AppError("CONFLICT")
      [] sqlstate = "23502"                       -> ValidationError(TRUE)
      [] sqlstate \in {"23503", "22001"}          -> ValidationError(FALSE)
      [] sqlstate \in {"40P01", "57014", "53300"} -> AppError("DEPENDENCY_UNAVAILABLE")
      [] OTHER                                    -> AppError("INTERNAL_ERROR")

normalizeBodyParserError(error) ==
    IF error.class = "bodyParser" /\ error.type \in {"entity.too.large", "entity.parse.failed"}
    THEN ValidationError(FALSE) ELSE error

wrapUnknown(error) ==
    IF error.class = "app" THEN error ELSE AppError("INTERNAL_ERROR")

\* What is sent: details for validation errors only, an errorId for server
\* errors only.
PublicResponse(e, xcache) ==
    [status  |-> StatusFor[e.code],
     code    |-> e.code,
     details |-> e.code = "VALIDATION" /\ e.details,
     errorId |-> StatusFor[e.code] >= 500,
     xcache  |-> xcache]

\* The handler writes one response; X-Cache is whatever was marked before.
ErrorResponse(error, xcache) ==
    PublicResponse(wrapUnknown(normalizeBodyParserError(error)), xcache)
============================================================================
