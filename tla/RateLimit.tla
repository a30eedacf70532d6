----------------------------- MODULE RateLimit -----------------------------
(***************************************************************************)
(* Configuration and decisions of the per-address rate limiter of the      *)
(* resource service: CIDR parsing, the checks at boot, and which requests  *)
(* are not counted.  Addresses have AddrBits bits instead of 32 and four   *)
(* parts; the arithmetic of the masks is that of AddrBits-bit words.       *)
(***************************************************************************)
EXTENDS Naturals, FiniteSets, Sequences

CONSTANT AddrBits   \* width of an IPv4 address (32; smaller here)

ASSUME RateLimitAssumption == AddrBits \in Nat \ {0}

Words == 0 .. (2 ^ AddrBits - 1)

\* x << k: JavaScript takes the shift modulo the width, and drops high bits.
Shl(x, k) == (x * 2 ^ (k % AddrBits)) % 2 ^ AddrBits

Bit(x, k) == (x \div 2 ^ k) % 2

\* The sum of the bits both words have.
And(x, y) ==
    LET S[k \in 0 .. AddrBits] ==
            IF k = 0 THEN 0
            ELSE S[k - 1] + Bit(x, k - 1) * Bit(y, k - 1) * 2 ^ (k - 1)
    IN  S[AddrBits]

\* Mutant: no case of its own for an empty prefix, though a shift by the
\* width is a shift by nothing.
maskShifted(prefix) ==
    IF prefix >= AddrBits THEN 2 ^ AddrBits - 1
    ELSE Shl(2 ^ AddrBits - 1, AddrBits - prefix)

maskForPrefix(prefix) ==
    IF prefix <= 0 THEN 0
    ELSE IF prefix >= AddrBits THEN 2 ^ AddrBits - 1
    ELSE Shl(2 ^ AddrBits - 1, AddrBits - prefix)

---------------------------------------------------------------------------
(* Entries of RATE_LIMIT_ALLOWLIST_CIDRS.  An entry is what can be read in *)
(* its text: its family ("v4" when the four parts are in range, "v6" when  *)
(* it has a colon, else "none"), for v4 the address, for v6 whether it is  *)
(* the unspecified address written as :: ; its prefix, or none.  A prefix  *)
(* is what Number() makes of its text: '' is 0, '0x8' is 8, '1e1' is 10.   *)

NoPrefix == 1000   \* no slash
NotANumber == 1001 \* a prefix of which Number() makes no natural number

\* What is read in a text; an address, of four parts that are in range.
IsEntry(entry) ==
    /\ DOMAIN entry = {"family", "addr", "prefix", "wellFormed", "unspecified"}
    /\ entry.family \in {"v4", "v6", "none"}
    /\ entry.family = "v4" => entry.addr \in Words

EntryError(entry) ==
    CASE entry.family = "v4" -> entry.prefix \notin 0 .. AddrBits \cup {NoPrefix}
      [] entry.family = "v6" -> \/ ~entry.wellFormed
                                \/ entry.prefix \notin 0 .. 4 * AddrBits \cup {NoPrefix}
      [] OTHER               -> TRUE

PrefixOf(entry, full) == IF entry.prefix = NoPrefix THEN full ELSE entry.prefix

ParseSingleCidr(entry) ==
    IF entry.family = "v4"
    THEN LET prefix == PrefixOf(entry, AddrBits) IN
         [kind |-> "ipv4", prefix |-> prefix, mask |-> maskForPrefix(prefix),
          base |-> And(entry.addr, maskForPrefix(prefix))]
    ELSE [kind |-> "ipv6", prefix |-> PrefixOf(entry, 4 * AddrBits),
          unspecified |-> entry.unspecified]

ParseErrors(entries) == {e \in entries : EntryError(e)}

ParseCidrList(entries) == {ParseSingleCidr(e) : e \in entries \ ParseErrors(entries)}

WideOpen(cidr) == /\ cidr.prefix <= 1
                  /\ cidr.kind = "ipv6" => cidr.unspecified

FindWideOpenCidrs(cidrs) == {c \in cidrs : WideOpen(c)}

\* loadConfig comes back; otherwise the process exits with 1.
ConfigAccepted(environment) ==
    /\ environment.schemaOk
    /\ ParseErrors(environment.entries) = {}
    /\ environment.nodeEnv = "production" =>
           FindWideOpenCidrs(ParseCidrList(environment.entries)) = {}

---------------------------------------------------------------------------
(* Requests.  An address is a v4 one, a v4 one mapped into v6, or a v6     *)
(* one, for which only ::1 matters.                                        *)

Loopback == 2 ^ AddrBits - 1   \* stands for 127.0.0.1

IsLoopback(ip) == \/ ip.form \in {"v4", "mapped"} /\ ip.addr = Loopback
                  \/ ip.form = "v6" /\ ip.loopback

InAllowlist(ip, cidrs) ==
    /\ ip.form \in {"v4", "mapped"}
    /\ \E c \in cidrs : c.kind = "ipv4" /\ And(ip.addr, c.mask) = c.base

IsExcludedPath(path) == path \in {"health", "metrics"}

\* The limiter's skip callback; a request without an address is counted.
Skip(ip, path, cidrs) ==
    /\ ip.form # "none"
    /\ IsLoopback(ip) \/ InAllowlist(ip, cidrs) \/ IsExcludedPath(path)
============================================================================
