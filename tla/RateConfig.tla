------------------------------ MODULE RateConfig ------------------------------
(***************************************************************************)
(* From the <Global> element of the configuration to the key a request is  *)
(* limited by (src/src/config.cpp): loadGlobalRateLimit and load_limiter   *)
(* with their defaults, get_key_func, and loadPipeline, which has to put   *)
(* the limiter behind the parser when its key is read from the request.    *)
(* The limiter of a route is loaded by the same load_limiter and always    *)
(* stands behind the parser.                                               *)
(*                                                                         *)
(* An attribute is abstracted to what its parser makes of it: a number is  *)
(* <<>> (absent, or stoi throws) or <<n>>; a time and a rate have a form   *)
(* ("none": absent or without digits, "huge": out of stoi's range, or      *)
(* "number"), a number n and a unit.  A number fits an int, as stoi sees   *)
(* to; its product with a unit may not, and wraps as the machine's         *)
(* multiplication does.                                                    *)
(***************************************************************************)
EXTENDS Integers, Sequences

CONSTANTS Configs,  \* what the configuration file may say
          Parts,    \* what a key may be read from: header names, "query"
          Requests, \* functions of Parts to values: "" when the request has none
          INT_RANGE \* how many values an int has (2^32)

ASSUME RateConfigAssumption ==
  /\ {"X-Forwarded-For", "query"} \subseteq Parts
  /\ "ip" \notin Parts
  /\ INT_RANGE \in Nat \ {0}
  /\ \A file \in Configs :
       /\ file.rate.algorithm \in {"absent", "fixed", "bucket", "other"}
       /\ \A t \in {file.rate.window, file.rate.refill_rate} :
            t.form \in {"none", "huge", "number"} /\ t.n \in 0..(INT_RANGE \div 2 - 1)

\* config.h:28-31
DEFAULT_WINDOW_SECONDS == 60
DEFAULT_MAX_REQUESTS   == 3000
DEFAULT_TOKEN_CAPACITY == 60
DEFAULT_REFILL_RATE    == 2

VARIABLES config,   \* the file, fixed
          limiter,  \* the middleware made of it, or one of the values below
          place,    \* "unset", "none", "before" or "after" the parser
          request,  \* the request being limited
          key       \* what make_key returned for it, "400" for an exception

rateVars == <<config, limiter, place, request, key>>

Unset == [algorithm |-> "unset"]
Nothing == [algorithm |-> "none"]

-----------------------------------------------------------------------------
\* Numbers and times.

LoadInt(attr, fallback) == IF attr = <<>> THEN fallback ELSE attr[1]

\* get_seconds_multiplier knows lower-case names; anything else is seconds.
Multiplier(unit) ==
  CASE unit = "d" -> 86400 [] unit = "h" -> 3600 [] unit = "m" -> 60 [] OTHER -> 1

\* "M" stands for every unit written in upper case.
ToLower(unit) == IF unit = "M" THEN "m" ELSE unit

\* The int that a product of ints comes to.
AsInt(n) == ((n + INT_RANGE \div 2) % INT_RANGE) - INT_RANGE \div 2

SecondsAsked(time) == Multiplier(ToLower(time.unit)) * time.n

\* Slip: a number that cannot be read is a zero.
WindowSecondsZeroIfHuge(time) ==
  CASE time.form = "none"   -> DEFAULT_WINDOW_SECONDS
    [] time.form = "huge"   -> 0
    [] time.form = "number" -> AsInt(SecondsAsked(time))

\* get_seconds_from_time_str: the product is an int and may wrap.
WindowSeconds(time) ==
  IF time.form = "number" THEN AsInt(SecondsAsked(time)) ELSE DEFAULT_WINDOW_SECONDS

\* Slip: the quotient is rounded up.
RefillRateRoundedUp(rate) ==
  IF rate.form = "none" THEN DEFAULT_REFILL_RATE
  ELSE LET value == IF rate.form = "huge" THEN 0 ELSE rate.n
           per   == IF rate.slash THEN Multiplier(rate.unit) ELSE 1
       IN  (value + per - 1) \div per

\* load_refill_rate: digits out of range leave value at 0, and without a '/'
\* find's npos + 1 is 0, so the whole string is taken for the unit.
RefillRate(rate) ==
  IF rate.form = "none" THEN DEFAULT_REFILL_RATE
  ELSE LET value == IF rate.form = "huge" THEN 0 ELSE rate.n
       IN  value \div (IF rate.slash THEN Multiplier(rate.unit) ELSE 1)

-----------------------------------------------------------------------------
\* Keys.  A key function is the part of the request it reads and whether a
\* request without that part is limited by its address (or refused).
IpKey == [reads |-> "ip", ip_fallback |-> TRUE]

Source(elem) ==
  CASE elem.type = "header" /\ elem.name # "" -> elem.name
    [] elem.type = "xff"                      -> "X-Forwarded-For"
    [] elem.type = "query"                    -> "query"
    [] OTHER                                  -> "ip"

\* get_key_func for the element's Key, type "absent" when there is none; a
\* fallback attribute that is not "ip" is none.
KeyFunc(elem) == [reads |-> Source(elem), ip_fallback |-> elem.fallback \in {"absent", "ip"}]

\* What get_key_func reports through its uses_ip argument.
UsesIp(made) == made.reads = "ip"

\* parseXff: the text before the first comma, trimmed; "" when that is blank.
\* (Only forwarding headers have such a value.)
ParseXff(value) == IF value = "blank first" THEN "" ELSE value

\* Before the parser ran a request has neither headers nor a query.
NotParsed == [p \in Parts |-> ""]

\* make_key(txn): "400" stands for the HTTPException.  getHeader compares the
\* names of headers byte by byte.
MakeKey(made, txn) ==
  IF made.reads = "ip" THEN "ip"
  ELSE IF txn[made.reads] # "" THEN ParseXff(txn[made.reads])
  ELSE IF made.ip_fallback THEN "ip" ELSE "400"

-----------------------------------------------------------------------------
\* Limiters.
DefaultFixedWindow ==
  [algorithm |-> "fixed", max_requests |-> DEFAULT_MAX_REQUESTS,
   window |-> DEFAULT_WINDOW_SECONDS, make_key |-> IpKey]

FixedWindowOf(elem) ==
  [algorithm |-> "fixed", max_requests |-> LoadInt(elem.max_requests, DEFAULT_MAX_REQUESTS),
   window |-> WindowSeconds(elem.window), make_key |-> KeyFunc(elem.key)]

TokenBucketOf(elem) ==
  [algorithm |-> "bucket", capacity |-> LoadInt(elem.capacity, DEFAULT_TOKEN_CAPACITY),
   refill_rate |-> RefillRate(elem.refill_rate), make_key |-> KeyFunc(elem.key)]

\* load_limiter: an algorithm it does not know takes the element's key with it.
Limiter(elem) ==
  CASE elem.algorithm \in {"absent", "fixed"} -> FixedWindowOf(elem)
    [] elem.algorithm = "bucket"              -> TokenBucketOf(elem)
    [] OTHER                                  -> DefaultFixedWindow

\* loadGlobalRateLimit: `disable` is an attribute of RateLimit for the code.
GlobalLimiter(file) ==
  IF ~file.has_rate THEN DefaultFixedWindow
  ELSE IF file.rate.disable THEN Nothing ELSE Limiter(file.rate)

-----------------------------------------------------------------------------
RateInit ==
  /\ limiter = Unset
  /\ place = "unset"
  /\ request = NotParsed
  /\ key = "none"

\* Slip: every limiter is put in front of the parser.
PlaceInFront(made) == IF made = Nothing THEN "none" ELSE "before"

\* loadPipeline
Place(made) ==
  IF made = Nothing THEN "none"
  ELSE IF UsesIp(made.make_key) THEN "before" ELSE "after"

LoadPipeline ==
  /\ place = "unset"
  /\ limiter' = GlobalLimiter(config)
  /\ place' = Place(limiter')
  /\ UNCHANGED <<config, request, key>>

\* A request reaches the limiter.
Limit ==
  /\ place \in {"before", "after"}
  /\ request' \in Requests
  /\ key' = MakeKey(limiter.make_key, IF place = "before" THEN NotParsed ELSE request')
  /\ UNCHANGED <<config, limiter, place>>

RateNext == LoadPipeline \/ Limit \/ (place = "none" /\ UNCHANGED rateVars)

RateSpec == config \in Configs /\ RateInit /\ [][RateNext]_rateVars

-----------------------------------------------------------------------------
Loaded == place # "unset"
Keyed == key # "none"

\* The RateLimit element whose attributes count, when there is one.
Honoured == Loaded /\ limiter # Nothing /\ config.has_rate
              /\ config.rate.algorithm # "other"
Elem == config.rate

\* Every request is limited by the key the configuration names, read from the
\* request as the parser delivers it, wherever loadPipeline put the limiter; a
\* 400 comes only of fallback="error" (or another word that is not "ip").  A
\* forwarding header whose first field is blank is a key too, the same for all.
KeyAsConfigured ==
  Honoured /\ Keyed =>
    LET part == Source(Elem.key)
        asked == IF part = "ip" THEN "" ELSE request[part]
    IN  key = IF asked = "blank first" THEN ""
              ELSE IF asked # "" THEN asked
              ELSE IF part = "ip" \/ Elem.key.fallback \in {"absent", "ip"} THEN "ip" ELSE "400"

\* A rate is rounded down to whole tokens per second, never up, and by less
\* than one token per second (README.md:268): over any whole unit a client gets
\* at most the configured tokens and misses fewer than the unit has seconds.
WellFormed(rate) == rate.form = "number" /\ rate.slash

RateRoundedDown ==
  Honoured /\ limiter.algorithm = "bucket" /\ WellFormed(Elem.refill_rate) =>
    LET unit == Multiplier(Elem.refill_rate.unit)
        granted == limiter.refill_rate * unit
    IN  granted <= Elem.refill_rate.n /\ Elem.refill_rate.n - granted < unit

\* A fixed window has the seconds its attribute asks for when an int can hold
\* them, and never more.  What an int cannot hold wraps (config.cpp:91): such a
\* window is shorter, 0 or negative.  FixedWindowLimiter divides by the window
\* (Middleware.cpp:188), so a window that is not positive is a fault: it comes
\* only from digits that say 0 or from a product that wraps, never from a missing
\* or malformed attribute, nor from a number that stoi refuses.
WindowAsFarAsItFits ==
  Loaded /\ limiter.algorithm = "fixed" =>
    LET asked == Honoured /\ Elem.window.form = "number"
        fits  == SecondsAsked(Elem.window) < INT_RANGE \div 2
    IN  /\ asked => limiter.window <= SecondsAsked(Elem.window)
        /\ asked /\ fits => limiter.window = SecondsAsked(Elem.window)
        /\ limiter.window <= 0 => asked /\ (fits => Elem.window.n = 0)

\* A limiter limits by what the file says and as fast as it says, but for a
\* window whose seconds an int cannot hold.
LimiterAsConfigured == KeyAsConfigured /\ RateRoundedDown /\ WindowAsFarAsItFits
=============================================================================
