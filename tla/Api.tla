--------------------------------- MODULE Api ---------------------------------
(***************************************************************************)
(* One HTTP request from the router to its answer: the logger, the token   *)
(* check, the decoding of parameters and body, the role, the validation,   *)
(* the service, and the mapping of its result to a status and an error     *)
(* code (app/app.go, middleware/, handler/, apierr/).                      *)
(*                                                                         *)
(* Requests share no state before the database, so one at a time is        *)
(* enough. What the database holds is open: a service answers with any     *)
(* error it knows, or with success if the tables take the row it writes.   *)
(***************************************************************************)
EXTENDS Pricing, FiniteSets

CONSTANTS
    None,
    Bodies,     \* [Ops -> what bodies or queries clients send to the operation]
    Prices,     \* prices of products in the table, in cents
    Promos      \* rows of promo_codes that an order may meet

Public == {"registerUser", "loginUser", "refreshToken"}
SellerOps == {"createProduct", "updateProduct", "deleteProduct", "createPromoCode"}
OrderOps == {"createOrder", "getOrder", "updateOrder", "cancelOrder"}
Ops == Public \cup SellerOps \cup OrderOps \cup {"listProducts", "getProduct"}

Roles == {"USER", "SELLER", "ADMIN"}
Statuses == {"ACTIVE", "INACTIVE", "ARCHIVED"}

\* The Authorization header: a Bearer token with the claims of a role, one whose
\* exp is over, or anything else.
Bearers == Roles \cup {"expired", "invalid"}

\* Parameters and JSON as sent: good, bad, or good and longer than 64 KiB, with
\* the length announced or in chunks.
Forms == {"good", "bad", "long", "chunked"}

ASSUME ApiAssumption ==
    /\ None \notin {"OK", "INTERNAL", "VALIDATION_ERROR", "PROMO_CODE_DUPLICATE"}
    /\ Prices \subseteq Nat \ {0}
    /\ Promos \subseteq Promo
    /\ DOMAIN Bodies = Ops
    /\ \A b \in Bodies["createProduct"] \cup Bodies["updateProduct"] : b.price \in Int /\ b.stock \in Int
    /\ \A b \in Bodies["listProducts"] : b.page \in Int /\ b.size \in Int

VARIABLES
    stage,      \* how far the request has come
    req,        \* the request: op, bearer, form, body
    role,       \* the role in the context of the request
    result,     \* what the service returned: the code of an error, and the row it wrote
    answer      \* the status and the error code that the client sees

vars == <<stage, req, role, result, answer>>

TypeOK ==
    /\ stage \in {"sent", "logged", "routed", "decoded", "allowed", "valid", "served", "answered"}
    /\ req.op \in Ops /\ req.bearer \in Bearers /\ req.form \in Forms /\ req.body \in Bodies[req.op]
    /\ role \in Roles \cup {None}
    /\ answer = None \/ answer.status \in {200, 201, 400, 401, 403, 404, 409, 422, 429, 500}

Requests == UNION {[op : {op}, bearer : Bearers, form : Forms, body : Bodies[op]] : op \in Ops}

Fresh == stage = "sent" /\ role = None /\ result = [code |-> None, row |-> None] /\ answer = None

Init == req \in Requests /\ Fresh

-----------------------------------------------------------------------------
(* Answers. *)

\* HTTPStatusCode of apierr.
HTTPStatusCode(code) ==
    CASE code = "VALIDATION_ERROR" -> 400
      [] code \in {"TOKEN_EXPIRED", "TOKEN_INVALID", "REFRESH_TOKEN_INVALID", "INVALID_CREDENTIALS"} -> 401
      [] code \in {"ACCESS_DENIED", "ORDER_OWNERSHIP_VIOLATION"} -> 403
      [] code \in {"PRODUCT_NOT_FOUND", "ORDER_NOT_FOUND"} -> 404
      [] code \in {"PRODUCT_INACTIVE", "ORDER_HAS_ACTIVE", "INVALID_STATE_TRANSITION",
                   "INSUFFICIENT_STOCK", "USER_ALREADY_EXISTS"} -> 409
      [] code \in {"PROMO_CODE_INVALID", "PROMO_CODE_MIN_AMOUNT"} -> 422
      [] code = "ORDER_LIMIT_EXCEEDED" -> 429
      [] OTHER -> 500

Reply(status, code) == answer' = [status |-> status, code |-> code] /\ stage' = "answered"

Deny(status, code) == Reply(status, code) /\ UNCHANGED <<req, role, result>>

Pass(next) == stage' = next /\ UNCHANGED <<req, result, answer>>

-----------------------------------------------------------------------------
(* The middleware. *)

\* Logger reads at most 64 KiB of a body whose length is announced and hands on
\* what it has read.
HasBody(op) == op \notin {"listProducts", "getProduct", "deleteProduct", "getOrder", "cancelOrder"}

Log ==
    /\ stage = "sent"
    /\ stage' = "logged"
    /\ req' = IF req.form = "long" /\ HasBody(req.op) THEN [req EXCEPT !.form = "bad"] ELSE req
    /\ UNCHANGED <<role, result, answer>>

\* Mutant: the middleware goes on after it has refused.
AuthenticateAnyway ==
    /\ stage = "logged"
    /\ role' = IF req.op \in Public THEN None ELSE req.bearer
    /\ Pass("routed")

\* Auth, on every route but the public ones.
Authenticate ==
    /\ stage = "logged"
    /\ req.op \in Public \/ req.bearer \in Roles
    /\ role' = IF req.op \in Public THEN None ELSE req.bearer
    /\ Pass("routed")

RejectToken ==
    /\ stage = "logged"
    /\ req.op \notin Public /\ req.bearer \notin Roles
    /\ Deny(401, IF req.bearer = "expired" THEN "TOKEN_EXPIRED" ELSE "TOKEN_INVALID")

-----------------------------------------------------------------------------
(* The generated server decodes the path, the query and the body. *)

Decode == stage = "routed" /\ req.form # "bad" /\ Pass("decoded") /\ UNCHANGED role

RequestErrorHandler == stage = "routed" /\ req.form = "bad" /\ Deny(400, "VALIDATION_ERROR")

-----------------------------------------------------------------------------
(* The handler: requireRole, then the validator. *)

Allowed(op) ==
    IF op \in SellerOps THEN {"SELLER", "ADMIN"}
    ELSE IF op \in OrderOps THEN {"USER", "ADMIN"} ELSE Roles \cup {None}

requireRole == stage = "decoded" /\ role \in Allowed(req.op) /\ Pass("allowed") /\ UNCHANGED role

RefuseRole == stage = "decoded" /\ role \notin Allowed(req.op) /\ Deny(403, "ACCESS_DENIED")

\* Bodies are sent in tenths of a cent and stored in cents. Mutant: a price must
\* only be positive.
PositivePrice(r) ==
    CASE r.op \in {"createProduct", "updateProduct"} ->
            r.body.text /\ r.body.price > 0 /\ r.body.stock >= 0
      [] r.op \in {"createOrder", "updateOrder"} ->
            /\ r.body.lines \in 1 .. 50
            /\ r.body.qty \in 1 .. 999
            /\ r.op = "createOrder" => r.body.code # "ill formed"
      [] OTHER -> TRUE

\* The validator; operations that are not named here validate nothing.
Valid(r) ==
    CASE r.op \in {"createProduct", "updateProduct"} ->
            r.body.text /\ r.body.price >= 10 /\ r.body.stock >= 0
      [] r.op \in {"createOrder", "updateOrder"} ->
            /\ r.body.lines \in 1 .. 50
            /\ r.body.qty \in 1 .. 999
            /\ r.op = "createOrder" => r.body.code # "ill formed"
      [] OTHER -> TRUE

Validate == stage = "allowed" /\ Valid(req) /\ Pass("valid") /\ UNCHANGED role

RefuseBody == stage = "allowed" /\ ~Valid(req) /\ Deny(400, "VALIDATION_ERROR")

-----------------------------------------------------------------------------
(* The service: the error codes that it knows, and the row that it writes  *)
(* or the page that it asks for.                                           *)

Failures ==
    LET product == {"PRODUCT_NOT_FOUND", "PRODUCT_INACTIVE", "INSUFFICIENT_STOCK"}
        owner == {"ORDER_NOT_FOUND"} \cup
                    IF role = "ADMIN" THEN {} ELSE {"ORDER_OWNERSHIP_VIOLATION"}
        seller == {"PRODUCT_NOT_FOUND"} \cup IF role = "SELLER" THEN {"ACCESS_DENIED"} ELSE {}
        promo == IF req.body.code = None THEN {} ELSE {"PROMO_CODE_INVALID", "PROMO_CODE_MIN_AMOUNT"}
    IN CASE req.op = "registerUser" -> {"USER_ALREADY_EXISTS"}
         [] req.op = "loginUser" -> {"INVALID_CREDENTIALS"}
         [] req.op = "refreshToken" -> {"REFRESH_TOKEN_INVALID"}
         [] req.op = "getProduct" -> {"PRODUCT_NOT_FOUND"}
         [] req.op \in {"updateProduct", "deleteProduct"} -> seller
         [] req.op = "createPromoCode" -> {"PROMO_CODE_DUPLICATE"}
         [] req.op = "createOrder" -> {"ORDER_LIMIT_EXCEEDED", "ORDER_HAS_ACTIVE"} \cup product \cup promo
         [] req.op = "getOrder" -> owner
         [] req.op = "updateOrder" ->
                owner \cup product \cup {"INVALID_STATE_TRANSITION", "ORDER_LIMIT_EXCEEDED"}
         [] req.op = "cancelOrder" -> owner \cup {"INVALID_STATE_TRANSITION"}
         [] OTHER -> {}

\* An order of so many lines of one price, with the code it names or has kept.
Bill(r, price, promo) ==
    LET gross == r.body.lines * r.body.qty * price
        paid == Amounts(gross, IF promo = None THEN 0 ELSE calcDiscount(gross, promo))
    IN [gross |-> gross, promo |-> promo, total |-> paid.total, discount |-> paid.discount]

MayCarry(r) ==
    IF r.op = "updateOrder" THEN Promos \cup {None}
    ELSE IF r.body.code = None THEN {None} ELSE Promos

Bills(r) ==
    {b \in {Bill(r, price, promo) : price \in Prices, promo \in MayCarry(r)} :
        b.promo # None => b.gross >= b.promo.min}

ProductRow(body) == [price |-> Cents(body.price, 10), stock |-> Wrap(body.stock)]

PromoRow(body) ==
    [type |-> body.type, value |-> Cents(body.value, 10), min |-> Cents(body.min, 10),
     max |-> Wrap(body.max), ordered |-> body.ordered]

Page(body) == [limit |-> Wrap(body.size), offset |-> Wrap(Wrap(body.page) * Wrap(body.size))]

\* What the operation writes or asks for.
Attempts(r) ==
    CASE r.op \in {"createProduct", "updateProduct"} -> {ProductRow(r.body)}
      [] r.op = "createPromoCode" -> {PromoRow(r.body)}
      [] r.op \in {"createOrder", "updateOrder"} -> Bills(r)
      [] r.op = "listProducts" -> {Page(r.body)}
      [] OTHER -> {None}

\* The CHECKs, the types and lengths of the columns, and bcrypt's limit of 72 bytes.
Taken(r, row) ==
    CASE r.op = "createProduct" -> ProductFits(row)
      [] r.op = "updateProduct" -> ProductFits(row) /\ r.body.status \in Statuses
      [] r.op = "createPromoCode" -> PromoFits(row) /\ r.body.short
      [] r.op \in {"createOrder", "updateOrder"} -> OrderFits(row)
      [] r.op = "listProducts" -> row.limit >= 0 /\ row.offset >= 0
      [] r.op = "registerUser" -> r.body.short /\ r.body.role \in Roles
      [] OTHER -> TRUE

\* isUniqueViolation looks for "unique" and "duplicate" in the message of the
\* database, which quotes a value that an enum refuses.
RefusalCode(r) ==
    CASE r.op = "registerUser" /\ r.body.short /\ r.body.role = "unique" -> "USER_ALREADY_EXISTS"
      [] r.op = "createPromoCode" /\ r.body.type = "unique" -> "PROMO_CODE_DUPLICATE"
      [] OTHER -> "INTERNAL"

Write ==
    /\ stage = "valid"
    /\ \E row \in Attempts(req) :
           result' = [code |-> IF Taken(req, row) THEN "OK" ELSE RefusalCode(req), row |-> row]
    /\ stage' = "served"
    /\ UNCHANGED <<req, role, answer>>

\* A refusal of the service, or a failure of the database.
Fail ==
    /\ stage = "valid"
    /\ \E code \in Failures \cup {"INTERNAL"} : result' = [code |-> code, row |-> None]
    /\ stage' = "served"
    /\ UNCHANGED <<req, role, answer>>

-----------------------------------------------------------------------------
(* The handler turns the result into an answer. *)

Created == {"registerUser", "createProduct", "createOrder", "createPromoCode"}

\* The codes that the switch of a handler names, with the statuses that the
\* types of the generated server give them.
Switch(op) ==
    LET owner == {<<"ORDER_NOT_FOUND", 404>>, <<"ORDER_OWNERSHIP_VIOLATION", 403>>, <<"ACCESS_DENIED", 403>>}
        product == {<<"PRODUCT_NOT_FOUND", 404>>, <<"ACCESS_DENIED", 403>>}
        lines == {<<"PRODUCT_NOT_FOUND", 404>>, <<"PRODUCT_INACTIVE", 409>>,
                  <<"INSUFFICIENT_STOCK", 409>>, <<"ORDER_LIMIT_EXCEEDED", 429>>}
    IN CASE op = "registerUser" -> {<<"USER_ALREADY_EXISTS", 409>>, <<"VALIDATION_ERROR", 400>>}
         [] op = "loginUser" -> {<<"INVALID_CREDENTIALS", 401>>, <<"VALIDATION_ERROR", 400>>}
         [] op = "refreshToken" -> {<<"REFRESH_TOKEN_INVALID", 401>>}
         [] op = "getProduct" -> {<<"PRODUCT_NOT_FOUND", 404>>}
         [] op \in {"updateProduct", "deleteProduct"} -> product
         [] op = "createPromoCode" -> {<<"PROMO_CODE_DUPLICATE", 409>>}
         [] op = "createOrder" ->
                lines \cup {<<"ORDER_HAS_ACTIVE", 409>>, <<"PROMO_CODE_INVALID", 422>>,
                            <<"PROMO_CODE_MIN_AMOUNT", 422>>, <<"VALIDATION_ERROR", 400>>,
                            <<"ACCESS_DENIED", 403>>}
         [] op = "getOrder" -> owner
         [] op = "updateOrder" -> lines \cup owner \cup {<<"INVALID_STATE_TRANSITION", 409>>}
         [] op = "cancelOrder" -> owner \cup {<<"INVALID_STATE_TRANSITION", 409>>}
         [] OTHER -> {}

\* Mutant: the error is not recognised as an AppError.
UnknownError(code) == "INTERNAL_ERROR"

errJSON(code) == IF code = "INTERNAL" THEN "INTERNAL_ERROR" ELSE code

Respond ==
    /\ stage = "served" /\ result.code = "OK"
    /\ Reply(IF req.op \in Created THEN 201 ELSE 200, "OK")
    /\ UNCHANGED <<req, role, result>>

\* A promo code that exists already is answered as an invalid one.
AnswerKnown ==
    /\ stage = "served"
    /\ \E named \in Switch(req.op) :
           /\ result.code = named[1]
           /\ Reply(named[2], IF named[1] = "PROMO_CODE_DUPLICATE" THEN "PROMO_CODE_INVALID"
                              ELSE errJSON(named[1]))
    /\ UNCHANGED <<req, role, result>>

Unknown ==
    /\ stage = "served"
    /\ result.code # "OK"
    /\ \A named \in Switch(req.op) : result.code # named[1]

\* A handler that returns the error leaves it to the generated server.
ResponseErrorHandler ==
    /\ Unknown /\ req.op # "createOrder"
    /\ Deny(HTTPStatusCode(result.code), errJSON(result.code))

\* mapOrderCreateErr returns nil: the generated server writes nothing, and
\* net/http answers 200.
mapOrderCreateErr == Unknown /\ req.op = "createOrder" /\ Deny(200, None)

Done == stage = "answered" /\ UNCHANGED vars

Next ==
    \/ Log \/ Authenticate \/ RejectToken \/ Decode \/ RequestErrorHandler
    \/ requireRole \/ RefuseRole \/ Validate \/ RefuseBody
    \/ Write \/ Fail
    \/ Respond \/ AnswerKnown \/ ResponseErrorHandler \/ mapOrderCreateErr
    \/ Done

Spec == Init /\ [][Next]_vars

-----------------------------------------------------------------------------
\* A client that is told of success has got what it asked for.
SuccessIsReal == stage = "answered" /\ answer.status < 300 => result.code = "OK"

\* The errors that the contract lists.
Documented ==
    {<<"VALIDATION_ERROR", 400>>, <<"TOKEN_EXPIRED", 401>>, <<"TOKEN_INVALID", 401>>,
     <<"REFRESH_TOKEN_INVALID", 401>>, <<"INVALID_CREDENTIALS", 401>>,
     <<"ACCESS_DENIED", 403>>, <<"ORDER_OWNERSHIP_VIOLATION", 403>>,
     <<"PRODUCT_NOT_FOUND", 404>>, <<"ORDER_NOT_FOUND", 404>>,
     <<"PRODUCT_INACTIVE", 409>>, <<"ORDER_HAS_ACTIVE", 409>>, <<"INVALID_STATE_TRANSITION", 409>>,
     <<"INSUFFICIENT_STOCK", 409>>, <<"USER_ALREADY_EXISTS", 409>>,
     <<"PROMO_CODE_INVALID", 422>>, <<"PROMO_CODE_MIN_AMOUNT", 422>>, <<"ORDER_LIMIT_EXCEEDED", 429>>}

\* The statuses of errors that the contract lists for the operation.
Listed(op) ==
    CASE op = "registerUser" -> {400, 409}
      [] op = "loginUser" -> {400, 401}
      [] op = "refreshToken" -> {401}
      [] op = "listProducts" -> {400, 401}
      [] op = "createProduct" -> {400, 401, 403}
      [] op = "getProduct" -> {401, 404}
      [] op = "updateProduct" -> {400, 401, 403, 404}
      [] op \in {"deleteProduct", "getOrder"} -> {401, 403, 404}
      [] op = "createOrder" -> {400, 401, 403, 404, 409, 422, 429}
      [] op = "updateOrder" -> {400, 401, 403, 404, 409, 429}
      [] op = "cancelOrder" -> {401, 403, 404, 409}
      [] op = "createPromoCode" -> {400, 401, 403, 409}

\* The schemas of the contract allow the parameters and the body.
Conforms(r) ==
    /\ r.form # "bad"
    /\ r.op = "registerUser" => r.body.short /\ r.body.role \in Roles
    /\ r.op \in {"createProduct", "updateProduct"} =>
           r.body.text /\ r.body.price >= 10 /\ r.body.stock >= 0
    /\ r.op = "updateProduct" => r.body.status \in Statuses
    /\ r.op = "createPromoCode" =>
           /\ r.body.type \in {"PERCENTAGE", "FIXED_AMOUNT"} /\ r.body.value >= 10
           /\ r.body.min >= 0 /\ r.body.max >= 1 /\ r.body.short
    /\ r.op \in {"createOrder", "updateOrder"} => r.body.lines \in 1 .. 50 /\ r.body.qty \in 1 .. 999
    /\ r.op = "createOrder" => r.body.code # "ill formed"
    /\ r.op = "listProducts" => r.body.page >= 0 /\ r.body.size \in 1 .. 100

\* The answer to a request within the contract: no error of validation; an error
\* of the service under its own code, with the status that openapi.yaml:911 and
\* README.md:168 give the code and the operation lists, whichever of the switches,
\* of apierr and of the middleware it comes from; any other error as an internal
\* one. Left out are the answers that contradict the contract: an internal error
\* of createOrder (see SuccessIsReal), and a promo code that exists already, which
\* is answered 409 under a code that is listed with 422.
AnswerFits ==
    LET code == result.code
        said == <<answer.code, answer.status>>
        known == said \in Documented /\ answer.status \in Listed(req.op)
    IN stage = "answered" /\ Conforms(req) =>
        /\ answer.code # "VALIDATION_ERROR"
        /\ code = None => known
        /\ code \notin {None, "OK", "INTERNAL", "PROMO_CODE_DUPLICATE"} =>
               answer.code = code /\ known
        /\ code = "INTERNAL" /\ req.op # "createOrder" =>
               said = <<"INTERNAL_ERROR", 500>>

\* Validation is enough: a product whose numbers fit their columns passes the
\* CHECKs of the table, and its stock is the one that was sent.
ValidationIsEnough ==
    LET body == req.body
    IN stage = "served" /\ req.op \in {"createProduct", "updateProduct"} /\ result.row # None
       /\ body.stock < IntLimit /\ FitsColumn(Cents(body.price, 10)) =>
            ProductFits(result.row) /\ result.row.stock = body.stock

\* What an order costs and what it saves add up to its lines, but for one cent
\* when both halves are rounded up; no discount exceeds the lines, and none by
\* percentage exceeds 70 % of them by more than the rounding.
BilledRight ==
    stage = "served" /\ req.op \in {"createOrder", "updateOrder"} /\ result.code = "OK" =>
        LET bill == result.row
        IN /\ bill.total + bill.discount \in {bill.gross, bill.gross + 1}
           /\ bill.discount <= bill.gross
           /\ bill.promo = None => bill.discount = 0
           /\ bill.promo # None /\ bill.promo.type = "PERCENTAGE" =>
                10 * bill.discount <= 7 * bill.gross + 5
=============================================================================
