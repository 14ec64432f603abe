------------------------------- MODULE ApiProof -------------------------------
(***************************************************************************)
(* What a served request has written and how it is answered, for all       *)
(* bodies, prices and codes.                                               *)
(***************************************************************************)
EXTENDS Api, PricingProof

\* What the database was asked for is what the validated body says, and success
\* means that the tables have taken it.
Served ==
    /\ Valid(req)
    /\ \/ result.code = "OK" /\ result.row \in Attempts(req) /\ Taken(req, result.row)
       \/ result.code # "OK" /\ result.row \in Attempts(req) \cup {None}

ReqOK == req.op \in Ops /\ req.body \in Bodies[req.op]

\* The inductive invariant.
ApiInv ==
    /\ ReqOK
    /\ stage = "valid" => Valid(req)
    /\ stage = "served" => Served

\* No failure is called OK.
LEMMA FailuresAreErrors == "OK" \notin Failures \cup {"INTERNAL"}
BY DEF Failures

\* The invariant holds before the first request.
LEMMA InitInv == Init => ApiInv
BY DEF Init, Requests, Fresh, ApiInv, ReqOK

\* Every step keeps what the invariant says.
LEMMA NextInv == ApiInv /\ [Next]_vars => ApiInv'
<1> SUFFICES ASSUME ApiInv, [Next]_vars PROVE ApiInv'
  OBVIOUS
<1> USE DEF ApiInv, ReqOK
<1>1. CASE Log
  <2>1. req'.op = req.op /\ req'.body = req.body /\ stage' = "logged"
    <3>1. req' = req \/ req' = [req EXCEPT !.form = "bad"]
      BY <1>1 DEF Log
    <3> QED
      BY <1>1, <3>1 DEF Log
  <2> QED
    BY <2>1
<1>2. CASE Authenticate
  BY <1>2 DEF Authenticate, Pass
<1>3. CASE RejectToken
  BY <1>3 DEF RejectToken, Deny, Reply
<1>4. CASE Decode
  BY <1>4 DEF Decode, Pass
<1>5. CASE RequestErrorHandler
  BY <1>5 DEF RequestErrorHandler, Deny, Reply
<1>6. CASE requireRole
  BY <1>6 DEF requireRole, Pass
<1>7. CASE RefuseRole
  BY <1>7 DEF RefuseRole, Deny, Reply
<1>8. CASE Validate
  BY <1>8 DEF Validate, Pass
<1>9. CASE RefuseBody
  BY <1>9 DEF RefuseBody, Deny, Reply
<1>10. CASE Write
  <2>1. PICK row \in Attempts(req) :
           result' = [code |-> IF Taken(req, row) THEN "OK" ELSE RefusalCode(req), row |-> row]
    BY <1>10 DEF Write
  <2>2. RefusalCode(req) # "OK"
    BY DEF RefusalCode
  <2>3. stage' = "served" /\ req' = req /\ stage = "valid"
    BY <1>10 DEF Write
  <2>4. Valid(req)' /\ Attempts(req)' = Attempts(req) /\ Taken(req, row)' = Taken(req, row)
    BY <2>3
  <2>5. Served'
    BY <2>1, <2>2, <2>4 DEF Served
  <2> QED
    BY <2>3, <2>5
<1>11. CASE Fail
  <2>1. PICK code \in Failures \cup {"INTERNAL"} : result' = [code |-> code, row |-> None]
    BY <1>11 DEF Fail
  <2>2. code # "OK"
    BY FailuresAreErrors
  <2>3. stage' = "served" /\ req' = req /\ stage = "valid"
    BY <1>11 DEF Fail
  <2>4. Served'
    BY <2>1, <2>2, <2>3 DEF Served
  <2> QED
    BY <2>3, <2>4
<1>12. CASE Respond
  <2>1. Served' /\ result'.code = "OK" /\ req' = req /\ stage' = "answered"
    BY <1>12 DEF Respond, Reply, Served
  <2> QED
    BY <2>1
<1>13. CASE AnswerKnown
  <2>1. req.op # "listProducts"
    BY <1>13 DEF AnswerKnown, Switch
  <2> QED
    BY <1>13, <2>1 DEF AnswerKnown, Reply
<1>14. CASE ResponseErrorHandler
  <2>1. req' = req /\ stage' = "answered" /\ stage = "served" /\ result.code # "OK"
    BY <1>14 DEF ResponseErrorHandler, Deny, Reply, Unknown
  <2>2. answer'.status = HTTPStatusCode(result.code)
    BY <1>14 DEF ResponseErrorHandler, Deny, Reply
  <2>3. HTTPStatusCode(result.code) # 200
    BY DEF HTTPStatusCode
  <2> QED
    BY <2>1, <2>2, <2>3
<1>15. CASE mapOrderCreateErr
  BY <1>15 DEF mapOrderCreateErr, Deny, Reply
<1>16. CASE Done \/ UNCHANGED vars
  BY <1>16 DEF Done, vars, Served
<1> QED
  BY <1>1, <1>2, <1>3, <1>4, <1>5, <1>6, <1>7, <1>8, <1>9, <1>10, <1>11, <1>12, <1>13,
     <1>14, <1>15, <1>16 DEF Next

\* The inductive invariant holds for all bodies, prices and promo codes.
THEOREM ApiInvariant == Spec => []ApiInv
<1>1. Init => ApiInv
  BY InitInv
<1>2. ApiInv /\ [Next]_vars => ApiInv'
  BY NextInv
<1> QED
  BY <1>1, <1>2, PTL DEF Spec

-----------------------------------------------------------------------------
(* Amounts of an order. *)

\* Every bill that an order may be written with is right.
LEMMA BillsAreRight ==
    ASSUME NEW r, Valid(r), r.op \in {"createOrder", "updateOrder"}, NEW bill \in Bills(r)
    PROVE  /\ bill.total + bill.discount \in {bill.gross, bill.gross + 1}
           /\ bill.discount <= bill.gross
           /\ bill.promo = None => bill.discount = 0
           /\ bill.promo # None /\ bill.promo.type = "PERCENTAGE" =>
                10 * bill.discount <= 7 * bill.gross + 5
<1>1. PICK price \in Prices, promo \in MayCarry(r) : bill = Bill(r, price, promo)
  BY DEF Bills
<1> DEFINE gross == r.body.lines * r.body.qty * price
           d == IF promo = None THEN 0 ELSE calcDiscount(gross, promo)
<1>2. r.body.lines \in Nat /\ r.body.qty \in Nat
  <2>1. r.op \notin {"createProduct", "updateProduct"}
    OBVIOUS
  <2>2. r.body.lines \in 1 .. 50 /\ r.body.qty \in 1 .. 999
    BY <2>1, Zenon DEF Valid
  <2>3. \A n : n \in 1 .. 50 \/ n \in 1 .. 999 => n \in Nat
    OBVIOUS
  <2> QED
    BY <2>2, <2>3, Zenon
<1>3. gross \in Nat
  <2>1. price \in Nat
    BY ApiAssumption
  <2>2. \A m, n \in Nat : m * n \in Nat
    OBVIOUS
  <2>3. r.body.lines * r.body.qty \in Nat
    BY <1>2, <2>2, Zenon
  <2> QED
    BY <2>1, <2>2, <2>3, Zenon
<1>4. promo = None \/ promo \in Promo
  BY ApiAssumption DEF MayCarry
<1>5. /\ bill.gross = gross /\ bill.promo = promo
      /\ bill.total = Amounts(gross, d).total /\ bill.discount = Amounts(gross, d).discount
  BY <1>1 DEF Bill
<1> HIDE DEF gross
<1>6. /\ d \in Nat /\ d <= gross * Parts
      /\ promo = None => d = 0
      /\ promo # None /\ promo.type = "PERCENTAGE" => d <= gross * 7000
  BY <1>3, <1>4, DiscountBounds DEF Parts
<1>7. /\ Amounts(gross, d).total \in Nat /\ Amounts(gross, d).discount \in Nat
      /\ Amounts(gross, d).total + Amounts(gross, d).discount \in {gross, gross + 1}
      /\ Amounts(gross, d).discount <= gross
      /\ Parts * Amounts(gross, d).discount <= d + 5000
  <2> HIDE DEF d
  <2> QED
    BY <1>3, <1>6, AmountsAddUp
<1> HIDE DEF d
<1>8. promo = None => Amounts(gross, d).discount = 0
  BY <1>6 DEF Amounts, Cents, Parts
<1>9. promo # None /\ promo.type = "PERCENTAGE" => 10 * Amounts(gross, d).discount <= 7 * gross + 5
  BY <1>3, <1>6, <1>7 DEF Parts
<1> QED
  BY <1>5, <1>7, <1>8, <1>9

\* BilledRight for all prices, quantities and promo codes: no bill is off by more
\* than the cent of its rounding.
THEOREM Billed == Spec => []BilledRight
<1>1. ApiInv => BilledRight
  <2> SUFFICES ASSUME ApiInv, stage = "served", req.op \in {"createOrder", "updateOrder"}, result.code = "OK"
               PROVE  LET bill == result.row
                      IN /\ bill.total + bill.discount \in {bill.gross, bill.gross + 1}
                         /\ bill.discount <= bill.gross
                         /\ bill.promo = None => bill.discount = 0
                         /\ bill.promo # None /\ bill.promo.type = "PERCENTAGE" =>
                              10 * bill.discount <= 7 * bill.gross + 5
    BY DEF BilledRight
  <2>1. Valid(req) /\ result.row \in Attempts(req)
    BY DEF ApiInv, Served
  <2>2. result.row \in Bills(req)
    BY <2>1 DEF Attempts
  <2> QED
    BY <2>1, <2>2, BillsAreRight
<1> QED
  BY <1>1, ApiInvariant, PTL

-----------------------------------------------------------------------------
(* Bodies of products. *)

LEMMA WrapsToItself ==
    ASSUME NEW n \in Int, -IntLimit <= n, n < IntLimit
    PROVE  Wrap(n) = n
BY PricingAssumption DEF Wrap

\* ValidationIsEnough for all bodies: no product that passes the validator is
\* refused by a CHECK or stored with another stock, if its numbers fit.
THEOREM Sized == Spec => []ValidationIsEnough
<1>1. ApiInv => ValidationIsEnough
  <2> DEFINE body == req.body
  <2> SUFFICES ASSUME ApiInv, stage = "served", req.op \in {"createProduct", "updateProduct"},
                      result.row # None, body.stock < IntLimit, FitsColumn(Cents(body.price, 10))
               PROVE  ProductFits(result.row) /\ result.row.stock = body.stock
    BY DEF ValidationIsEnough
  <2>1. body \in Bodies["createProduct"] \cup Bodies["updateProduct"]
    BY DEF ApiInv, ReqOK
  <2>2. body.price \in Int /\ body.stock \in Int
    BY <2>1, ApiAssumption
  <2>3. Valid(req) /\ result.row \in Attempts(req)
    BY DEF ApiInv, Served
  <2>4. body.price >= 10 /\ body.stock >= 0
    BY <2>3, Zenon DEF Valid
  <2>5. result.row = ProductRow(body)
    BY <2>3 DEF Attempts
  <2>6. Wrap(body.stock) = body.stock
    BY <2>2, <2>4, WrapsToItself, PricingAssumption
  <2>7. Cents(body.price, 10) > 0
    BY <2>2, <2>4 DEF Cents
  <2> QED
    BY <2>4, <2>5, <2>6, <2>7 DEF ProductRow, ProductFits
<1> QED
  BY <1>1, ApiInvariant, PTL

-----------------------------------------------------------------------------
(* Shapes and answers. *)

\* The statuses that are ever answered.
Codes == {200, 201, 400, 401, 403, 404, 409, 422, 429, 500}

\* apierr gives every code a status.
LEMMA StatusOfCode == \A code : HTTPStatusCode(code) \in Codes
BY DEF HTTPStatusCode, Codes

\* The switches of the handlers name neither success nor internal errors; they
\* give a code the status that the contract lists for it and for the operation.
LEMMA SwitchFits ==
    ASSUME NEW op, NEW named \in Switch(op)
    PROVE  /\ named[1] \notin {"OK", "INTERNAL"}
           /\ named[1] # "PROMO_CODE_DUPLICATE" =>
                <<named[1], named[2]>> \in Documented /\ named[2] \in Listed(op)
           /\ named[2] \in Codes
<1>1. CASE op \in {"registerUser", "loginUser", "refreshToken", "getProduct"}
  BY <1>1 DEF Switch, Documented, Listed, Codes
<1>2. CASE op \in {"updateProduct", "deleteProduct", "createPromoCode"}
  BY <1>2 DEF Switch, Documented, Listed, Codes
<1>3. CASE op = "createOrder"
  BY <1>3 DEF Switch, Documented, Listed, Codes
<1>4. CASE op \in {"getOrder", "updateOrder", "cancelOrder"}
  BY <1>4 DEF Switch, Documented, Listed, Codes
<1>5. op \in {"registerUser", "loginUser", "refreshToken", "getProduct", "updateProduct",
              "deleteProduct", "createPromoCode", "createOrder", "getOrder", "updateOrder",
              "cancelOrder"}
  BY DEF Switch
<1> QED
  BY <1>1, <1>2, <1>3, <1>4, <1>5

\* The request is one that clients send, or what the logger has made of it.
Shape == req \in Requests /\ TypeOK

\* What a client is told has the shape of an answer.
LEMMA Replied ==
    ASSUME Shape, NEW status \in Codes, NEW code, Reply(status, code), UNCHANGED <<req, role>>
    PROVE  Shape'
BY DEF Shape, TypeOK, Reply, Codes

\* Every step keeps the shapes.
LEMMA NextShape == Shape /\ [Next]_vars => Shape'
<1> SUFFICES ASSUME Shape, [Next]_vars PROVE Shape'
  OBVIOUS
<1>1. CASE Log
  <2>1. PICK op \in Ops : req \in [op : {op}, bearer : Bearers, form : Forms, body : Bodies[op]]
    BY DEF Shape, Requests
  <2>2. req' = req \/ req' = [req EXCEPT !.form = "bad"]
    BY <1>1 DEF Log
  <2>3. req' \in [op : {op}, bearer : Bearers, form : Forms, body : Bodies[op]]
    BY <2>1, <2>2 DEF Forms
  <2>4. req' \in Requests
    BY <2>3 DEF Requests
  <2> QED
    BY <1>1, <2>3, <2>4 DEF Log, Shape, TypeOK
<1>2. CASE Authenticate
  BY <1>2 DEF Authenticate, Pass, Shape, TypeOK
<1>3. CASE Decode \/ requireRole \/ Validate
  BY <1>3 DEF Decode, requireRole, Validate, Pass, Shape, TypeOK
<1>4. CASE RejectToken \/ RequestErrorHandler \/ RefuseRole \/ RefuseBody
  <2>1. PICK status, code : status \in {400, 401, 403} /\ Deny(status, code)
    BY <1>4 DEF RejectToken, RequestErrorHandler, RefuseRole, RefuseBody
  <2> QED
    BY <2>1, Replied DEF Deny, Codes
<1>5. CASE Write \/ Fail
  BY <1>5 DEF Write, Fail, Shape, TypeOK
<1>6. CASE Respond
  <2>1. PICK status \in {200, 201} : Reply(status, "OK")
    BY <1>6 DEF Respond
  <2> QED
    BY <1>6, <2>1, Replied DEF Respond, Codes
<1>7. CASE AnswerKnown
  <2>1. PICK named, code : named \in Switch(req.op) /\ Reply(named[2], code)
    BY <1>7 DEF AnswerKnown
  <2>2. named[2] \in Codes
    BY <2>1, SwitchFits
  <2> QED
    BY <1>7, <2>1, <2>2, Replied DEF AnswerKnown
<1>8. CASE ResponseErrorHandler \/ mapOrderCreateErr
  <2>1. PICK status, code : status \in Codes /\ Deny(status, code)
    BY <1>8, StatusOfCode DEF ResponseErrorHandler, mapOrderCreateErr, Codes
  <2> QED
    BY <2>1, Replied DEF Deny
<1>9. CASE Done \/ UNCHANGED vars
  BY <1>9 DEF Done, vars, Shape, TypeOK
<1> QED
  BY <1>1, <1>2, <1>3, <1>4, <1>5, <1>6, <1>7, <1>8, <1>9 DEF Next

\* Requests stay as clients send them.
THEOREM ApiShape == Spec => []Shape
<1>1. Init => Shape
  <2> SUFFICES ASSUME Init PROVE Shape
    OBVIOUS
  <2>1. PICK op \in Ops : req \in [op : {op}, bearer : Bearers, form : Forms, body : Bodies[op]]
    BY DEF Init, Requests
  <2> QED
    BY <2>1 DEF Init, Fresh, Shape, TypeOK
<1> QED
  BY <1>1, NextShape, PTL DEF Spec

\* Requests and answers keep their shapes, whatever clients send.
THEOREM ApiTypeCorrect == Spec => []TypeOK
<1>1. Shape => TypeOK
  BY DEF Shape
<1> QED
  BY <1>1, ApiShape, PTL

\* The switch of the operation names the code.
Names(op, code) == \E named \in Switch(op) : named[1] = code

\* A service returns what the switch of its handler names, or an internal error;
\* and no error of validation.
Mappable(op, code) == (code \in {"OK", "INTERNAL"} \/ Names(op, code)) /\ code # "VALIDATION_ERROR"

\* The inductive invariant of the answers.
Mapped ==
    /\ stage \in {"sent", "logged", "routed", "decoded", "allowed", "valid"} => result.code = None
    /\ stage = "served" => Mappable(req.op, result.code)
    /\ AnswerFits

\* A pair of the switch names its code.
LEMMA Naming == \A op, code, status : <<code, status>> \in Switch(op) => Names(op, code)
BY DEF Names

\* The switches name every error that the services return.
LEMMA FailuresNamed ==
    ASSUME NEW code \in Failures
    PROVE  Names(req.op, code) /\ code # "VALIDATION_ERROR"
<1>1. CASE req.op = "registerUser"
  <2>1. {<<"USER_ALREADY_EXISTS", 409>>} \subseteq Switch(req.op)
    BY <1>1 DEF Switch
  <2>2. code \in {"USER_ALREADY_EXISTS"}
    BY <1>1 DEF Failures
  <2> QED
    BY <2>1, <2>2, Naming
<1>2. CASE req.op = "loginUser"
  <2>1. {<<"INVALID_CREDENTIALS", 401>>} \subseteq Switch(req.op)
    BY <1>2 DEF Switch
  <2>2. code \in {"INVALID_CREDENTIALS"}
    BY <1>2 DEF Failures
  <2> QED
    BY <2>1, <2>2, Naming
<1>3. CASE req.op = "refreshToken"
  <2>1. {<<"REFRESH_TOKEN_INVALID", 401>>} \subseteq Switch(req.op)
    BY <1>3 DEF Switch
  <2>2. code \in {"REFRESH_TOKEN_INVALID"}
    BY <1>3 DEF Failures
  <2> QED
    BY <2>1, <2>2, Naming
<1>4. CASE req.op = "getProduct"
  <2>1. {<<"PRODUCT_NOT_FOUND", 404>>} \subseteq Switch(req.op)
    BY <1>4 DEF Switch
  <2>2. code \in {"PRODUCT_NOT_FOUND"}
    BY <1>4 DEF Failures
  <2> QED
    BY <2>1, <2>2, Naming
<1>5. CASE req.op = "createPromoCode"
  <2>1. {<<"PROMO_CODE_DUPLICATE", 409>>} \subseteq Switch(req.op)
    BY <1>5 DEF Switch
  <2>2. code \in {"PROMO_CODE_DUPLICATE"}
    BY <1>5 DEF Failures
  <2> QED
    BY <2>1, <2>2, Naming
<1>6. CASE req.op \in {"updateProduct", "deleteProduct"}
  <2>1. {<<"PRODUCT_NOT_FOUND", 404>>, <<"ACCESS_DENIED", 403>>} \subseteq Switch(req.op)
    BY <1>6 DEF Switch
  <2>2. code \in {"PRODUCT_NOT_FOUND", "ACCESS_DENIED"}
    BY <1>6 DEF Failures
  <2> QED
    BY <2>1, <2>2, Naming
<1>7. CASE req.op = "createOrder"
  <2>1. {<<"PRODUCT_NOT_FOUND", 404>>, <<"PRODUCT_INACTIVE", 409>>,
         <<"INSUFFICIENT_STOCK", 409>>, <<"ORDER_LIMIT_EXCEEDED", 429>>,
         <<"ORDER_HAS_ACTIVE", 409>>, <<"PROMO_CODE_INVALID", 422>>,
         <<"PROMO_CODE_MIN_AMOUNT", 422>>} \subseteq Switch(req.op)
    BY <1>7 DEF Switch
  <2>2. code \in {"PRODUCT_NOT_FOUND", "PRODUCT_INACTIVE", "INSUFFICIENT_STOCK",
                   "ORDER_LIMIT_EXCEEDED", "ORDER_HAS_ACTIVE", "PROMO_CODE_INVALID",
                   "PROMO_CODE_MIN_AMOUNT"}
    BY <1>7 DEF Failures
  <2> QED
    BY <2>1, <2>2, Naming
<1>8. CASE req.op = "getOrder"
  <2>1. {<<"ORDER_NOT_FOUND", 404>>, <<"ORDER_OWNERSHIP_VIOLATION", 403>>} \subseteq Switch(req.op)
    BY <1>8 DEF Switch
  <2>2. code \in {"ORDER_NOT_FOUND", "ORDER_OWNERSHIP_VIOLATION"}
    BY <1>8 DEF Failures
  <2> QED
    BY <2>1, <2>2, Naming
<1>9. CASE req.op = "cancelOrder"
  <2>1. {<<"ORDER_NOT_FOUND", 404>>, <<"ORDER_OWNERSHIP_VIOLATION", 403>>,
         <<"INVALID_STATE_TRANSITION", 409>>} \subseteq Switch(req.op)
    BY <1>9 DEF Switch
  <2>2. code \in {"ORDER_NOT_FOUND", "ORDER_OWNERSHIP_VIOLATION",
                   "INVALID_STATE_TRANSITION"}
    BY <1>9 DEF Failures
  <2> QED
    BY <2>1, <2>2, Naming
<1>10. CASE req.op = "updateOrder"
  <2>1. {<<"ORDER_NOT_FOUND", 404>>, <<"ORDER_OWNERSHIP_VIOLATION", 403>>,
         <<"PRODUCT_NOT_FOUND", 404>>, <<"PRODUCT_INACTIVE", 409>>,
         <<"INSUFFICIENT_STOCK", 409>>, <<"ORDER_LIMIT_EXCEEDED", 429>>,
         <<"INVALID_STATE_TRANSITION", 409>>} \subseteq Switch(req.op)
    BY <1>10 DEF Switch
  <2>2. code \in {"ORDER_NOT_FOUND", "ORDER_OWNERSHIP_VIOLATION", "PRODUCT_NOT_FOUND",
                   "PRODUCT_INACTIVE", "INSUFFICIENT_STOCK", "ORDER_LIMIT_EXCEEDED",
                   "INVALID_STATE_TRANSITION"}
    BY <1>10 DEF Failures
  <2> QED
    BY <2>1, <2>2, Naming
<1>11. req.op \in {"registerUser", "loginUser", "refreshToken", "getProduct", "createPromoCode",
                  "updateProduct", "deleteProduct", "createOrder", "getOrder", "cancelOrder",
                  "updateOrder"}
  BY DEF Failures
<1> QED
  BY <1>1, <1>2, <1>3, <1>4, <1>5, <1>6, <1>7, <1>8, <1>9, <1>10, <1>11

\* So they do with what the tables refuse.
LEMMA RefusalNamed == Mappable(req.op, RefusalCode(req))
<1>1. CASE req.op = "registerUser"
  <2>1. <<"USER_ALREADY_EXISTS", 409>> \in Switch("registerUser")
    BY DEF Switch
  <2> QED
    BY <1>1, <2>1, Naming DEF RefusalCode, Mappable
<1>2. CASE req.op = "createPromoCode"
  <2>1. <<"PROMO_CODE_DUPLICATE", 409>> \in Switch("createPromoCode")
    BY DEF Switch
  <2> QED
    BY <1>2, <2>1, Naming DEF RefusalCode, Mappable
<1>3. CASE req.op \notin {"registerUser", "createPromoCode"}
  BY <1>3 DEF RefusalCode, Mappable
<1> QED
  BY <1>1, <1>2, <1>3

\* The validator takes what the contract allows.
LEMMA ConformingIsValid == ASSUME NEW r, Conforms(r) PROVE Valid(r)
<1>1. CASE r.op \in {"createProduct", "updateProduct"}
  BY <1>1, Zenon DEF Conforms, Valid
<1>2. CASE r.op \in {"createOrder", "updateOrder"}
  <2>1. r.op \notin {"createProduct", "updateProduct"}
    BY <1>2
  <2> QED
    BY <1>2, <2>1, Zenon DEF Conforms, Valid
<1>3. CASE r.op \notin {"createProduct", "updateProduct", "createOrder", "updateOrder"}
  BY <1>3 DEF Valid
<1> QED
  BY <1>1, <1>2, <1>3

\* The contract lists 401 for every operation that asks for a token, and 403 for
\* every one that asks for a role.
LEMMA RefusalsListed ==
    /\ \A op \in Ops \ Public : 401 \in Listed(op)
    /\ \A op \in SellerOps \cup OrderOps : 403 \in Listed(op)
BY DEF Ops, Public, SellerOps, OrderOps, Listed

\* What a request is told before the service is called.
LEMMA EarlyFits ==
    ASSUME Mapped, Shape, RejectToken \/ RequestErrorHandler \/ RefuseRole \/ RefuseBody
    PROVE  Mapped'
<1>1. req' = req /\ result' = result /\ result.code = None /\ stage' = "answered"
  BY DEF RejectToken, RequestErrorHandler, RefuseRole, RefuseBody, Deny, Reply, Mapped
<1> DEFINE Told(status, code) == answer' = [status |-> status, code |-> code]
<1>2. CASE RejectToken
  <2>1. req.op \in Ops \ Public
    BY <1>2 DEF RejectToken, Shape, TypeOK
  <2>2. \E code \in {"TOKEN_EXPIRED", "TOKEN_INVALID"} : Told(401, code)
    BY <1>2 DEF RejectToken, Deny, Reply
  <2> QED
    BY <1>1, <2>1, <2>2, RefusalsListed, ApiAssumption DEF Mapped, AnswerFits, Documented
<1>3. CASE RequestErrorHandler
  <2>1. ~Conforms(req)
    BY <1>3 DEF RequestErrorHandler, Conforms
  <2> QED
    BY <1>1, <2>1 DEF Mapped, AnswerFits
<1>4. CASE RefuseRole
  <2>1. req.op \in SellerOps \cup OrderOps
    BY <1>4 DEF RefuseRole, Allowed, Shape, TypeOK
  <2>2. Told(403, "ACCESS_DENIED")
    BY <1>4 DEF RefuseRole, Deny, Reply
  <2> QED
    BY <1>1, <2>1, <2>2, RefusalsListed, ApiAssumption DEF Mapped, AnswerFits, Documented
<1>5. CASE RefuseBody
  <2>1. ~Conforms(req)
    BY <1>5, ConformingIsValid DEF RefuseBody
  <2> QED
    BY <1>1, <2>1 DEF Mapped, AnswerFits
<1> QED
  BY <1>2, <1>3, <1>4, <1>5

\* Every step answers errors as they are mapped.
LEMMA NextMapped == Mapped /\ Shape /\ [Next]_vars => Mapped'
<1> SUFFICES ASSUME Mapped, Shape, [Next]_vars PROVE Mapped'
  OBVIOUS
<1>1. CASE Log \/ Authenticate \/ Decode \/ requireRole \/ Validate
  BY <1>1 DEF Log, Authenticate, Decode, requireRole, Validate, Pass, Mapped, AnswerFits
<1>2. CASE RejectToken \/ RequestErrorHandler \/ RefuseRole \/ RefuseBody
  BY <1>2, EarlyFits
<1>3. CASE Write \/ Fail
  <2>1. stage' = "served" /\ req' = req
    BY <1>3 DEF Write, Fail
  <2>2. \A code \in Failures \cup {"INTERNAL", "OK", RefusalCode(req)} : Mappable(req.op, code)
    BY FailuresNamed, RefusalNamed DEF Mappable
  <2>3. Mappable(req.op, result'.code)
    <3>1. PICK code, row : /\ result' = [code |-> code, row |-> row]
                           /\ code \in Failures \cup {"INTERNAL", "OK", RefusalCode(req)}
      BY <1>3 DEF Write, Fail
    <3> QED
      BY <2>2, <3>1
  <2> QED
    BY <2>1, <2>3 DEF Mapped, AnswerFits
<1>4. CASE Respond
  <2>1. /\ stage' = "answered" /\ answer'.code = "OK" /\ result'.code = "OK"
    BY <1>4 DEF Respond, Reply
  <2> QED
    BY <2>1, ApiAssumption DEF Mapped, AnswerFits
<1>5. CASE AnswerKnown
  <2>1. PICK named \in Switch(req.op) :
          /\ result.code = named[1]
          /\ Reply(named[2], IF named[1] = "PROMO_CODE_DUPLICATE" THEN "PROMO_CODE_INVALID"
                             ELSE errJSON(named[1]))
    BY <1>5 DEF AnswerKnown
  <2>2. /\ UNCHANGED <<req, result>> /\ stage = "served" /\ stage' = "answered"
        /\ named[1] \notin {"OK", "INTERNAL", "VALIDATION_ERROR"}
    BY <1>5, <2>1, SwitchFits DEF AnswerKnown, Reply, Mapped, Mappable
  <2>3. /\ answer'.status = named[2] /\ answer'.code # "VALIDATION_ERROR"
        /\ named[1] # "PROMO_CODE_DUPLICATE" => answer'.code = named[1]
    BY <2>1, <2>2 DEF Reply, errJSON
  <2> QED
    BY <2>1, <2>2, <2>3, SwitchFits, ApiAssumption DEF Mapped, AnswerFits
<1>6. CASE ResponseErrorHandler
  <2>1. /\ stage = "served" /\ stage' = "answered" /\ UNCHANGED <<req, result>>
        /\ result.code # "OK" /\ ~Names(req.op, result.code)
        /\ answer' = [status |-> HTTPStatusCode(result.code), code |-> errJSON(result.code)]
    BY <1>6 DEF ResponseErrorHandler, Unknown, Deny, Reply, Names
  <2>2. result.code = "INTERNAL"
    BY <2>1 DEF Mapped, Mappable
  <2>3. answer' = [status |-> 500, code |-> "INTERNAL_ERROR"]
    BY <2>1, <2>2 DEF HTTPStatusCode, errJSON
  <2> QED
    BY <2>1, <2>2, <2>3, ApiAssumption DEF Mapped, AnswerFits
<1>7. CASE mapOrderCreateErr
  <2>1. /\ stage = "served" /\ stage' = "answered" /\ UNCHANGED <<req, result>>
        /\ req.op = "createOrder" /\ result.code # "OK" /\ ~Names(req.op, result.code)
        /\ answer' = [status |-> 200, code |-> None]
    BY <1>7 DEF mapOrderCreateErr, Unknown, Deny, Reply, Names
  <2>2. result.code = "INTERNAL"
    BY <2>1 DEF Mapped, Mappable
  <2> QED
    BY <2>1, <2>2, ApiAssumption DEF Mapped, AnswerFits
<1>8. CASE Done \/ UNCHANGED vars
  BY <1>8 DEF Done, vars, Mapped, AnswerFits
<1> QED
  BY <1>1, <1>2, <1>3, <1>4, <1>5, <1>6, <1>7, <1>8 DEF Next

\* AnswerFits for all bodies that the contract allows: whichever handler maps it,
\* an error reaches the client with the code and the status that the contract
\* lists; a duplicate promo code and an internal error of createOrder do not.
THEOREM ErrorsMapped == Spec => []AnswerFits
<1>1. Init => Mapped
  BY DEF Init, Fresh, Mapped, AnswerFits
<1>2. Mapped => AnswerFits
  BY DEF Mapped
<1> QED
  BY <1>1, <1>2, ApiShape, NextMapped, PTL DEF Spec
=============================================================================
