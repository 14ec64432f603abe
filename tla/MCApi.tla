-------------------------------- MODULE MCApi --------------------------------
(***************************************************************************)
(* Requests at the limits of every number: Api with int32 cut down to      *)
(* eight bits and NUMERIC(12, 2) to less than 1500.00.                     *)
(***************************************************************************)
EXTENDS Api

MCIntLimit == 128
MCAmountLimit == 150000

\* Cents.
MCPrices == {1, 3, 4}

MCPromos ==
    {[type |-> "PERCENTAGE", value |-> v, min |-> 0] : v \in {1, 1250, 5000, 8000}}
        \cup {[type |-> "FIXED_AMOUNT", value |-> v, min |-> m] : v \in {1, 1000}, m \in {0, 3}}

\* Tenths of a cent.
ProductBodies ==
    [text : BOOLEAN, price : {-1, 0, 4, 9, 10, 14, 15, 1499995}, stock : {-1, 0, 127, 128, 261},
     status : {"ACTIVE", "gone"}]

PromoBodies ==
    [type : {"PERCENTAGE", "FIXED_AMOUNT", "unique", "other"}, value : {-10, 4, 5, 80000},
     min : {-5, 0, 10}, max : {0, 1, 127, 129}, ordered : BOOLEAN,
     short : BOOLEAN]

OrderBodies ==
    [lines : {0, 1, 50, 51}, qty : {0, 1, 3, 999, 1000}, code : {None, "ill formed", "well formed"}]

MCBodies == [op \in Ops |->
    CASE op = "registerUser" -> [short : BOOLEAN, role : Roles \cup {"other", "unique"}]
      [] op \in {"createProduct", "updateProduct"} -> ProductBodies
      [] op = "createPromoCode" -> PromoBodies
      [] op \in {"createOrder", "updateOrder"} -> OrderBodies
      [] op = "listProducts" -> [page : {-200, -1, 0, 1, 6, 7, 20, 256}, size : {-128, -1, 0, 20, 100, 200}]
      [] OTHER -> {None}]
=============================================================================
