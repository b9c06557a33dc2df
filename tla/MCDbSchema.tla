---------------------------- MODULE MCDbSchema ----------------------------
(* A small shop: users own orders, orders take items from stock, logs record. *)
EXTENDS DbSchema

TableNames == {"items", "logs", "orders", "orders_v2", "users"}
ColumnNames == {"id", "user_id", "order_id", "item_id", "log_id", "ref_id", "target_id", "buyer", "stock", "at"}
TableRank == [t \in TableNames |-> CASE t = "items" -> 1 [] t = "logs" -> 2 [] t = "orders" -> 3
                                    [] t = "orders_v2" -> 4 [] t = "users" -> 5]
ColumnDenotes == [c \in ColumnNames |->
  CASE c = "user_id" -> {"users"} [] c = "order_id" -> {"orders"} [] c = "item_id" -> {"items"}
    [] c = "log_id" -> {"logs"} [] c = "target_id" -> {"users"} [] c = "ref_id" -> {"items", "orders"} [] OTHER -> {}]
TableMeans == [t \in TableNames |-> IF t = "orders_v2" THEN {"orders"} ELSE {}]
TableBase == [t \in TableNames |-> IF t = "orders_v2" THEN "orders" ELSE t]
TypeNames == {"big", "bigint", "uuid", "text"}
Spelling == [t \in TypeNames |-> IF t = "big" THEN "bigint" ELSE t]
KeyOf == [t \in TableNames |-> CASE t = "users" -> "user_id" [] t = "items" -> "item_id"
                                 [] t = "logs" -> "log_id" [] OTHER -> "order_id"]

Col(ty) == Column(ty, FALSE, "none")
Fk(ty, to) == Column(ty, FALSE, to)
Key(ty) == ("id" :> Column(ty, TRUE, "none"))
Table(cs) == [cols |-> cs, idx |-> {"at"}, formed |-> TRUE]
Broken(t) == [t EXCEPT !.formed = FALSE]

Answers == [t \in TableNames |->
  CASE t = "users" -> {Table(Key("uuid")), Table("stock" :> Col("big")), Broken(Table(Key("uuid")))}
    [] t = "items" -> {Table(Key("big") @@ ("stock" :> Col("big"))),
                       Table(Key("big") @@ ("order_id" :> Col("text")))}
    [] t = "orders" -> {Table(Key("big") @@ ("item_id" :> Col("text")) @@ ("stock" :> Col("big"))),
                        Table(Key("uuid") @@ ("user_id" :> Fk("big", "orders_v2")) @@ ("buyer" :> Col("text")))}
    [] t = "logs" -> {Table(Key("big") @@ ("at" :> Col("text")) @@ ("item_id" :> Fk("text", "items"))),
                      Table(Key("big") @@ ("order_id" :> Fk("big", "orders_v2")) @@ ("target_id" :> Fk("big", "users")))}
    [] OTHER -> {Table(Key("big") @@ ("ref_id" :> Col("text")) @@ ("stock" :> Col("big")) @@ ("at" :> Col("text")))}]

Contract(ts, off, ks, fs, own, prim, prd) ==
  [tables |-> ts, off |-> off, keys |-> ks, fields |-> fs, owner |-> own, primary |-> prim, prd |-> prd,
   fit |-> [f \in DOMAIN ts |-> <<"logs", "items">>]]
Shop == Contract(("f" :> {"orders", "users"}), {}, (<<"orders", "user_id">> :> "users"), <<>>,
                 ("f" :> "users"), ("f" :> "orders"), <<>>)
Stock == Contract(("f" :> {"items", "logs"}) @@ ("g" :> {}), {"g"}, (<<"logs", "item_id">> :> "items"),
                  (<<"items", "id">> :> "uuid"), ("f" :> "none") @@ ("g" :> "users"),
                  ("f" :> "items") @@ ("g" :> "logs"), (<<"logs", "order_id">> :> "orders"))
Typed == Contract(("f" :> {"orders", "users"}), {}, (<<"orders", "buyer">> :> "users"),
                  (<<"orders", "buyer">> :> "text") @@ (<<"users", "id">> :> "uuid"),
                  ("f" :> "none"), ("f" :> "orders"), <<>>)
Whole == Contract(("f" :> {"orders", "users"}) @@ ("g" :> {"orders"}), {}, (<<"orders", "user_id">> :> "users"),
                  (<<"orders", "id">> :> "uuid") @@ (<<"orders", "user_id">> :> "uuid") @@ (<<"users", "id">> :> "uuid")
                    @@ (<<"orders", "item_id">> :> "text") @@ (<<"users", "order_id">> :> "uuid"),
                  ("f" :> "none") @@ ("g" :> "users"), ("f" :> "users") @@ ("g" :> "orders"), <<>>)
Screens == Contract(("g" :> {}), {"g"}, <<>>, <<>>, ("g" :> "users"), ("g" :> "none"), <<>>)
Contracts == {Shop, Stock, Typed, Whole, Screens}

Patch(cs, ds, ix, rm, sh) == [cols |-> cs, drop |-> ds, idx |-> ix, remove |-> rm, shape |-> sh]
PatchSet == {
  ("orders" :> Patch(<<>>, {}, {}, TRUE, "kept")) @@ ("logs" :> Patch(<<>>, {}, {}, TRUE, "kept")),
  ("items" :> Patch(("stock" :> Col("text")), {"order_id"}, {"stock"}, FALSE, "bad"))
    @@ ("users" :> Patch(<<>>, {}, {}, FALSE, "good")),
  ("orders" :> Patch(("item_id" :> Fk("text", "items")), {"user_id"}, {}, FALSE, "kept"))
    @@ ("users" :> Patch(("order_id" :> Col("big")), {}, {"order_id"}, FALSE, "kept"))}
Told == {[targets |-> {"orders", "logs"}, named |-> {}],
         [targets |-> {"items", "orders"}, named |-> {<<"items", "stock">>}],
         [targets |-> {"orders_v2", "users"}, named |-> {}]}
Planned == {{"logs", "orders", "orders_v2", "users"}, {"items", "logs", "orders"}}
=============================================================================
