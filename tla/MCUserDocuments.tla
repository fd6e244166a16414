-------------------------- MODULE MCUserDocuments --------------------------
(* An instance of UserDocuments: files, their contents at first, requests. *)
EXTENDS UserDocuments

CONSTANTS a, b,         \* callers
          fav,          \* the file of favorites
          k1, k2, k3,   \* carts
          q1, q2,       \* saved queries
          p, q,         \* favorite paths
          x,            \* path of a cart item
          n, m,         \* names
          t, v          \* definitions of queries

MCFiles == [s \in Services |-> CASE s = "favorites" -> {fav}
                                 [] s = "filecarts" -> {k1, k2, k3}
                                 [] OTHER -> {q1, q2}]

With(avus)  == [body |-> Empty, avus |-> avus]
OfFavorite(path, name) == Encode([path |-> path, name |-> name])
Stale(path, name) == [OfFavorite(path, name) EXCEPT !.canonical = FALSE]
Items(types) == {EntryAVU([item |-> x, type |-> type]) : type \in types}
AsQuery(k)  == [body |-> NewQuery(k, t), avus |-> {}]

MCStored == [k \in Key |->
    CASE k = fav -> {None, With({OfFavorite(p, n), OfFavorite(q, n)}),
                     With({OfFavorite(p, n), Stale(p, n), Stale(p, Blank)})}
      [] k = k1 -> {None, With({NameAVU(n), NameAVU(m)} \cup Items(EntryTypes)),
                    With({NameAVU(n)} \cup Items({"file"}))}
      [] k = q1 -> {None, AsQuery(q1)}
      [] OTHER -> {None}]

Ask(op, at, value) == [op |-> op, at |-> at, value |-> value]
Fav(path, name) == [path |-> path, name |-> name]

MCRequests == [s \in Services |->
    CASE s = "favorites" ->
            {Ask("AddFavorite", fav, Fav(p, name)) : name \in Name}
            \cup {Ask("AddFavorite", fav, Blank), Ask("RenameFavorite", fav, Fav(p, m)),
                  Ask("RemoveFavorite", fav, Fav(p, n)), Ask("AddFavorite", fav, Fav(q, n)),
                  Ask("ListFavorites", fav, Fav(q, n))}
      [] s = "filecarts" ->
            {Ask("CreateCart", None, n), Ask("ListCarts", None, Blank), Ask("DeleteCart", k1, Blank),
             Ask("SetCartName", k1, m), Ask("SetCartName", k1, Blank), Ask("SetCartName", k2, n),
             Ask("CopyCart", k1, Blank), Ask("CopyCart", k1, m),
             Ask("AddItem", k1, [item |-> x, type |-> "collection"]),
             Ask("RemoveItem", k1, x), Ask("ListItems", k1, Blank)}
      [] OTHER ->
            {Ask("CreateSavedQuery", None, t), Ask("CreateSavedQuery", None, Blank),
             Ask("PutSavedQuery", q1, v), Ask("PutSavedQuery", q1, Blank), Ask("PutSavedQuery", q2, t),
             Ask("GetSavedQuery", q1, Blank), Ask("ListSavedQueries", None, Blank),
             Ask("DeleteSavedQuery", q1, Blank)}]
=============================================================================
