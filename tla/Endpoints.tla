------------------------------ MODULE Endpoints ------------------------------
(***************************************************************************)
(* The permission catalogue, the templates of the roles, and every route   *)
(* of the API with the permission it asks for.  A route is named by its    *)
(* router and its handler; "staff" and "customer" ask only for a session   *)
(* of that realm, "nobody" for none.                                       *)
(***************************************************************************)
EXTENDS FiniteSets

In(area, names) == {<<area, n>> : n \in names}

ALL_PERMISSIONS ==
    UNION {In("products", {"view", "manage", "delete", "offers"}),
           In("warehouses", {"view", "manage"}),
           In("stock", {"view", "receive", "transfer", "adjust", "stocktake", "adjust_cancel"}),
           In("customers", {"view", "manage", "portal_access"}),
           In("sales", {"orders_review", "view", "create", "edit", "delete", "returns", "field_sync",
                        "quotations", "payments", "all_customers", "credit_override",
                        "rationed_view", "rationed_manage", "collections", "commission_view",
                        "returns_cancel", "refund_customer", "round_settle",
                        "round_settle_variance"}),
           In("suppliers", {"view", "manage"}),
           In("purchases", {"view", "create", "edit", "delete", "orders", "returns", "payments"}),
           In("cashier", {"view", "collect", "pay"}),
           In("expenses", {"view", "manage"}),
           In("delivery", {"view", "manage", "deliver"}),
           In("accounting", {"view", "manual_entry", "bank_reconciliation"}),
           In("users", {"manage", "delete"}),
           In("audit", {"view"}), In("analytics", {"view"}), In("settings", {"view", "manage"}),
           In("data", {"import"})}

UserRole == {"admin", "storekeeper", "sales", "driver", "cashier", "accountant"}

ROLE_DEFAULT_PERMISSIONS ==
  [role \in UserRole |->
    CASE role = "admin" -> ALL_PERMISSIONS
      [] role = "storekeeper" ->
            UNION {In("products", {"view"}), In("warehouses", {"view"}),
                   In("stock", {"view", "receive", "transfer", "adjust", "stocktake"}),
                   In("delivery", {"view", "manage", "deliver"}),
                   In("sales", {"round_settle"}), In("settings", {"view"})}
      [] role = "sales" ->
            UNION {In("products", {"view"}), In("warehouses", {"view"}), In("stock", {"view"}),
                   In("customers", {"view"}), In("delivery", {"view"}), In("settings", {"view"}),
                   In("sales", {"view", "create", "orders_review", "returns", "quotations",
                                "field_sync", "payments", "collections", "rationed_view"})}
      [] role = "driver" ->
            UNION {In("warehouses", {"view"}), In("delivery", {"view", "deliver"}),
                   In("settings", {"view"})}
      [] role = "cashier" ->
            UNION {In("cashier", {"view", "collect", "pay"}), In("sales", {"refund_customer"}),
                   In("customers", {"view"}), In("suppliers", {"view"}), In("settings", {"view"})}
      [] role = "accountant" ->
            UNION {In("products", {"view", "offers"}), In("warehouses", {"view"}),
                   In("stock", {"view"}), In("customers", {"view", "manage", "portal_access"}),
                   In("sales", {"view", "payments", "collections", "rationed_view",
                                "rationed_manage", "all_customers", "refund_customer",
                                "returns_cancel", "commission_view", "round_settle",
                                "round_settle_variance"}),
                   In("suppliers", {"view", "manage"}),
                   In("purchases", {"view", "create", "orders", "returns", "payments"}),
                   In("accounting", {"view", "manual_entry", "bank_reconciliation"}),
                   In("analytics", {"view"}), In("expenses", {"view", "manage"}),
                   In("settings", {"view"})}]

-----------------------------------------------------------------------------
(* Routes *)

\* The handlers of a router that ask for one permission.
R(router, area, name, ops) ==
    {[at |-> router, op |-> o, needs |-> <<area, name>>, writes |-> FALSE] : o \in ops}
W(router, area, name, ops) ==
    {[at |-> router, op |-> o, needs |-> <<area, name>>, writes |-> TRUE] : o \in ops}

Realms == {<<"realm", "nobody">>, <<"realm", "staff">>, <<"realm", "customer">>}

CustomerDoors ==
    UNION {W("sales", "customers", "manage", {"create_customer", "update_customer"}),
           R("sales", "customers", "view", {"list_customers", "customer_statement"})}

InvoiceDoors ==
    UNION {W("sales", "sales", "create", {"create_invoice"}),
           W("sales", "sales", "edit", {"update_invoice"}),
           W("sales", "delivery", "manage", {"mark_picked_up"}),
           W("sales", "sales", "delete", {"delete_invoice"}),
           R("sales", "sales", "view", {"list_invoices", "get_invoice", "invoice_timeline"})}

ReturnDoors ==
    UNION {W("sales", "sales", "returns", {"create_return"}),
           W("sales", "sales", "quotations", {"create_quotation", "convert_quotation",
                                              "cancel_quotation"}),
           R("sales", "sales", "view", {"list_returns", "list_quotations", "get_quotation"})}

FieldDoors ==
    UNION {W("sales", "sales", "payments", {"create_payment"}),
           R("sales", "sales", "commission_view", {"commission_report"}),
           R("sales", "sales", "field_sync", {"get_my_van"}),
           W("sales", "sales", "field_sync", {"sync_field_round"}),
           R("sales", "sales", "round_settle", {"list_rounds", "round_position"}),
           W("sales", "sales", "round_settle", {"open_round", "settle_round", "cancel_round"})}

CreditDoors ==
    UNION {W("sales", "sales", "round_settle", {"settle_van_round"}),
           R("sales", "sales", "returns", {"list_customer_credits"}),
           W("sales", "sales", "refund_customer", {"resolve_customer_credit"}),
           W("sales", "sales", "returns_cancel", {"cancel_return"}),
           R("sales", "sales", "collections", {"collections_worklist", "collection_history"}),
           W("sales", "sales", "collections", {"log_collection_activity"})}

RationedDoors ==
    UNION {R("sales", "sales", "rationed_view", {"customer_rationed_register", "rationed_log",
                                                 "rationed_register", "rationed_history"}),
           W("sales", "sales", "rationed_manage", {"close_rationed_register", "untag_rationed_line",
                                                   "set_rationed_taxes"})}

ProductDoors ==
    UNION {W("inventory", "warehouses", "manage", {"create_warehouse", "update_warehouse"}),
           R("inventory", "warehouses", "view", {"list_warehouses"}),
           W("inventory", "products", "manage", {"create_product", "update_product"}),
           W("inventory", "products", "delete", {"delete_product"}),
           R("inventory", "products", "view", {"list_products", "product_lookup",
                                               "get_product_by_barcode", "get_product"})}

StockDoors ==
    UNION {R("inventory", "stock", "view", {"list_product_batches", "stock_levels", "near_expiry",
                                            "reorder_suggestions", "list_adjustments",
                                            "get_adjustment"}),
           W("inventory", "stock", "receive", {"receive_stock"}),
           W("inventory", "stock", "transfer", {"transfer_stock"}),
           W("inventory", "stock", "adjust", {"create_adjustment"}),
           W("inventory", "stock", "adjust_cancel", {"cancel_adjustment"})}

CountDoors ==
    UNION {W("inventory", "stock", "stocktake", {"open_stocktake", "save_stocktake_counts",
                                                 "post_stocktake", "cancel_stocktake"}),
           R("inventory", "stock", "view", {"list_stocktakes", "get_stocktake"})}

OfferDoors ==
    UNION {R("inventory", "products", "view", {"list_offers"}),
           R("inventory", "products", "offers", {"markdown_plan"}),
           W("inventory", "products", "offers", {"create_offer", "end_offer",
                                                 "apply_markdown_plan"})}

SupplierDoors ==
    UNION {W("purchases", "suppliers", "manage", {"create_supplier", "update_supplier"}),
           R("purchases", "suppliers", "view", {"list_suppliers"}),
           R("purchases", "suppliers", "manage", {"supplier_statement"}),
           W("purchases", "purchases", "create", {"create_invoice"}),
           W("purchases", "purchases", "edit", {"update_invoice"}),
           W("purchases", "purchases", "delete", {"delete_invoice"}),
           R("purchases", "purchases", "view", {"list_invoices", "get_invoice"})}

OrderDoors ==
    UNION {W("purchases", "purchases", "orders", {"create_order", "update_order", "send_order",
                                                  "cancel_order", "receive_order"}),
           R("purchases", "purchases", "view", {"list_orders", "get_order"})}

SupplierMoneyDoors ==
    UNION {W("purchases", "purchases", "returns", {"create_return"}),
           R("purchases", "purchases", "view", {"list_returns"}),
           W("purchases", "purchases", "payments", {"create_payment"})}

TillDoors ==
    UNION {R("cashier", "cashier", "view", {"list_pending_invoices", "list_pending_payables",
                                            "daily_summary"}),
           W("cashier", "cashier", "collect", {"collect_payment"}),
           W("cashier", "cashier", "pay", {"pay_purchase_invoice", "pay_expense"}),
           W("cashier", "sales", "refund_customer", {"refund_customer_credit"})}

TripDoors ==
    UNION {R("delivery", "delivery", "view", {"list_delivery_invoices", "invoice_prep",
                                              "list_trips", "get_trip", "picking_list"}),
           W("delivery", "delivery", "manage", {"create_trip", "add_invoice", "remove_stop",
                                                "dispatch_trip"}),
           W("delivery", "delivery", "deliver", {"update_stop_status", "complete_trip"})}

ExpenseDoors ==
    UNION {R("expenses", "expenses", "view", {"list_categories", "list_expenses"}),
           W("expenses", "expenses", "manage", {"create_category", "update_category",
                                                "create_expense"})}

LedgerDoors ==
    UNION {R("accounting", "accounting", "view",
             {"list_accounts", "list_journal_entries", "get_journal_entry", "trial_balance",
              "tax_summary", "income_statement", "balance_sheet"}),
           W("accounting", "accounting", "manual_entry", {"create_account", "create_manual_entry"})}

BankDoors ==
    UNION {R("accounting", "accounting", "bank_reconciliation",
             {"list_bank_statement_lines", "list_unmatched_journal_items",
              "bank_reconciliation_summary"}),
           W("accounting", "accounting", "bank_reconciliation",
             {"create_bank_statement_line", "match_bank_statement_line",
              "unmatch_bank_statement_line"})}

SalesFigureDoors ==
    R("analytics", "analytics", "view",
      {"summary", "customer_rfm", "product_rfm", "sales_trend", "sales_by_warehouse",
       "sales_by_price_tier", "returns_trend", "lapsing_customers", "expiry_risk", "turnover"})

RiskFigureDoors ==
    R("analytics", "analytics", "view",
      {"ar_aging", "credit_risk", "fulfillment_summary", "driver_performance", "rep_performance",
       "expiry_worklist", "damage_report", "discount_report", "pareto_report"})

SettingDoors ==
    UNION {R("settings", "settings", "view", {"list_tax_rates", "list_timezones", "list_countries",
                                              "get_company_settings"}),
           W("settings", "settings", "manage", {"create_tax_rate", "update_tax_rate",
                                                "delete_tax_rate", "update_company_settings"})}

UserDoors ==
    UNION {W("auth", "realm", "nobody", {"login", "refresh"}), R("auth", "realm", "staff", {"me"}),
           R("auth", "users", "manage", {"list_users", "list_permissions"}),
           W("auth", "users", "manage", {"create_user", "update_user"}),
           W("auth", "users", "delete", {"delete_user"})}

SystemDoors ==
    UNION {R("audit", "audit", "view", {"list_logs", "list_tables"}),
           R("alerts", "realm", "staff", {"list_alerts"})}

ImportDoors ==
    UNION {R("imports", "data", "import", {"import_guide", "download_template",
                                           "download_csv_bundle", "download_sheet_csv"}),
           W("imports", "data", "import", {"run_import"})}

PortalDoors ==
    UNION {W("portal", "realm", "nobody", {"portal_login", "portal_refresh"}),
           R("portal", "realm", "customer",
             {"portal_me", "portal_statement", "portal_invoices", "portal_invoice",
              "portal_catalog"}),
           W("portal", "realm", "customer", {"portal_change_password", "portal_update_profile"})}

PortalOrderDoors ==
    UNION {R("portal", "realm", "customer", {"portal_orders", "portal_order",
                                             "portal_order_timeline"}),
           W("portal", "realm", "customer", {"portal_place_order", "portal_cancel_order"}),
           R("portal", "sales", "orders_review", {"list_customer_orders"}),
           W("portal", "sales", "orders_review", {"approve_customer_order", "reject_customer_order",
                                                  "invoice_customer_order"}),
           R("portal", "customers", "portal_access", {"list_customer_logins"}),
           W("portal", "customers", "portal_access", {"create_customer_login",
                                                      "delete_customer_login",
                                                      "update_customer_login"})}

Routes ==
    UNION {CustomerDoors, InvoiceDoors, ReturnDoors, FieldDoors, CreditDoors, RationedDoors,
           ProductDoors, StockDoors, CountDoors, OfferDoors, SupplierDoors, OrderDoors,
           SupplierMoneyDoors, TillDoors, TripDoors, ExpenseDoors, LedgerDoors, BankDoors,
           SalesFigureDoors, RiskFigureDoors, SettingDoors, UserDoors, SystemDoors, ImportDoors,
           PortalDoors, PortalOrderDoors}
-----------------------------------------------------------------------------
(* Screens *)

Page(area, name, reads) == [perm |-> <<area, name>>, reads |-> reads]

\* The entries of the navigation, and what their pages load when they open.
NAV_ITEMS ==
    {Page("products", "view", {<<"inventory", "list_products">>, <<"inventory", "list_warehouses">>}),
     Page("warehouses", "view", {<<"inventory", "list_warehouses">>}),
     Page("stock", "view", {<<"inventory", "list_warehouses">>, <<"inventory", "stock_levels">>,
                            <<"inventory", "near_expiry">>, <<"inventory", "list_adjustments">>,
                            <<"inventory", "list_stocktakes">>}),
     Page("stock", "view", {<<"analytics", "expiry_worklist">>}),
     Page("products", "offers", {<<"inventory", "markdown_plan">>, <<"settings", "get_company_settings">>}),
     Page("customers", "view", {<<"sales", "list_customers">>}),
     Page("sales", "collections", {<<"sales", "collections_worklist">>}),
     Page("sales", "view", {<<"sales", "list_invoices">>, <<"sales", "list_returns">>,
                            <<"sales", "list_customers">>, <<"inventory", "list_warehouses">>,
                            <<"settings", "list_tax_rates">>}),
     Page("sales", "field_sync", {<<"sales", "list_customers">>, <<"inventory", "product_lookup">>,
                                  <<"sales", "get_my_van">>, <<"settings", "list_tax_rates">>}),
     Page("sales", "round_settle", {<<"inventory", "list_warehouses">>, <<"sales", "list_rounds">>}),
     Page("sales", "orders_review", {<<"portal", "list_customer_orders">>,
                                     <<"inventory", "list_warehouses">>,
                                     <<"settings", "list_tax_rates">>}),
     Page("cashier", "view", {<<"cashier", "list_pending_invoices">>,
                              <<"cashier", "list_pending_payables">>,
                              <<"sales", "list_customer_credits">>,
                              <<"sales", "list_customers">>, <<"cashier", "daily_summary">>}),
     Page("delivery", "view", {<<"delivery", "list_trips">>, <<"delivery", "list_delivery_invoices">>,
                               <<"inventory", "list_warehouses">>}),
     Page("suppliers", "view", {<<"purchases", "list_suppliers">>}),
     Page("purchases", "view", {<<"purchases", "list_invoices">>, <<"purchases", "list_orders">>,
                                <<"purchases", "list_returns">>, <<"purchases", "list_suppliers">>,
                                <<"inventory", "list_warehouses">>, <<"settings", "list_tax_rates">>}),
     Page("expenses", "view", {<<"expenses", "list_categories">>, <<"expenses", "list_expenses">>}),
     Page("accounting", "view", {<<"accounting", "list_accounts">>,
                                 <<"accounting", "list_journal_entries">>,
                                 <<"accounting", "trial_balance">>, <<"accounting", "tax_summary">>,
                                 <<"accounting", "income_statement">>,
                                 <<"accounting", "balance_sheet">>}),
     Page("analytics", "view", {<<"inventory", "product_lookup">>, <<"sales", "list_customers">>}),
     Page("settings", "view", {<<"settings", "list_tax_rates">>, <<"settings", "get_company_settings">>}),
     Page("users", "manage", {<<"auth", "list_users">>, <<"auth", "list_permissions">>}),
     Page("audit", "view", {<<"audit", "list_tables">>, <<"auth", "list_users">>,
                            <<"audit", "list_logs">>}),
     Page("data", "import", {<<"imports", "import_guide">>})}

=============================================================================
